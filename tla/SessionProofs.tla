--------------------------- MODULE SessionProofs ---------------------------
(***************************************************************************)
(* Theorems about Session, for every value of its constants: its types,    *)
(* the numbering of the Log it writes, the evidence it keeps of every      *)
(* call, and that it implements CallLedger.                                *)
(***************************************************************************)
EXTENDS SessionLedger, SequenceTheorems, FiniteSetTheorems, TLAPS

PlannedEvent == [type : EventType, call : Calls \cup {NoCall}, via : Via]

-----------------------------------------------------------------------------
(* Lists and plans. *)

LEMMA ListingsFacts ==
  ASSUME NEW S \in SUBSET Calls, NEW s \in Listings(S)
  PROVE  /\ s \in Seq(S)
         /\ s \in Seq(Calls)
         /\ \A c \in S : \E i \in 1..Len(s) : s[i] = c
<1>1. PICK n \in 0..Cardinality(Calls) : s \in [1..n -> S]
  BY DEF Listings, BoundedSeq, SeqOf
<1>2. Cardinality(Calls) \in Nat
  BY SessionAssumption, FS_CardinalityType
<1>3. n \in Nat
  BY <1>1, <1>2
<1>4. s \in Seq(S)
  BY <1>1, <1>3
<1>5. s \in Seq(Calls)
  BY <1>4, SeqMonotonic
<1> QED BY <1>4, <1>5 DEF Listings

LEMMA PlanForFacts ==
  ASSUME NEW calls \in Seq(Calls), NEW type \in EventType, NEW via \in Via
  PROVE  /\ PlanFor(calls, type, via) \in Seq(PlannedEvent)
         /\ Len(PlanFor(calls, type, via)) = Len(calls)
         /\ \A i \in 1..Len(calls) : PlanFor(calls, type, via)[i] = Planned(type, calls[i], via)
<1>1. \A i \in 1..Len(calls) : calls[i] \in Calls
  OBVIOUS
<1>2. \A i \in 1..Len(calls) : Planned(type, calls[i], via) \in PlannedEvent
  BY <1>1 DEF Planned, PlannedEvent
<1>3. Len(calls) \in Nat
  OBVIOUS
<1> QED BY <1>2, <1>3 DEF PlanFor

LEMMA PlannedType ==
  ASSUME NEW type \in EventType, NEW call \in Calls \cup {NoCall}, NEW via \in Via
  PROVE  /\ <<Planned(type, call, via)>> \in Seq(PlannedEvent)
         /\ Len(<<Planned(type, call, via)>>) = 1
         /\ <<Planned(type, call, via)>>[1] = Planned(type, call, via)
BY DEF Planned, PlannedEvent

\* What an append does to the Log.
LEMMA AppendFirstFacts ==
  ASSUME log \in Seq(Event), seq \in Nat,
         NEW plan \in Seq(PlannedEvent), NEW k \in 0..Len(plan),
         AppendFirst(plan, k)
  PROVE  /\ log' \in Seq(Event)
         /\ seq' \in Nat
         /\ seq' = seq + k
         /\ Len(log') = Len(log) + k
         /\ \A i \in 1..Len(log) : log'[i] = log[i]
         /\ \A i \in 1..k : log'[Len(log) + i] = Stamped(plan[i], seq + i - 1)
<1> DEFINE new == [i \in 1..k |-> Stamped(plan[i], seq + i - 1)]
<1>1. k \in Nat /\ \A i \in 1..k : i \in 1..Len(plan) /\ plan[i] \in PlannedEvent
  OBVIOUS
<1>2. \A i \in 1..k : seq + i - 1 \in Nat
  BY <1>1
<1>3. \A i \in 1..k : Stamped(plan[i], seq + i - 1) \in Event
  BY <1>1, <1>2 DEF Stamped, PlannedEvent, Event
<1>4. new \in Seq(Event) /\ Len(new) = k
  BY <1>1, <1>3
<1>5. log' = log \o new
  BY DEF AppendFirst
<1> HIDE DEF new
<1>6. /\ log' \in Seq(Event)
      /\ Len(log') = Len(log) + k
      /\ \A i \in 1..Len(log) + k : log'[i] = IF i <= Len(log) THEN log[i] ELSE new[i - Len(log)]
  BY <1>4, <1>5, ConcatProperties
<1>7. \A i \in 1..k : log'[Len(log) + i] = Stamped(plan[i], seq + i - 1)
  <2> TAKE i \in 1..k
  <2>1. Len(log) + i \in 1..Len(log) + k /\ ~(Len(log) + i <= Len(log)) /\ Len(log) + i - Len(log) = i
    BY <1>1
  <2>2. Len(log) + i <= Len(log) + k /\ log'[Len(log) + i] = new[i]
    BY <2>1, <1>6
  <2>3. new[i] = Stamped(plan[i], seq + i - 1)
    BY DEF new
  <2> QED BY <2>2, <2>3
<1>8. \A i \in 1..Len(log) : log'[i] = log[i]
  <2> TAKE i \in 1..Len(log)
  <2>1. i \in 1..Len(log) + k /\ i <= Len(log)
    BY <1>1
  <2> QED BY <2>1, <1>6
<1>9. seq' = seq + k /\ seq' \in Nat
  BY <1>1 DEF AppendFirst
<1> QED BY <1>6, <1>7, <1>8, <1>9

\* A handler's plan is written in full or up to the append that fails.
LEMMA Written ==
  ASSUME NEW plan, NEW k,
         plan \in Seq(PlannedEvent),
         (AppendAll(plan) /\ k = Len(plan)) \/ AppendFails(plan, k)
  PROVE  k \in 0..Len(plan) /\ AppendFirst(plan, k)
BY DEF AppendAll, AppendFails

-----------------------------------------------------------------------------
(* Type correctness. *)

\* The oldest message and what remains.
LEMMA ReceiveFacts ==
  ASSUME TypeOK, NEW op, Receive(op)
  PROVE  /\ m \in Message /\ m.op = op
         /\ mailbox' \in Seq(Message)
BY HeadTailProperties DEF TypeOK, Receive, m

LEMMA SendFacts ==
  ASSUME TypeOK, NEW msg \in Message, Send(msg)
  PROVE  mailbox' \in Seq(Message)
BY AppendProperties DEF TypeOK, Send

\* The Task is either a LiveTask or absent; every step it can be at says so.
LEMMA TaskAlive ==
  ASSUME TypeOK, task # NoTask
  PROVE  task \in LiveTask /\ task.turn \in Identity
BY DEF TypeOK, LiveTask

LEMMA NoTaskIsIdle ==
  NoTask.at = "none" /\ NoTask.waiting = FALSE /\ NoTask.turn = NoTurn
BY DEF NoTask

LEMMA NoTurnIsNoIdentity == NoTurn \notin Identity
BY SessionAssumption DEF Identity

LEMMA NextCallType ==
  ASSUME NEW t \in LiveTask, t.at \in {"call", "result", "fallback"}
  PROVE  NextCall(t) \in LiveTask
<1>1. t.todo \in Seq(Calls) /\ t.todo # <<>>
  BY DEF LiveTask
<1>2. Tail(t.todo) \in Seq(Calls) /\ Len(Tail(t.todo)) = Len(t.todo) - 1 /\ Len(t.todo) \in Nat
  BY <1>1, HeadTailProperties
<1>3. Len(t.todo) # 1 => Tail(t.todo) # <<>>
  <2>1. Len(t.todo) # 1 => Len(Tail(t.todo)) # 0
    BY <1>2
  <2> QED BY <2>1, EmptySeq
<1> QED BY <1>2, <1>3 DEF NextCall, LiveTask

LEMMA RepliedType ==
  ASSUME TypeOK, NEW ok \in BOOLEAN, Replied(ok), task # NoTask
  PROVE  task' \in LiveTask
<1>1. task \in LiveTask
  BY TaskAlive
<1>2. CASE task.at = "call" /\ task' = GoTo(task, "result")
  BY <1>1, <1>2 DEF GoTo, LiveTask
<1>3. CASE task.at \in {"call", "result", "fallback"} /\ task' = NextCall(task)
  BY <1>1, <1>3, NextCallType
<1>4. CASE task.at = "result" /\ task' = Abandon(task)
  <2>1. <<>> \in Seq(Calls)
    OBVIOUS
  <2> QED BY <1>1, <1>4, <2>1 DEF Abandon, LiveTask
<1>5. CASE task.at = "result" /\ task' = GoTo(task, "fallback")
  BY <1>1, <1>5 DEF GoTo, LiveTask
<1>6. CASE task.at = "message" /\ task' = GoTo(task, "exit")
  BY <1>1, <1>6 DEF GoTo, LiveTask
<1> QED BY <1>2, <1>3, <1>4, <1>5, <1>6 DEF Replied

LEMMA ReplyToTaskType ==
  ASSUME TypeOK, NEW ok \in BOOLEAN, ReplyToTask(ok), m.turn \in Identity
  PROVE  task' \in LiveTask \cup {NoTask}
BY RepliedType, NoTaskIsIdle, NoTurnIsNoIdentity DEF ReplyToTask, TypeOK

LEMMA WriteType ==
  ASSUME TypeOK, NEW plan \in Seq(PlannedEvent), NEW k,
         (AppendAll(plan) /\ k = Len(plan)) \/ AppendFails(plan, k)
  PROVE  log' \in Seq(Event) /\ seq' \in Nat /\ faults' \in 0..MaxFaults
<1>1. k \in 0..Len(plan) /\ AppendFirst(plan, k)
  BY Written
<1>2. log' \in Seq(Event) /\ seq' \in Nat
  BY <1>1, AppendFirstFacts DEF TypeOK
<1>3. faults' \in 0..MaxFaults
  BY SessionAssumption DEF TypeOK, AppendAll, AppendFails
<1> QED BY <1>2, <1>3

LEMMA DrainListsType ==
  ASSUME NEW calls \in Seq(Calls), NEW d \in DrainLists(calls)
  PROVE  d \in Seq(Calls)
<1>1. ToSet(calls) \in SUBSET Calls
  BY DEF ToSet
<1> QED BY <1>1, ListingsFacts DEF DrainLists

LEMMA ReconcileListsType ==
  ASSUME NEW d \in Seq(Calls), NEW r \in ReconcileLists(d)
  PROVE  r \in Seq(Calls)
<1>1. Pending(log) \cup ToSet(d) \in SUBSET Calls
  BY DEF ToSet, Pending
<1> QED BY <1>1, ListingsFacts DEF ReconcileLists

LEMMA ForgetType ==
  ASSUME NEW calls \in Seq(Calls), NEW c
  PROVE  Forget(calls, c) \in Seq(Calls)
<1>1. CASE c \in ToSet(calls)
  <2> DEFINE i == CHOOSE j \in 1..Len(calls) : calls[j] = c
  <2>1. i \in 1..Len(calls)
    BY <1>1 DEF ToSet
  <2>2. Forget(calls, c) = RemoveAt(calls, i)
    BY <1>1 DEF Forget
  <2> HIDE DEF i
  <2>3. SubSeq(calls, 1, i - 1) \in Seq(Calls)
    BY <2>1
  <2>4. SubSeq(calls, i + 1, Len(calls)) \in Seq(Calls)
    BY <2>1
  <2>5. RemoveAt(calls, i) \in Seq(Calls)
    BY <2>3, <2>4, ConcatProperties DEF RemoveAt
  <2> QED BY <2>2, <2>5
<1>2. CASE c \notin ToSet(calls)
  BY <1>2 DEF Forget
<1> QED BY <1>1, <1>2

LEMMA UndrainedType ==
  ASSUME NEW d \in Seq(Calls), NEW k \in Nat
  PROVE  Undrained(d, k) \in SUBSET Calls
BY DEF Undrained

LEMMA PlansType ==
  ASSUME NEW calls \in Seq(Calls), NEW results \in Seq(Calls), NEW via \in Via
  PROVE  /\ PlanFor(calls, "tool_call", via) \in Seq(PlannedEvent)
         /\ PlanFor(results, "tool_result", via) \in Seq(PlannedEvent)
         /\ ClosePlan(calls, results, via) \in Seq(PlannedEvent)
         /\ ClosePlan(calls, results, via) \o <<Planned("turn_failed", NoCall, via)>>
               \in Seq(PlannedEvent)
<1>1. "tool_call" \in EventType /\ "tool_result" \in EventType /\ "turn_failed" \in EventType
  BY DEF EventType
<1>2. /\ PlanFor(calls, "tool_call", via) \in Seq(PlannedEvent)
      /\ PlanFor(results, "tool_result", via) \in Seq(PlannedEvent)
      /\ <<Planned("turn_failed", NoCall, via)>> \in Seq(PlannedEvent)
  BY <1>1, PlanForFacts, PlannedType
<1> QED BY <1>2, ConcatProperties DEF ClosePlan

LEMMA DrainType ==
  ASSUME TypeOK, NEW plan \in Seq(PlannedEvent), NEW d \in Seq(Calls),
         Drains(plan) \/ DrainFails(plan, d)
  PROVE  log' \in Seq(Event) /\ seq' \in Nat /\ faults' \in 0..MaxFaults /\ excused' \in SUBSET Calls
<1>1. CASE Drains(plan)
  BY <1>1, WriteType DEF Drains, TypeOK
<1>2. CASE DrainFails(plan, d)
  <2>1. PICK k \in 0..Len(plan) : AppendFails(plan, k) /\ excused' = excused \cup Undrained(d, k)
    BY <1>2 DEF DrainFails
  <2>2. Undrained(d, k) \in SUBSET Calls
    BY UndrainedType
  <2> QED BY <2>1, <2>2, WriteType DEF TypeOK
<1> QED BY <1>1, <1>2

LEMMA RunnerType ==
  ASSUME NEW r \in [Identity -> Runner], NEW t \in Identity
  PROVE  /\ r[t].st \in {"off", "run", "wait"} /\ r[t].got \in Seq(Calls)
         /\ Idle \in Runner
         /\ [st |-> "run", got |-> <<>>] \in Runner
         /\ \A st \in {"off", "run", "wait"} : [r[t] EXCEPT !.st = st] \in Runner
         /\ [r[t] EXCEPT !.got = <<>>] \in Runner
         /\ \A c \in Calls, st \in {"off", "run", "wait"} :
               [st |-> st, got |-> Append(r[t].got, c)] \in Runner
<1>1. r[t] \in Runner /\ <<>> \in Seq(Calls)
  OBVIOUS
<1>2. r[t].got \in Seq(Calls) /\ r[t].st \in {"off", "run", "wait"}
  BY <1>1 DEF Runner
<1>3. \A c \in Calls : Append(r[t].got, c) \in Seq(Calls)
  BY <1>2, AppendProperties
<1> QED BY <1>1, <1>2, <1>3 DEF Runner, Idle

\* What the Session is told it may keep: the types of the messages sent.
LEMMA RequestType ==
  /\ \A t \in Identity, type \in EventType, call \in Calls \cup {NoCall} :
        Request("record", t, type, call) \in Message
  /\ \A t \in Identity, c \in Calls : Request("declare", t, "none", c) \in Message
  /\ \A t \in Identity, op \in {"result", "down"} : Request(op, t, "none", NoCall) \in Message
  /\ \A op \in {"start_turn", "interrupt"} : Request(op, NoTurn, "none", NoCall) \in Message
BY DEF Request, Message

LEMMA InitType == Init => TypeOK
<1> SUFFICES ASSUME Init PROVE TypeOK
  OBVIOUS
<1>1. <<>> \in Seq(Calls) /\ <<>> \in Seq(Event) /\ <<>> \in Seq(Message)
  OBVIOUS
<1>2. Idle \in Runner
  BY <1>1 DEF Idle, Runner
<1> QED BY <1>1, <1>2, SessionAssumption DEF Init, TypeOK

\* The steps of the Turn Task.
LEMMA TaskTypes ==
  ASSUME TypeOK, TaskStep \/ TaskCrashes
  PROVE  TypeOK'
<1>1. CASE TaskOpensStream
  <2>1. task \in LiveTask /\ task.turn \in Identity
    BY <1>1, TaskAlive, NoTaskIsIdle DEF TaskOpensStream
  <2>2. task' \in LiveTask
    BY <1>1, <2>1 DEF TaskOpensStream, LiveTask
  <2>3. runner' \in [Identity -> Runner]
    BY <1>1, <2>1, RunnerType DEF TaskOpensStream, TypeOK
  <2> QED BY <1>1, <2>2, <2>3 DEF TaskOpensStream, TypeOK, sessionVars, historyVars
<1>2. CASE TaskRecords
  <2>1. task \in LiveTask /\ task.turn \in Identity
    BY <1>2, TaskAlive, NoTaskIsIdle DEF TaskRecords
  <2>2. task' \in LiveTask
    BY <1>2, <2>1 DEF TaskRecords, LiveTask
  <2>3. task.at \in {"call", "result", "fallback"} => Head(task.todo) \in Calls
    BY <2>1, HeadTailProperties DEF LiveTask
  <2>4. {"tool_call", "tool_result", "message"} \subseteq EventType
    BY DEF EventType
  <2>5. mailbox' \in Seq(Message)
    BY <1>2, <2>1, <2>3, <2>4, RequestType, SendFacts DEF TaskRecords
  <2> QED BY <1>2, <2>2, <2>5 DEF TaskRecords, TypeOK, sessionVars, historyVars
<1>3. CASE TaskReturns
  <2>1. task \in LiveTask /\ task.turn \in Identity
    BY <1>3, TaskAlive, NoTaskIsIdle DEF TaskReturns
  <2>2. mailbox' \in Seq(Message)
    BY <1>3, <2>1, RequestType, SendFacts DEF TaskReturns
  <2> QED BY <1>3, <2>2 DEF TaskReturns, TypeOK, sessionVars, historyVars
<1>4. CASE TaskCrashes
  <2>1. task \in LiveTask /\ task.turn \in Identity
    BY <1>4, TaskAlive DEF TaskCrashes
  <2>2. mailbox' \in Seq(Message)
    BY <1>4, <2>1, RequestType, SendFacts DEF TaskCrashes
  <2> QED BY <1>4, <2>2 DEF TaskCrashes, TypeOK, sessionVars, historyVars
<1> QED BY <1>1, <1>2, <1>3, <1>4 DEF TaskStep

\* The steps of a stream runner.
LEMMA RunnerTypes ==
  ASSUME TypeOK, NEW t \in Identity,
         \/ \E c \in Calls : RunnerCommits(t, c)
         \/ RunnerCompletes(t) \/ StreamFails(t) \/ StreamIdleCut(t)
  PROVE  TypeOK'
<1>1. ASSUME NEW c \in Calls, RunnerCommits(t, c) PROVE TypeOK'
  <2>1. runner' \in [Identity -> Runner]
    BY <1>1, RunnerType DEF RunnerCommits, TypeOK
  <2>2. mailbox' \in Seq(Message)
    BY <1>1, RequestType, SendFacts DEF RunnerCommits, TypeOK
  <2>3. owner' \in [Calls -> Identity \cup {NoTurn}]
    BY <1>1 DEF RunnerCommits, TypeOK
  <2> QED BY <1>1, <2>1, <2>2, <2>3 DEF RunnerCommits, TypeOK, sessionVars, historyVars
<1>2. ASSUME Streaming(t)
      PROVE  /\ task \in LiveTask
             /\ [task EXCEPT !.at = "message"] \in LiveTask
             /\ [task EXCEPT !.retries = @ + 1] \in LiveTask
             /\ runner[t].got # <<>> =>
                  [task EXCEPT !.at = "call", !.todo = runner[t].got,
                               !.ran = @ \cup ToSet(runner[t].got)] \in LiveTask
  <2>1. task \in LiveTask
    BY <1>2, TaskAlive, NoTaskIsIdle, NoTurnIsNoIdentity DEF Streaming
  <2>2. runner[t].got \in Seq(Calls) /\ ToSet(runner[t].got) \in SUBSET Calls
    <3>1. runner[t].got \in Seq(Calls)
      BY RunnerType DEF TypeOK
    <3>2. \A i \in DOMAIN runner[t].got : runner[t].got[i] \in Calls
      BY <3>1
    <3> QED BY <3>1, <3>2 DEF ToSet
  <2>3. task.at = "stream"
    BY <1>2 DEF Streaming
  <2>4. [task EXCEPT !.at = "message"] \in LiveTask /\ [task EXCEPT !.retries = @ + 1] \in LiveTask
    BY <2>1, <2>3 DEF LiveTask
  <2>5. ASSUME runner[t].got # <<>>
        PROVE  [task EXCEPT !.at = "call", !.todo = runner[t].got,
                            !.ran = @ \cup ToSet(runner[t].got)] \in LiveTask
    BY <2>1, <2>2, <2>5 DEF LiveTask
  <2> QED BY <2>1, <2>4, <2>5
<1>3. CASE RunnerCompletes(t)
  <2>1. runner' \in [Identity -> Runner]
    BY <1>3, RunnerType DEF RunnerCompletes, TypeOK
  <2>2. task' \in LiveTask \cup {NoTask}
    BY <1>2, <1>3 DEF RunnerCompletes, TypeOK
  <2> QED BY <1>3, <2>1, <2>2 DEF RunnerCompletes, TypeOK, sessionVars, historyVars
<1>4. CASE StreamFails(t)
  <2>1. runner' \in [Identity -> Runner]
    BY <1>4, RunnerType DEF StreamFails, TypeOK
  <2>2. task' \in LiveTask \cup {NoTask}
    BY <1>2, <1>4 DEF StreamFails
  <2> QED BY <1>4, <2>1, <2>2 DEF StreamFails, TypeOK, sessionVars, historyVars
<1>5. CASE StreamIdleCut(t)
  <2>1. runner' \in [Identity -> Runner]
    BY <1>5, RunnerType DEF StreamIdleCut, TypeOK
  <2>2. task' \in LiveTask \cup {NoTask}
    BY <1>2, <1>5 DEF StreamIdleCut
  <2> QED BY <1>5, <2>1, <2>2 DEF StreamIdleCut, TypeOK, sessionVars, historyVars
<1> QED BY <1>1, <1>3, <1>4, <1>5

\* The steps of a client.
LEMMA ClientTypes ==
  ASSUME TypeOK, ClientStartsTurn \/ ClientInterrupts
  PROVE  TypeOK'
<1>1. mailbox' \in Seq(Message)
  BY RequestType, SendFacts DEF ClientStartsTurn, ClientInterrupts
<1> QED BY <1>1 DEF ClientStartsTurn, ClientInterrupts, TypeOK, sessionVars, historyVars

\* The Session's handlers.
LEMMA HandlerTypes ==
  ASSUME TypeOK, Handle
  PROVE  TypeOK'
<1> USE DEF sessionVars, historyVars
<1>1. CASE HandleRecord
  <2>1. m \in Message /\ m.op = "record" /\ mailbox' \in Seq(Message)
    BY <1>1, ReceiveFacts DEF HandleRecord
  <2>2. m.turn \in Identity /\ m.type \in EventType /\ m.call \in Calls \cup {NoCall}
    BY <2>1 DEF Message
  <2> DEFINE via == IF FromRunningTurn THEN "record" ELSE "late"
             plan == <<Planned(m.type, m.call, via)>>
  <2>3. plan \in Seq(PlannedEvent) /\ Len(plan) = 1
    BY <2>2, PlannedType DEF Via
  <2> HIDE DEF plan
  <2>4. CASE /\ AppendAll(plan)
             /\ committed_calls' = IF m.type = "tool_call" THEN Forget(committed_calls, m.call)
                                                           ELSE committed_calls
             /\ ReplyToTask(TRUE)
    <3>1. log' \in Seq(Event) /\ seq' \in Nat /\ faults' \in 0..MaxFaults
      BY <2>3, <2>4, WriteType
    <3>2. committed_calls' \in Seq(Calls)
      BY <2>4, ForgetType DEF TypeOK
    <3>3. task' \in LiveTask \cup {NoTask}
      BY <2>2, <2>4, ReplyToTaskType
    <3> QED BY <1>1, <2>1, <3>1, <3>2, <3>3 DEF HandleRecord, TypeOK
  <2>5. CASE AppendFails(plan, 0) /\ UNCHANGED committed_calls /\ ReplyToTask(FALSE)
    <3>1. log' \in Seq(Event) /\ seq' \in Nat /\ faults' \in 0..MaxFaults
      BY <2>3, <2>5, WriteType
    <3>2. task' \in LiveTask \cup {NoTask}
      BY <2>2, <2>5, ReplyToTaskType
    <3> QED BY <1>1, <2>1, <2>5, <3>1, <3>2 DEF HandleRecord, TypeOK
  <2> QED BY <1>1, <2>4, <2>5 DEF HandleRecord, plan
<1>2. CASE HandleDeclaration
  <2>1. m \in Message /\ m.op = "declare" /\ mailbox' \in Seq(Message)
    BY <1>2, ReceiveFacts DEF HandleDeclaration
  <2>2. m.turn \in Identity /\ m.call \in Calls
    BY <2>1 DEF Message
  <2>3. committed_calls' \in Seq(Calls)
    BY <1>2, <2>2, AppendProperties DEF HandleDeclaration, TypeOK
  <2>4. runner' \in [Identity -> Runner]
    BY <1>2, <2>2, RunnerType DEF HandleDeclaration, ReplyToRunner, TypeOK
  <2> QED BY <1>2, <2>1, <2>2, <2>3, <2>4 DEF HandleDeclaration, TypeOK
<1>3. CASE HandleStraggler
  <2>1. m \in Message /\ m.op = "declare" /\ mailbox' \in Seq(Message)
    BY <1>3, ReceiveFacts DEF HandleStraggler
  <2>2. m.turn \in Identity /\ m.call \in Calls
    BY <2>1 DEF Message
  <2>3. runner' \in [Identity -> Runner]
    BY <1>3, <2>2, RunnerType DEF HandleStraggler, ReplyToRunner, TypeOK
  <2> DEFINE via == IF turn = NoTurn THEN "declared_without_turn" ELSE "stale_turn_generation"
             plan == IF m.call \in Known(log) THEN <<>> ELSE <<Planned("tool_call", m.call, via)>>
  <2>4. plan \in Seq(PlannedEvent)
    <3>1. via \in Via /\ "tool_call" \in EventType
      BY DEF Via, EventType
    <3>2. <<Planned("tool_call", m.call, via)>> \in Seq(PlannedEvent)
      BY <2>2, <3>1, PlannedType
    <3> QED BY <3>2
  <2> HIDE DEF plan
  <2>5. \/ AppendAll(plan) /\ UNCHANGED excused
        \/ AppendFails(plan, 0) /\ excused' = excused \cup ({m.call} \ Known(log))
    BY <1>3 DEF HandleStraggler, plan
  <2>6. log' \in Seq(Event) /\ seq' \in Nat /\ faults' \in 0..MaxFaults
    BY <2>4, <2>5, WriteType
  <2>7. excused' \in SUBSET Calls
    BY <2>2, <2>5 DEF TypeOK
  <2> QED BY <1>3, <2>1, <2>2, <2>3, <2>6, <2>7 DEF HandleStraggler, TypeOK
<1>4. CASE HandleStartTurn
  <2>1. mailbox' \in Seq(Message)
    BY <1>4, ReceiveFacts DEF HandleStartTurn
  <2> DEFINE next == [inc |-> incarnation, gen |-> turn_generation + 1]
  <2>2. PICK d \in DrainLists(committed_calls) : \E r \in ReconcileLists(d) :
          \/ /\ Drains(ClosePlan(d, r, "before_start_turn"))
             /\ turn_generation' = turn_generation + 1
             /\ turn' = next
             /\ task' = [NoTask EXCEPT !.turn = next, !.at = "loop"]
          \/ /\ DrainFails(ClosePlan(d, r, "before_start_turn"), d)
             /\ UNCHANGED <<turn_generation, turn, task>>
    BY <1>4 DEF HandleStartTurn
  <2>3. PICK r \in ReconcileLists(d) :
          \/ /\ Drains(ClosePlan(d, r, "before_start_turn"))
             /\ turn_generation' = turn_generation + 1
             /\ turn' = next
             /\ task' = [NoTask EXCEPT !.turn = next, !.at = "loop"]
          \/ /\ DrainFails(ClosePlan(d, r, "before_start_turn"), d)
             /\ UNCHANGED <<turn_generation, turn, task>>
    BY <2>2
  <2>4. d \in Seq(Calls) /\ r \in Seq(Calls)
    BY DrainListsType, ReconcileListsType DEF TypeOK
  <2>5. ClosePlan(d, r, "before_start_turn") \in Seq(PlannedEvent)
    BY <2>4, PlansType DEF Via
  <2>6. /\ log' \in Seq(Event) /\ seq' \in Nat
        /\ faults' \in 0..MaxFaults /\ excused' \in SUBSET Calls
    BY <2>3, <2>4, <2>5, DrainType
  <2>7. committed_calls' \in Seq(Calls)
    BY <1>4 DEF HandleStartTurn
  <2>8. CASE /\ turn_generation' = turn_generation + 1
             /\ turn' = next
             /\ task' = [NoTask EXCEPT !.turn = next, !.at = "loop"]
    <3>1. turn_generation' \in 1..MaxGenerations /\ next \in Identity
      BY <1>4, <2>8, SessionAssumption DEF HandleStartTurn, TypeOK, Identity
    <3>2. task' = [turn |-> next, at |-> "loop", todo |-> <<>>, ran |-> {},
                   waiting |-> FALSE, retries |-> 0]
      BY <2>8 DEF NoTask
    <3>3. <<>> \in Seq(Calls)
      OBVIOUS
    <3> HIDE DEF next
    <3>4. task' \in LiveTask
      BY <3>1, <3>2, <3>3 DEF LiveTask
    <3> QED BY <1>4, <2>1, <2>6, <2>7, <2>8, <3>1, <3>4 DEF HandleStartTurn, TypeOK
  <2>9. CASE UNCHANGED <<turn_generation, turn, task>>
    BY <1>4, <2>1, <2>6, <2>7, <2>9 DEF HandleStartTurn, TypeOK
  <2> QED BY <2>3, <2>8, <2>9
<1>5. CASE HandleStartTurnBusy
  BY <1>5, ReceiveFacts DEF HandleStartTurnBusy, TypeOK
<1>6. CASE HandleInterrupt
  <2>1. mailbox' \in Seq(Message)
    BY <1>6, ReceiveFacts DEF HandleInterrupt
  <2> DEFINE plan(d, r) == ClosePlan(d, r, "interrupt")
                             \o <<Planned("turn_failed", NoCall, "interrupt")>>
  <2>2. PICK d \in DrainLists(committed_calls) : \E r \in ReconcileLists(d) :
          Drains(plan(d, r)) \/ DrainFails(plan(d, r), d)
    BY <1>6 DEF HandleInterrupt
  <2>3. PICK r \in ReconcileLists(d) : Drains(plan(d, r)) \/ DrainFails(plan(d, r), d)
    BY <2>2
  <2>4. d \in Seq(Calls) /\ r \in Seq(Calls)
    BY DrainListsType, ReconcileListsType DEF TypeOK
  <2>5. plan(d, r) \in Seq(PlannedEvent)
    BY <2>4, PlansType DEF Via
  <2> HIDE DEF plan
  <2>6. /\ log' \in Seq(Event) /\ seq' \in Nat
        /\ faults' \in 0..MaxFaults /\ excused' \in SUBSET Calls
    BY <2>3, <2>4, <2>5, DrainType
  <2>7. committed_calls' \in Seq(Calls)
    BY <1>6 DEF HandleInterrupt
  <2> QED BY <1>6, <2>1, <2>6, <2>7 DEF HandleInterrupt, TypeOK
<1>7. CASE HandleInterruptNoTurn
  <2>1. mailbox' \in Seq(Message)
    BY <1>7, ReceiveFacts DEF HandleInterruptNoTurn
  <2>2. PICK r \in ReconcileLists(<<>>) :
          LET plan == PlanFor(r, "tool_result", "interrupt_no_turn")
          IN \/ AppendAll(plan)
             \/ \E k \in 0..Len(plan) : AppendFails(plan, k)
    BY <1>7 DEF HandleInterruptNoTurn
  <2>3. r \in Seq(Calls)
    <3>1. <<>> \in Seq(Calls)
      OBVIOUS
    <3> QED BY <3>1, ReconcileListsType
  <2>4. PlanFor(r, "tool_result", "interrupt_no_turn") \in Seq(PlannedEvent)
    BY <2>3, PlanForFacts DEF EventType, Via
  <2>5. log' \in Seq(Event) /\ seq' \in Nat /\ faults' \in 0..MaxFaults
    BY <2>2, <2>4, WriteType
  <2> QED BY <1>7, <2>1, <2>5 DEF HandleInterruptNoTurn, TypeOK
<1>8. CASE HandleTurnResult
  <2>1. mailbox' \in Seq(Message)
    BY <1>8, ReceiveFacts DEF HandleTurnResult
  <2>2. ToSet(committed_calls) \in SUBSET Calls
    BY DEF TypeOK, ToSet
  <2> QED BY <1>8, <2>1, <2>2 DEF HandleTurnResult, TypeOK
<1>9. CASE HandleTurnDown
  <2>1. mailbox' \in Seq(Message)
    BY <1>9, ReceiveFacts DEF HandleTurnDown
  <2>2. PICK d \in DrainLists(committed_calls) :
          \/ Drains(PlanFor(d, "tool_call", "turn_crashed"))
          \/ DrainFails(PlanFor(d, "tool_call", "turn_crashed"), d)
    BY <1>9 DEF HandleTurnDown
  <2>3. d \in Seq(Calls)
    BY DrainListsType DEF TypeOK
  <2>4. PlanFor(d, "tool_call", "turn_crashed") \in Seq(PlannedEvent)
    BY <2>3, PlansType DEF Via
  <2>5. /\ log' \in Seq(Event) /\ seq' \in Nat
        /\ faults' \in 0..MaxFaults /\ excused' \in SUBSET Calls
    BY <2>2, <2>3, <2>4, DrainType
  <2>6. committed_calls' \in Seq(Calls)
    BY <1>9 DEF HandleTurnDown
  <2> QED BY <1>9, <2>1, <2>5, <2>6 DEF HandleTurnDown, TypeOK
<1>10. CASE HandleStrayExit
  BY <1>10, ReceiveFacts DEF HandleStrayExit, TypeOK
<1> QED BY <1>1, <1>2, <1>3, <1>4, <1>5, <1>6, <1>7, <1>8, <1>9, <1>10 DEF Handle

\* The end of a Session process and the start of the next.
LEMMA RestartTypes ==
  ASSUME TypeOK, SessionStops \/ SessionStarts
  PROVE  TypeOK'
<1>1. CASE SessionStops
  <2>1. <<>> \in Seq(Calls) /\ <<>> \in Seq(Message) /\ ToSet(committed_calls) \in SUBSET Calls
    BY DEF TypeOK, ToSet
  <2>2. runner' \in [Identity -> Runner]
    BY <1>1, RunnerType DEF SessionStops, TypeOK
  <2> QED BY <1>1, <2>1, <2>2 DEF SessionStops, TypeOK, sessionVars, historyVars
<1>2. CASE SessionStarts
  <2>1. NextSeq(log) \in Nat
    <3>1. log \in Seq(Event)
      BY DEF TypeOK
    <3>2. log # <<>> => log[Len(log)] \in Event
      BY <3>1, EmptySeq
    <3> QED BY <3>2 DEF NextSeq, Event
  <2> QED BY <1>2, <2>1, SessionAssumption DEF SessionStarts, TypeOK, sessionVars, historyVars
<1> QED BY <1>1, <1>2

LEMMA NextType ==
  ASSUME TypeOK, [Next]_vars
  PROVE  TypeOK'
<1>1. CASE UNCHANGED vars
  BY <1>1 DEF vars, sessionVars, historyVars, TypeOK
<1>2. CASE Next
  BY <1>2, TaskTypes, RunnerTypes, ClientTypes, HandlerTypes, RestartTypes DEF Next
<1> QED BY <1>1, <1>2

\* Every state the Session and its callers reach is well formed: the handlers
\* leave a Turn Task with work to do wherever it has to have some, and the
\* identities, messages and events keep their shapes.
THEOREM TypeCorrect == Spec => []TypeOK
<1>1. Init => TypeOK
  BY InitType
<1>2. TypeOK /\ [Next]_vars => TypeOK'
  BY NextType
<1> QED BY <1>1, <1>2, PTL DEF Spec
-----------------------------------------------------------------------------
(* Appends. *)

\* The log and its counter are written by a handler of a living Session only,
\* and only by appending.
Appends == up /\ \E plan \in Seq(PlannedEvent) : \E k \in 0..Len(plan) : AppendFirst(plan, k)

LEMMA DrainAppends ==
  ASSUME TypeOK, up, NEW plan \in Seq(PlannedEvent), NEW d,
         Drains(plan) \/ DrainFails(plan, d)
  PROVE  Appends
<1>1. CASE Drains(plan)
  BY <1>1, Written DEF Drains, Appends
<1>2. CASE DrainFails(plan, d)
  BY <1>2, Written DEF DrainFails, Appends
<1> QED BY <1>1, <1>2

LEMMA HandleAppends ==
  ASSUME TypeOK, Handle
  PROVE  /\ up' = up /\ up
         /\ Appends \/ UNCHANGED <<log, seq>>
<1> USE DEF sessionVars, historyVars
<1>1. CASE HandleRecord
  <2>1. m \in Message /\ m.op = "record" /\ up
    BY <1>1, ReceiveFacts DEF HandleRecord, Receive
  <2> DEFINE plan == <<Planned(m.type, m.call, IF FromRunningTurn THEN "record" ELSE "late")>>
  <2>2. plan \in Seq(PlannedEvent)
    BY <2>1, PlannedType DEF Message, Via
  <2> HIDE DEF plan
  <2>3. AppendAll(plan) \/ AppendFails(plan, 0)
    BY <1>1 DEF HandleRecord, plan
  <2>4. Appends
    BY <2>1, <2>2, <2>3, Written DEF Appends
  <2> QED BY <1>1, <2>1, <2>4 DEF HandleRecord
<1>2. CASE HandleStraggler
  <2>1. m \in Message /\ m.op = "declare" /\ up
    BY <1>2, ReceiveFacts DEF HandleStraggler, Receive
  <2> DEFINE via == IF turn = NoTurn THEN "declared_without_turn" ELSE "stale_turn_generation"
             plan == IF m.call \in Known(log) THEN <<>> ELSE <<Planned("tool_call", m.call, via)>>
  <2>2. plan \in Seq(PlannedEvent)
    <3>1. <<Planned("tool_call", m.call, via)>> \in Seq(PlannedEvent)
      BY <2>1, PlannedType DEF Message, Via, EventType
    <3> QED BY <3>1
  <2> HIDE DEF plan
  <2>3. AppendAll(plan) \/ AppendFails(plan, 0)
    BY <1>2 DEF HandleStraggler, plan
  <2>4. Appends
    BY <2>1, <2>2, <2>3, Written DEF Appends
  <2> QED BY <1>2, <2>1, <2>4 DEF HandleStraggler
<1>3. CASE HandleStartTurn
  <2>1. PICK d \in DrainLists(committed_calls) : \E r \in ReconcileLists(d) :
          \/ Drains(ClosePlan(d, r, "before_start_turn"))
          \/ DrainFails(ClosePlan(d, r, "before_start_turn"), d)
    BY <1>3 DEF HandleStartTurn
  <2>2. PICK r \in ReconcileLists(d) :
          \/ Drains(ClosePlan(d, r, "before_start_turn"))
          \/ DrainFails(ClosePlan(d, r, "before_start_turn"), d)
    BY <2>1
  <2>3. ClosePlan(d, r, "before_start_turn") \in Seq(PlannedEvent)
    BY DrainListsType, ReconcileListsType, PlansType DEF TypeOK, Via
  <2> QED BY <1>3, <2>2, <2>3, DrainAppends DEF HandleStartTurn, Receive
<1>4. CASE HandleInterrupt
  <2> DEFINE plan(d, r) == ClosePlan(d, r, "interrupt")
                             \o <<Planned("turn_failed", NoCall, "interrupt")>>
  <2>1. PICK d \in DrainLists(committed_calls) : \E r \in ReconcileLists(d) :
          Drains(plan(d, r)) \/ DrainFails(plan(d, r), d)
    BY <1>4 DEF HandleInterrupt
  <2>2. PICK r \in ReconcileLists(d) : Drains(plan(d, r)) \/ DrainFails(plan(d, r), d)
    BY <2>1
  <2>3. plan(d, r) \in Seq(PlannedEvent)
    BY DrainListsType, ReconcileListsType, PlansType DEF TypeOK, Via
  <2> HIDE DEF plan
  <2> QED BY <1>4, <2>2, <2>3, DrainAppends DEF HandleInterrupt, Receive
<1>5. CASE HandleInterruptNoTurn
  <2>1. PICK r \in ReconcileLists(<<>>) :
          \/ AppendAll(PlanFor(r, "tool_result", "interrupt_no_turn"))
          \/ \E k \in 0..Len(PlanFor(r, "tool_result", "interrupt_no_turn")) :
                AppendFails(PlanFor(r, "tool_result", "interrupt_no_turn"), k)
    BY <1>5 DEF HandleInterruptNoTurn
  <2>2. <<>> \in Seq(Calls)
    OBVIOUS
  <2>3. PlanFor(r, "tool_result", "interrupt_no_turn") \in Seq(PlannedEvent)
    BY <2>2, ReconcileListsType, PlansType DEF Via
  <2>4. Appends
    BY <1>5, <2>1, <2>3, Written DEF HandleInterruptNoTurn, Receive, Appends
  <2> QED BY <1>5, <2>4 DEF HandleInterruptNoTurn, Receive
<1>6. CASE HandleTurnDown
  <2>1. PICK d \in DrainLists(committed_calls) :
          \/ Drains(PlanFor(d, "tool_call", "turn_crashed"))
          \/ DrainFails(PlanFor(d, "tool_call", "turn_crashed"), d)
    BY <1>6 DEF HandleTurnDown
  <2>2. PlanFor(d, "tool_call", "turn_crashed") \in Seq(PlannedEvent)
    BY DrainListsType, PlansType DEF TypeOK, Via
  <2> QED BY <1>6, <2>1, <2>2, DrainAppends DEF HandleTurnDown, Receive
<1>7. CASE \/ HandleDeclaration \/ HandleStartTurnBusy
           \/ HandleTurnResult \/ HandleStrayExit
  BY <1>7 DEF HandleDeclaration, HandleStartTurnBusy, HandleTurnResult, HandleStrayExit, Receive
<1> QED BY <1>1, <1>2, <1>3, <1>4, <1>5, <1>6, <1>7 DEF Handle

\* The steps outside the Session leave the Log and its counter alone, except
\* a start, which derives the counter again.
LEMMA OutsideHandle ==
  ASSUME Next, ~Handle
  PROVE  /\ UNCHANGED log
         /\ \/ UNCHANGED <<up, seq>>
            \/ up' = FALSE
            \/ up' = TRUE /\ seq' = NextSeq(log)
<1> USE DEF sessionVars
<1>1. CASE TaskStep \/ TaskCrashes
  BY <1>1 DEF TaskStep, TaskOpensStream, TaskRecords, TaskReturns, TaskCrashes
<1>2. CASE \E t \in Identity :
             \/ \E c \in Calls : RunnerCommits(t, c)
             \/ RunnerCompletes(t) \/ StreamFails(t) \/ StreamIdleCut(t)
  BY <1>2 DEF RunnerCommits, RunnerCompletes, StreamFails, StreamIdleCut
<1>3. CASE ClientStartsTurn \/ ClientInterrupts
  BY <1>3 DEF ClientStartsTurn, ClientInterrupts
<1>4. CASE SessionStops \/ SessionStarts
  BY <1>4 DEF SessionStops, SessionStarts
<1> QED BY <1>1, <1>2, <1>3, <1>4 DEF Next

\* The seq numbers of the Log are 0, 1, 2, ... whatever appends fail and
\* however often the Session process is replaced by one that folds the Log.
THEOREM SeqContiguousCorrect == Spec => []SeqContiguous
<1>1. Init => SeqContiguous
  BY DEF Init, SeqContiguous
<1>2. TypeOK /\ SeqContiguous /\ [Next]_vars => SeqContiguous'
  <2> SUFFICES ASSUME TypeOK, SeqContiguous, [Next]_vars PROVE SeqContiguous'
    OBVIOUS
  <2>1. CASE Appends /\ up' = up
    <3>0. PICK plan \in Seq(PlannedEvent) : \E k \in 0..Len(plan) : AppendFirst(plan, k)
      BY <2>1 DEF Appends
    <3>1. PICK k \in 0..Len(plan) : AppendFirst(plan, k)
      BY <3>0
    <3>2. /\ log' \in Seq(Event)
          /\ seq' = seq + k
          /\ Len(log') = Len(log) + k
          /\ \A i \in 1..Len(log) : log'[i] = log[i]
          /\ \A i \in 1..k : log'[Len(log) + i] = Stamped(plan[i], seq + i - 1)
      BY <3>1, AppendFirstFacts DEF TypeOK
    <3>3. seq = Len(log) /\ Len(log) \in Nat /\ k \in Nat
      BY <2>1 DEF SeqContiguous, Appends, TypeOK
    <3>4. ASSUME NEW i \in 1..Len(log') PROVE log'[i].seq = i - 1
      <4>1. CASE i <= Len(log)
        BY <3>2, <3>3, <4>1 DEF SeqContiguous
      <4>2. CASE i > Len(log)
        <5> DEFINE j == i - Len(log)
        <5>1. j \in 1..k /\ i = Len(log) + j
          BY <3>2, <3>3, <4>2
        <5>2. log'[i] = Stamped(plan[j], seq + j - 1)
          BY <3>2, <5>1
        <5> QED BY <3>3, <5>1, <5>2 DEF Stamped
      <4> QED BY <3>2, <3>3, <4>1, <4>2
    <3> QED BY <3>2, <3>3, <3>4 DEF SeqContiguous
  <2>2. CASE UNCHANGED <<log, seq, up>>
    BY <2>2 DEF SeqContiguous
  <2>3. CASE Next /\ ~Handle
    <3>1. log' = log
      BY <2>3, OutsideHandle
    <3>2. NextSeq(log) = Len(log)
      <4>1. log \in Seq(Event)
        BY DEF TypeOK
      <4>2. CASE log = <<>>
        BY <4>2 DEF NextSeq
      <4>3. CASE log # <<>>
        BY <4>1, <4>3, EmptySeq DEF NextSeq, SeqContiguous
      <4> QED BY <4>2, <4>3
    <3>3. \/ UNCHANGED <<up, seq>>
          \/ up' = FALSE
          \/ up' = TRUE /\ seq' = Len(log)
      BY <2>3, <3>2, OutsideHandle
    <3>4. up' => seq' = Len(log)
      BY <3>3 DEF SeqContiguous
    <3> QED BY <3>1, <3>4 DEF SeqContiguous
  <2>4. CASE UNCHANGED vars
    BY <2>2, <2>4 DEF vars, sessionVars
  <2>5. CASE Handle
    <3>1. up' = up /\ (Appends \/ UNCHANGED <<log, seq>>)
      BY <2>5, HandleAppends
    <3> QED BY <2>1, <2>2, <3>1
  <2> QED BY <2>3, <2>4, <2>5
<1> QED BY <1>1, <1>2, TypeCorrect, PTL DEF Spec

-----------------------------------------------------------------------------
(***************************************************************************)
(* No call the Session acknowledged is lost, and what a start or an        *)
(* interrupt leaves is closed.                                             *)
(***************************************************************************)
(* What the Log knows after an append. *)

LEMMA KnownGrows ==
  ASSUME TypeOK, NEW plan \in Seq(PlannedEvent), NEW k \in 0..Len(plan), AppendFirst(plan, k)
  PROVE  /\ Known(log) \subseteq Known(log')
         /\ \A i \in 1..k : plan[i].type = "tool_call" /\ plan[i].call \in Calls
                              => plan[i].call \in Known(log')
<1>1. /\ Len(log') = Len(log) + k
      /\ \A i \in 1..Len(log) : log'[i] = log[i]
      /\ \A i \in 1..k : log'[Len(log) + i] = Stamped(plan[i], seq + i - 1)
      /\ Len(log) \in Nat /\ k \in Nat
  BY AppendFirstFacts DEF TypeOK
<1>2. ASSUME NEW c \in Known(log) PROVE c \in Known(log')
  <2>1. PICK i \in 1..Len(log) : log[i].type \in {"tool_call", "tool_result"} /\ log[i].call = c
    BY <1>2 DEF Known, Mentions
  <2>2. i \in 1..Len(log') /\ log'[i] = log[i]
    BY <1>1
  <2> QED BY <1>2, <2>1, <2>2 DEF Known, Mentions
<1>3. ASSUME NEW i \in 1..k, plan[i].type = "tool_call", plan[i].call \in Calls
      PROVE  plan[i].call \in Known(log')
  <2> DEFINE j == Len(log) + i
  <2>1. j \in 1..Len(log')
    BY <1>1
  <2>2. log'[j] = Stamped(plan[i], seq + i - 1)
    BY <1>1
  <2> HIDE DEF j
  <2>3. log'[j].type = "tool_call" /\ log'[j].call = plan[i].call
    BY <1>3, <2>2 DEF Stamped
  <2> QED BY <1>3, <2>1, <2>3 DEF Known, Mentions
<1> QED BY <1>2, <1>3

LEMMA AppendsKnown ==
  ASSUME TypeOK, Appends
  PROVE  Known(log) \subseteq Known(log')
BY KnownGrows DEF Appends

LEMMA RecordsCall ==
  ASSUME TypeOK, NEW e \in PlannedEvent, e.type = "tool_call", e.call \in Calls, AppendAll(<<e>>)
  PROVE  e.call \in Known(log')
<1> DEFINE plan == <<e>>
<1>1. plan \in Seq(PlannedEvent) /\ Len(plan) = 1 /\ plan[1] = e
  OBVIOUS
<1> HIDE DEF plan
<1>2. AppendFirst(plan, 1)
  BY <1>1 DEF AppendAll, plan
<1>3. 1 \in 1..1 /\ 1 \in 0..Len(plan)
  BY <1>1
<1> QED BY <1>1, <1>2, <1>3, KnownGrows

LEMMA Joined ==
  ASSUME NEW S, NEW p \in Seq(S), NEW q \in Seq(S)
  PROVE  /\ p \o q \in Seq(S)
         /\ Len(p \o q) = Len(p) + Len(q)
         /\ DOMAIN (p \o q) = 1..Len(p) + Len(q)
         /\ \A i \in 1..Len(p) : (p \o q)[i] = p[i]
         /\ \A i \in 1..Len(q) : (p \o q)[Len(p) + i] = q[i]
OBVIOUS

LEMMA ClosePlanFacts ==
  ASSUME NEW d \in Seq(Calls), NEW r \in Seq(Calls), NEW via \in Via
  PROVE  /\ Len(ClosePlan(d, r, via)) = Len(d) + Len(r)
         /\ \A i \in 1..Len(d) : ClosePlan(d, r, via)[i] = Planned("tool_call", d[i], via)
         /\ \A i \in 1..Len(r) :
               ClosePlan(d, r, via)[Len(d) + i] = Planned("tool_result", r[i], via)
<1> DEFINE p == PlanFor(d, "tool_call", via)
           q == PlanFor(r, "tool_result", via)
<1>1. "tool_call" \in EventType /\ "tool_result" \in EventType
  BY DEF EventType
<1>2. /\ p \in Seq(PlannedEvent) /\ Len(p) = Len(d)
      /\ \A i \in 1..Len(d) : p[i] = Planned("tool_call", d[i], via)
  BY <1>1, PlanForFacts
<1>3. /\ q \in Seq(PlannedEvent) /\ Len(q) = Len(r)
      /\ \A i \in 1..Len(r) : q[i] = Planned("tool_result", r[i], via)
  BY <1>1, PlanForFacts
<1>4. ClosePlan(d, r, via) = p \o q
  BY DEF ClosePlan
<1> HIDE DEF p, q
<1>5. /\ Len(p \o q) = Len(p) + Len(q)
      /\ \A i \in 1..Len(p) : (p \o q)[i] = p[i]
      /\ \A i \in 1..Len(q) : (p \o q)[Len(p) + i] = q[i]
  <2>1. p \in Seq(PlannedEvent) /\ q \in Seq(PlannedEvent)
    BY <1>2, <1>3
  <2> QED BY ONLY <2>1, Joined
<1> QED BY <1>2, <1>3, <1>4, <1>5

LEMMA InterruptPlanFacts ==
  ASSUME NEW d \in Seq(Calls), NEW r \in Seq(Calls), NEW plan,
         plan = ClosePlan(d, r, "interrupt") \o <<Planned("turn_failed", NoCall, "interrupt")>>
  PROVE  /\ plan \in Seq(PlannedEvent)
         /\ Len(plan) = Len(d) + Len(r) + 1
         /\ \A i \in 1..Len(d) : plan[i] = Planned("tool_call", d[i], "interrupt")
         /\ \A i \in 1..Len(r) : plan[Len(d) + i] = Planned("tool_result", r[i], "interrupt")
         /\ plan[Len(d) + Len(r) + 1] = Planned("turn_failed", NoCall, "interrupt")
<1> DEFINE p == ClosePlan(d, r, "interrupt")
           q == <<Planned("turn_failed", NoCall, "interrupt")>>
<1>1. p \in Seq(PlannedEvent) /\ plan \in Seq(PlannedEvent)
  BY PlansType DEF Via
<1>2. /\ Len(p) = Len(d) + Len(r)
      /\ \A i \in 1..Len(d) : p[i] = Planned("tool_call", d[i], "interrupt")
      /\ \A i \in 1..Len(r) : p[Len(d) + i] = Planned("tool_result", r[i], "interrupt")
  BY ClosePlanFacts DEF Via
<1>3. q \in Seq(PlannedEvent) /\ Len(q) = 1 /\ q[1] = Planned("turn_failed", NoCall, "interrupt")
  BY PlannedType DEF Via, EventType
<1>4. plan = p \o q /\ Len(d) \in Nat /\ Len(r) \in Nat
  OBVIOUS
<1> HIDE DEF p, q
<1>5. /\ Len(p \o q) = Len(p) + Len(q)
      /\ \A i \in 1..Len(p) : (p \o q)[i] = p[i]
      /\ \A i \in 1..Len(q) : (p \o q)[Len(p) + i] = q[i]
  <2>1. p \in Seq(PlannedEvent) /\ q \in Seq(PlannedEvent)
    BY <1>1, <1>3
  <2> QED BY ONLY <2>1, Joined
<1>6. ASSUME NEW i \in 1..Len(d) PROVE plan[i] = Planned("tool_call", d[i], "interrupt")
  BY <1>2, <1>4, <1>5
<1>7. ASSUME NEW i \in 1..Len(r) PROVE plan[Len(d) + i] = Planned("tool_result", r[i], "interrupt")
  <2>1. Len(d) + i \in 1..Len(p)
    BY <1>2, <1>4
  <2> QED BY <1>2, <1>4, <1>5, <2>1
<1>8. Len(plan) = Len(d) + Len(r) + 1
  BY <1>2, <1>3, <1>4, <1>5
<1>9. plan[Len(d) + Len(r) + 1] = Planned("turn_failed", NoCall, "interrupt")
  <2>1. 1 \in 1..Len(q)
    BY <1>3
  <2>2. plan[Len(p) + 1] = q[1]
    BY <1>4, <1>5, <2>1
  <2> QED BY <1>2, <1>3, <2>2
<1> QED BY <1>1, <1>6, <1>7, <1>8, <1>9

\* A drain leaves every held call in the Log, unless the Log failed under it.
LEMMA DrainKeeps ==
  ASSUME TypeOK, NEW d \in DrainLists(committed_calls), NEW via \in Via,
         NEW plan \in Seq(PlannedEvent), Len(d) <= Len(plan),
         \A i \in 1..Len(d) : plan[i] = Planned("tool_call", d[i], via),
         Drains(plan) \/ DrainFails(plan, d)
  PROVE  Known(log) \cup ToSet(committed_calls) \cup excused \subseteq Known(log') \cup excused'
<1>1. d \in Seq(Calls) /\ Len(d) \in Nat
  BY DrainListsType DEF TypeOK
<1>2. ToSet(committed_calls) \subseteq Known(log) \cup {d[i] : i \in 1..Len(d)}
  <2>1. ToSet(committed_calls) \ Known(log) \in SUBSET Calls
    BY DEF TypeOK, ToSet
  <2>2. d \in Listings(ToSet(committed_calls) \ Known(log))
    BY DEF DrainLists
  <2> QED BY <2>1, <2>2, ListingsFacts
<1>3. \E k \in 0..Len(plan) :
        /\ AppendFirst(plan, k)
        /\ \/ k = Len(plan) /\ excused' = excused
           \/ excused' = excused \cup Undrained(d, k)
  BY Written DEF Drains, DrainFails
<1>4. PICK k \in 0..Len(plan) :
        /\ AppendFirst(plan, k)
        /\ \/ k = Len(plan) /\ excused' = excused
           \/ excused' = excused \cup Undrained(d, k)
  BY <1>3
<1>5. Known(log) \subseteq Known(log') /\ excused \subseteq excused'
  BY <1>4, KnownGrows
<1>6. ASSUME NEW i \in 1..Len(d) PROVE d[i] \in Known(log') \cup excused'
  <2>1. d[i] \in Calls /\ plan[i].type = "tool_call" /\ plan[i].call = d[i]
    <3>1. plan[i] = Planned("tool_call", d[i], via)
      OBVIOUS
    <3> QED BY <1>1, <3>1 DEF Planned
  <2>2. CASE i <= k
    <3>1. i \in 1..k
      BY <1>1, <1>4, <2>2
    <3> QED BY <1>4, <2>1, <3>1, KnownGrows
  <2>3. CASE ~(i <= k)
    <3>1. k # Len(plan) /\ i \in k+1..Len(d)
      BY <1>1, <1>4, <2>3
    <3> QED BY <1>4, <3>1 DEF Undrained
  <2> QED BY <2>2, <2>3
<1> QED BY <1>2, <1>5, <1>6

LEMMA ForgetKeeps ==
  ASSUME NEW calls \in Seq(Calls), NEW c
  PROVE  /\ ToSet(calls) \subseteq ToSet(Forget(calls, c)) \cup {c}
         /\ ToSet(Forget(calls, c)) \subseteq ToSet(calls)
<1>1. CASE c \in ToSet(calls)
  <2> DEFINE i == CHOOSE j \in 1..Len(calls) : calls[j] = c
             p == SubSeq(calls, 1, i - 1)
             q == SubSeq(calls, i + 1, Len(calls))
  <2>1. i \in 1..Len(calls) /\ calls[i] = c /\ Len(calls) \in Nat
    BY <1>1 DEF ToSet
  <2>2. Forget(calls, c) = p \o q
    BY <1>1 DEF Forget, RemoveAt
  <2> HIDE DEF i
  <2>3. /\ p \in Seq(Calls) /\ Len(p) = i - 1
        /\ \A j \in 1..i - 1 : p[j] = calls[j]
    BY <2>1
  <2>4. /\ q \in Seq(Calls) /\ Len(q) = Len(calls) - i
        /\ \A j \in 1..Len(calls) - i : q[j] = calls[i + j]
    BY <2>1
  <2> HIDE DEF p, q
  <2>5. /\ DOMAIN (p \o q) = 1..Len(p) + Len(q)
        /\ \A j \in 1..Len(p) : (p \o q)[j] = p[j]
        /\ \A j \in 1..Len(q) : (p \o q)[Len(p) + j] = q[j]
    <3>1. p \in Seq(Calls) /\ q \in Seq(Calls)
      BY <2>3, <2>4
    <3> QED BY ONLY <3>1, Joined
  <2>6. ASSUME NEW j \in 1..Len(calls), calls[j] # c PROVE calls[j] \in ToSet(p \o q)
    <3>1. CASE j < i
      <4>1. j \in 1..Len(p) /\ j \in 1..Len(p) + Len(q) /\ p[j] = calls[j]
        BY <2>1, <2>3, <2>4, <3>1
      <4> QED BY <2>5, <4>1 DEF ToSet
    <3>2. CASE j > i
      <4> DEFINE n == j - i
      <4>1. n \in 1..Len(q) /\ n \in 1..Len(calls) - i /\ i + n = j
        BY <2>1, <2>4, <3>2
      <4>2. Len(p) + n \in 1..Len(p) + Len(q)
        BY <2>3, <2>4, <4>1
      <4> HIDE DEF n
      <4>3. (p \o q)[Len(p) + n] = q[n] /\ q[n] = calls[j]
        BY <2>4, <2>5, <4>1
      <4> QED BY <2>5, <4>2, <4>3 DEF ToSet
    <3> QED BY <2>1, <2>6, <3>1, <3>2
  <2>7. ASSUME NEW j \in 1..Len(p) + Len(q) PROVE (p \o q)[j] \in ToSet(calls)
    <3>1. CASE j <= Len(p)
      <4>1. j \in 1..Len(p) /\ j \in 1..i - 1 /\ j \in 1..Len(calls)
        BY <2>1, <2>3, <2>4, <3>1
      <4>2. (p \o q)[j] = calls[j]
        BY <2>3, <2>5, <4>1
      <4> QED BY <4>1, <4>2 DEF ToSet
    <3>2. CASE ~(j <= Len(p))
      <4> DEFINE n == j - Len(p)
      <4>1. /\ n \in 1..Len(q) /\ n \in 1..Len(calls) - i /\ i + n \in 1..Len(calls)
            /\ j = Len(p) + n
        BY <2>1, <2>3, <2>4, <3>2
      <4> HIDE DEF n
      <4>2. (p \o q)[j] = calls[i + n]
        BY <2>4, <2>5, <4>1
      <4> QED BY <4>1, <4>2 DEF ToSet
    <3> QED BY <3>1, <3>2
  <2>8. DOMAIN calls = 1..Len(calls)
    OBVIOUS
  <2>9. ToSet(calls) \subseteq ToSet(p \o q) \cup {c}
    <3> SUFFICES ASSUME NEW e \in ToSet(calls) PROVE e \in ToSet(p \o q) \cup {c}
      OBVIOUS
    <3>1. PICK j \in 1..Len(calls) : e = calls[j]
      BY <2>8 DEF ToSet
    <3> QED BY <2>6, <3>1
  <2>10. ToSet(p \o q) \subseteq ToSet(calls)
    <3> SUFFICES ASSUME NEW e \in ToSet(p \o q) PROVE e \in ToSet(calls)
      OBVIOUS
    <3>1. PICK j \in 1..Len(p) + Len(q) : e = (p \o q)[j]
      BY <2>5 DEF ToSet
    <3> QED BY <2>7, <3>1
  <2> QED BY <2>2, <2>9, <2>10
<1>2. CASE c \notin ToSet(calls)
  BY <1>2 DEF Forget
<1> QED BY <1>1, <1>2

-----------------------------------------------------------------------------
(* Declarations, and the Turn that holds what they declare. *)

\* A declaration in the mailbox comes from the Turn that owns its call.
DeclarationsOwned ==
  \A i \in 1..Len(mailbox) :
     mailbox[i].op = "declare" => owner[mailbox[i].call] = mailbox[i].turn

\* Inductive: a call is held for its owner because its declaration said so,
\* and is let go when its owner returns because it is held for its owner.
EvidenceInv == TypeOK /\ DeclarationsOwned /\ HeldByRunningTurn /\ EvidenceKept

LEMMA ReceiveRest ==
  ASSUME TypeOK, NEW op, Receive(op)
  PROVE  /\ 1 \in 1..Len(mailbox) /\ m = mailbox[1]
         /\ \A i \in 1..Len(mailbox') : i + 1 \in 1..Len(mailbox) /\ mailbox'[i] = mailbox[i + 1]
<1>1. mailbox \in Seq(Message) /\ mailbox # <<>> /\ mailbox' = Tail(mailbox)
  BY DEF TypeOK, Receive
<1>2. /\ Len(Tail(mailbox)) = Len(mailbox) - 1
      /\ \A i \in 1..Len(Tail(mailbox)) : Tail(mailbox)[i] = mailbox[i + 1]
  BY <1>1, HeadTailProperties
<1>3. Len(mailbox) \in Nat /\ Len(mailbox) # 0
  BY <1>1, EmptySeq
<1>4. m = mailbox[1]
  BY <1>1 DEF m
<1> QED BY <1>1, <1>2, <1>3, <1>4

LEMMA SendRest ==
  ASSUME TypeOK, NEW msg, Send(msg)
  PROVE  \A i \in 1..Len(mailbox') :
           \/ i \in 1..Len(mailbox) /\ mailbox'[i] = mailbox[i]
           \/ mailbox'[i] = msg
<1>1. mailbox \in Seq(Message) /\ mailbox' = Append(mailbox, msg)
  BY DEF TypeOK, Send
<1> QED BY <1>1

LEMMA ReceiveOwned ==
  ASSUME TypeOK, DeclarationsOwned, NEW op, Receive(op), owner' = owner
  PROVE  DeclarationsOwned'
BY ReceiveRest DEF DeclarationsOwned

LEMMA HandleReceives ==
  ASSUME Handle
  PROVE  owner' = owner /\ \E op \in {"record", "declare", "start_turn", "interrupt", "result", "down"} : Receive(op)
<1> USE DEF historyVars
<1> QED BY DEF Handle, HandleRecord, HandleDeclaration, HandleStraggler, HandleStartTurn,
        HandleStartTurnBusy, HandleInterrupt, HandleInterruptNoTurn, HandleTurnResult,
        HandleTurnDown, HandleStrayExit

LEMMA OwnedStep ==
  ASSUME EvidenceInv, Next
  PROVE  DeclarationsOwned'
<1> USE DEF sessionVars, historyVars
<1>1. CASE Handle
  BY <1>1, HandleReceives, ReceiveOwned DEF EvidenceInv
<1>2. CASE TaskOpensStream
  BY <1>2 DEF TaskOpensStream, EvidenceInv, DeclarationsOwned
<1>3. ASSUME NEW op \in {"record", "result", "down", "start_turn", "interrupt"},
             NEW t, NEW type, NEW call,
             Send(Request(op, t, type, call)), owner' = owner
      PROVE  DeclarationsOwned'
  <2>1. Request(op, t, type, call).op # "declare"
    BY DEF Request
  <2> QED BY <1>3, <2>1, SendRest DEF EvidenceInv, DeclarationsOwned
<1>4. CASE TaskRecords \/ TaskReturns \/ TaskCrashes
  BY <1>3, <1>4 DEF TaskRecords, TaskReturns, TaskCrashes
<1>5. ASSUME NEW t \in Identity, NEW c \in Calls, RunnerCommits(t, c)
      PROVE  DeclarationsOwned'
  <2>1. owner[c] = NoTurn \/ owner[c] = t
    BY <1>5 DEF RunnerCommits
  <2>2. owner' = [owner EXCEPT ![c] = t] /\ owner'[c] = t
    BY <1>5 DEF RunnerCommits, EvidenceInv, TypeOK
  <2>3. ASSUME NEW i \in 1..Len(mailbox), mailbox[i].op = "declare"
        PROVE  owner'[mailbox[i].call] = mailbox[i].turn
    <3>1. mailbox[i] \in Message
      BY DEF EvidenceInv, TypeOK
    <3>2. mailbox[i].turn \in Identity /\ mailbox[i].call \in Calls
      BY <2>3, <3>1 DEF Message
    <3>3. owner[mailbox[i].call] = mailbox[i].turn
      BY <2>3 DEF EvidenceInv, DeclarationsOwned
    <3> QED BY <2>1, <2>2, <3>2, <3>3, NoTurnIsNoIdentity DEF EvidenceInv, TypeOK
  <2>4. CASE UNCHANGED mailbox
    BY <2>3, <2>4 DEF DeclarationsOwned
  <2>5. CASE Send(Request("declare", t, "none", c))
    <3>1. Request("declare", t, "none", c).call = c /\ Request("declare", t, "none", c).turn = t
      BY DEF Request
    <3> QED BY <2>2, <2>3, <2>5, <3>1, SendRest DEF EvidenceInv, DeclarationsOwned
  <2> QED BY <1>5, <2>4, <2>5 DEF RunnerCommits
<1>6. CASE \E t \in Identity : RunnerCompletes(t) \/ StreamFails(t) \/ StreamIdleCut(t)
  BY <1>6 DEF RunnerCompletes, StreamFails, StreamIdleCut, EvidenceInv, DeclarationsOwned
<1>7. CASE ClientStartsTurn \/ ClientInterrupts
  BY <1>3, <1>7 DEF ClientStartsTurn, ClientInterrupts
<1>8. CASE SessionStops
  BY <1>8 DEF SessionStops, DeclarationsOwned
<1>9. CASE SessionStarts
  BY <1>9 DEF SessionStarts, EvidenceInv, DeclarationsOwned
<1> QED BY <1>1, <1>2, <1>4, <1>5, <1>6, <1>7, <1>8, <1>9 DEF Next, TaskStep

LEMMA HeldStep ==
  ASSUME EvidenceInv, Next
  PROVE  HeldByRunningTurn'
<1> USE DEF sessionVars, historyVars
<1>1. ASSUME ToSet(committed_calls') \subseteq ToSet(committed_calls), turn' = turn, owner' = owner
      PROVE  HeldByRunningTurn'
  BY <1>1 DEF EvidenceInv, HeldByRunningTurn
<1>2. ASSUME committed_calls' = <<>>
      PROVE  HeldByRunningTurn'
  BY <1>2 DEF HeldByRunningTurn, ToSet
<1>3. CASE HandleRecord
  <2>1. ToSet(committed_calls') \subseteq ToSet(committed_calls)
    BY <1>3, ForgetKeeps DEF HandleRecord, EvidenceInv, TypeOK
  <2> QED BY <1>1, <1>3, <2>1 DEF HandleRecord
<1>4. CASE HandleDeclaration
  <2>1. m \in Message /\ m.op = "declare" /\ m = mailbox[1] /\ 1 \in 1..Len(mailbox)
    BY <1>4, ReceiveFacts, ReceiveRest DEF HandleDeclaration, EvidenceInv
  <2>2. m.turn \in Identity /\ m.turn = turn /\ owner[m.call] = turn
    BY <1>4, <2>1 DEF HandleDeclaration, FromRunningTurn, Message, EvidenceInv, DeclarationsOwned
  <2>3. ToSet(committed_calls') \subseteq ToSet(committed_calls) \cup {m.call}
    <3>1. ToSet(Append(committed_calls, m.call)) \subseteq ToSet(committed_calls) \cup {m.call}
      BY DEF EvidenceInv, TypeOK, ToSet
    <3> QED BY <1>4, <3>1 DEF HandleDeclaration
  <2> QED BY <1>4, <2>2, <2>3, NoTurnIsNoIdentity DEF HandleDeclaration, EvidenceInv, HeldByRunningTurn
<1>5. CASE HandleStraggler
  BY <1>1, <1>5 DEF HandleStraggler
<1>6. CASE HandleStartTurn \/ HandleInterrupt \/ HandleTurnResult \/ HandleTurnDown \/ SessionStops
  BY <1>2, <1>6 DEF HandleStartTurn, HandleInterrupt, HandleTurnResult, HandleTurnDown, SessionStops
<1>7. CASE HandleStartTurnBusy \/ HandleInterruptNoTurn \/ HandleStrayExit \/ SessionStarts
  BY <1>1, <1>7 DEF HandleStartTurnBusy, HandleInterruptNoTurn, HandleStrayExit, SessionStarts
<1>8. CASE TaskStep \/ TaskCrashes \/ ClientStartsTurn \/ ClientInterrupts
  BY <1>1, <1>8 DEF TaskStep, TaskOpensStream, TaskRecords, TaskReturns, TaskCrashes,
        ClientStartsTurn, ClientInterrupts
<1>9. ASSUME NEW t \in Identity, NEW c \in Calls, RunnerCommits(t, c)
      PROVE  HeldByRunningTurn'
  <2>1. owner[c] = NoTurn \/ owner[c] = t
    BY <1>9 DEF RunnerCommits
  <2>2. owner' = [owner EXCEPT ![c] = t] /\ UNCHANGED <<turn, committed_calls>>
    BY <1>9 DEF RunnerCommits
  <2>3. ToSet(committed_calls) \subseteq Calls
    BY DEF EvidenceInv, TypeOK, ToSet
  <2> QED BY <2>1, <2>2, <2>3 DEF EvidenceInv, TypeOK, HeldByRunningTurn
<1>10. CASE \E t \in Identity : RunnerCompletes(t) \/ StreamFails(t) \/ StreamIdleCut(t)
  BY <1>1, <1>10 DEF RunnerCompletes, StreamFails, StreamIdleCut
<1> QED BY <1>3, <1>4, <1>5, <1>6, <1>7, <1>8, <1>9, <1>10 DEF Next, Handle

LEMMA KeptStep ==
  ASSUME EvidenceInv, Next
  PROVE  EvidenceKept'
<1> USE DEF sessionVars, historyVars
<1>1. TypeOK /\ declared \subseteq Known(log) \cup ToSet(committed_calls) \cup excused
  BY DEF EvidenceInv, EvidenceKept
<1>2. ASSUME declared' = declared, UNCHANGED log,
             ToSet(committed_calls) \cup excused \subseteq ToSet(committed_calls') \cup excused'
      PROVE  EvidenceKept'
  BY <1>1, <1>2 DEF EvidenceKept
<1>3. ASSUME declared' = declared,
             Known(log) \cup ToSet(committed_calls) \cup excused \subseteq Known(log') \cup excused'
      PROVE  EvidenceKept'
  BY <1>1, <1>3 DEF EvidenceKept
<1>4. Handle => Known(log) \subseteq Known(log')
  <2>1. CASE Appends
    BY <1>1, <2>1, AppendsKnown
  <2>2. CASE UNCHANGED log
    BY <2>2
  <2> QED BY <1>1, <2>1, <2>2, HandleAppends
<1>5. CASE HandleRecord
  <2>1. m \in Message /\ m.op = "record"
    BY <1>1, <1>5, ReceiveFacts DEF HandleRecord
  <2>2. m.type \in EventType /\ m.call \in Calls \cup {NoCall}
    BY <2>1 DEF Message
  <2> DEFINE e == Planned(m.type, m.call, IF FromRunningTurn THEN "record" ELSE "late")
  <2>3. CASE /\ AppendAll(<<e>>)
             /\ committed_calls' = IF m.type = "tool_call" THEN Forget(committed_calls, m.call)
                                                           ELSE committed_calls
    <3>1. e \in PlannedEvent /\ e.type = m.type /\ e.call = m.call
      BY <2>2 DEF Planned, PlannedEvent, Via
    <3> HIDE DEF e
    <3>3. m.type = "tool_call" /\ m.call \in Calls => m.call \in Known(log')
      BY <1>1, <2>3, <3>1, RecordsCall
    <3>4. ToSet(committed_calls) \subseteq Calls
      BY <1>1 DEF TypeOK, ToSet
    <3>5. ToSet(committed_calls) \subseteq ToSet(committed_calls') \cup Known(log')
      BY <1>1, <2>3, <3>3, <3>4, ForgetKeeps DEF TypeOK
    <3>6. Known(log) \subseteq Known(log')
      BY <1>4, <1>5 DEF Handle
    <3> QED BY <1>1, <1>5, <3>5, <3>6 DEF HandleRecord, EvidenceKept
  <2>4. CASE UNCHANGED committed_calls
    BY <1>1, <1>4, <1>5, <2>4 DEF Handle, HandleRecord, EvidenceKept
  <2> QED BY <1>5, <2>3, <2>4 DEF HandleRecord
<1>6. CASE HandleDeclaration
  <2>1. ToSet(committed_calls) \cup {m.call} \subseteq ToSet(committed_calls')
    <3>1. ToSet(committed_calls) \cup {m.call} \subseteq ToSet(Append(committed_calls, m.call))
      <4>1. committed_calls \in Seq(Calls)
        BY <1>1 DEF TypeOK
      <4> DEFINE a == Append(committed_calls, m.call)
      <4>2. /\ DOMAIN a = 1..Len(committed_calls) + 1
            /\ \A i \in 1..Len(committed_calls) : a[i] = committed_calls[i]
            /\ a[Len(committed_calls) + 1] = m.call
            /\ DOMAIN committed_calls = 1..Len(committed_calls) /\ Len(committed_calls) \in Nat
        BY <4>1
      <4> HIDE DEF a
      <4>3. ToSet(committed_calls) \subseteq ToSet(a) /\ m.call \in ToSet(a)
        BY <4>2 DEF ToSet
      <4> QED BY <4>3 DEF a
    <3> QED BY <1>6, <3>1 DEF HandleDeclaration
  <2> QED BY <1>1, <1>6, <2>1 DEF HandleDeclaration, EvidenceKept
<1>7. CASE HandleStraggler
  <2>1. m \in Message /\ m.op = "declare"
    BY <1>1, <1>7, ReceiveFacts DEF HandleStraggler
  <2>2. m.call \in Calls
    BY <2>1 DEF Message
  <2> DEFINE via == IF turn = NoTurn THEN "declared_without_turn" ELSE "stale_turn_generation"
             e == Planned("tool_call", m.call, via)
  <2>3. \/ m.call \in Known(log) /\ UNCHANGED excused
        \/ m.call \notin Known(log) /\ AppendAll(<<e>>) /\ UNCHANGED excused
        \/ excused' = excused \cup ({m.call} \ Known(log))
    BY <1>7 DEF HandleStraggler
  <2>4. CASE m.call \notin Known(log) /\ AppendAll(<<e>>) /\ UNCHANGED excused
    <3>1. e \in PlannedEvent /\ e.type = "tool_call" /\ e.call = m.call
      BY <2>2 DEF Planned, PlannedEvent, Via, EventType
    <3> HIDE DEF e
    <3>4. m.call \in Known(log')
      BY <1>1, <2>2, <2>4, <3>1, RecordsCall
    <3> QED BY <1>1, <1>4, <1>7, <2>4, <3>4 DEF Handle, HandleStraggler, EvidenceKept
  <2>5. CASE m.call \in Known(log) /\ UNCHANGED excused
    BY <1>1, <1>4, <1>7, <2>5 DEF Handle, HandleStraggler, EvidenceKept
  <2>6. CASE excused' = excused \cup ({m.call} \ Known(log))
    BY <1>1, <1>4, <1>7, <2>6 DEF Handle, HandleStraggler, EvidenceKept
  <2> QED BY <2>3, <2>4, <2>5, <2>6
<1>8. CASE HandleStartTurn
  <2>1. PICK d \in DrainLists(committed_calls) : \E r \in ReconcileLists(d) :
          \/ Drains(ClosePlan(d, r, "before_start_turn"))
          \/ DrainFails(ClosePlan(d, r, "before_start_turn"), d)
    BY <1>8 DEF HandleStartTurn
  <2>2. PICK r \in ReconcileLists(d) :
          \/ Drains(ClosePlan(d, r, "before_start_turn"))
          \/ DrainFails(ClosePlan(d, r, "before_start_turn"), d)
    BY <2>1
  <2>3. d \in Seq(Calls) /\ r \in Seq(Calls) /\ "before_start_turn" \in Via
    BY <1>1, DrainListsType, ReconcileListsType DEF TypeOK, Via
  <2> DEFINE plan == ClosePlan(d, r, "before_start_turn")
  <2>4. /\ plan \in Seq(PlannedEvent) /\ Len(d) <= Len(plan)
        /\ \A i \in 1..Len(d) : plan[i] = Planned("tool_call", d[i], "before_start_turn")
    BY <2>3, PlansType, ClosePlanFacts
  <2>5. Drains(plan) \/ DrainFails(plan, d)
    BY <2>2
  <2> HIDE DEF plan
  <2>6. Known(log) \cup ToSet(committed_calls) \cup excused \subseteq Known(log') \cup excused'
    BY <1>1, <2>3, <2>4, <2>5, DrainKeeps
  <2> QED BY <1>3, <1>8, <2>6 DEF HandleStartTurn
<1>9. CASE HandleInterrupt
  <2> DEFINE plan(d, r) == ClosePlan(d, r, "interrupt")
                             \o <<Planned("turn_failed", NoCall, "interrupt")>>
  <2>1. PICK d \in DrainLists(committed_calls) : \E r \in ReconcileLists(d) :
          Drains(plan(d, r)) \/ DrainFails(plan(d, r), d)
    BY <1>9 DEF HandleInterrupt
  <2>2. PICK r \in ReconcileLists(d) : Drains(plan(d, r)) \/ DrainFails(plan(d, r), d)
    BY <2>1
  <2>3. d \in Seq(Calls) /\ r \in Seq(Calls) /\ "interrupt" \in Via
    BY <1>1, DrainListsType, ReconcileListsType DEF TypeOK, Via
  <2>4. /\ plan(d, r) \in Seq(PlannedEvent) /\ Len(d) <= Len(plan(d, r))
        /\ \A i \in 1..Len(d) : plan(d, r)[i] = Planned("tool_call", d[i], "interrupt")
    <3>1. plan(d, r) = ClosePlan(d, r, "interrupt")
                         \o <<Planned("turn_failed", NoCall, "interrupt")>>
      OBVIOUS
    <3> HIDE DEF plan
    <3>2. Len(d) \in Nat /\ Len(r) \in Nat
      BY <2>3
    <3>3. /\ plan(d, r) \in Seq(PlannedEvent)
          /\ Len(plan(d, r)) = Len(d) + Len(r) + 1
          /\ \A i \in 1..Len(d) : plan(d, r)[i] = Planned("tool_call", d[i], "interrupt")
      BY <2>3, <3>1, InterruptPlanFacts
    <3> QED BY <3>2, <3>3
  <2> HIDE DEF plan
  <2>5. Known(log) \cup ToSet(committed_calls) \cup excused \subseteq Known(log') \cup excused'
    BY <1>1, <2>2, <2>3, <2>4, DrainKeeps
  <2> QED BY <1>3, <1>9, <2>5 DEF HandleInterrupt
<1>10. CASE HandleTurnDown
  <2>1. PICK d \in DrainLists(committed_calls) :
          \/ Drains(PlanFor(d, "tool_call", "turn_crashed"))
          \/ DrainFails(PlanFor(d, "tool_call", "turn_crashed"), d)
    BY <1>10 DEF HandleTurnDown
  <2>2. d \in Seq(Calls) /\ "turn_crashed" \in Via /\ "tool_call" \in EventType
    BY <1>1, DrainListsType DEF TypeOK, Via, EventType
  <2>3. /\ PlanFor(d, "tool_call", "turn_crashed") \in Seq(PlannedEvent)
        /\ Len(d) <= Len(PlanFor(d, "tool_call", "turn_crashed"))
        /\ \A i \in 1..Len(d) : PlanFor(d, "tool_call", "turn_crashed")[i]
                                  = Planned("tool_call", d[i], "turn_crashed")
    BY <2>2, PlanForFacts
  <2>4. Known(log) \cup ToSet(committed_calls) \cup excused \subseteq Known(log') \cup excused'
    BY <1>1, <2>1, <2>2, <2>3, DrainKeeps
  <2> QED BY <1>3, <1>10, <2>4 DEF HandleTurnDown
<1>11. CASE HandleInterruptNoTurn
  BY <1>1, <1>4, <1>11 DEF Handle, HandleInterruptNoTurn, EvidenceKept
<1>12. CASE HandleTurnResult
  <2>1. ToSet(committed_calls) \subseteq excused'
    BY <1>12 DEF HandleTurnResult, EvidenceInv, HeldByRunningTurn
  <2> QED BY <1>2, <1>12, <2>1 DEF HandleTurnResult
<1>13. CASE HandleStartTurnBusy \/ HandleStrayExit
  BY <1>2, <1>13 DEF HandleStartTurnBusy, HandleStrayExit
<1>14. CASE SessionStops \/ SessionStarts
  BY <1>2, <1>14 DEF SessionStops, SessionStarts
<1>15. CASE TaskStep \/ TaskCrashes \/ ClientStartsTurn \/ ClientInterrupts
  BY <1>2, <1>15 DEF TaskStep, TaskOpensStream, TaskRecords, TaskReturns, TaskCrashes,
        ClientStartsTurn, ClientInterrupts
<1>16. CASE \E t \in Identity :
              \/ \E c \in Calls : RunnerCommits(t, c)
              \/ RunnerCompletes(t) \/ StreamFails(t) \/ StreamIdleCut(t)
  BY <1>2, <1>16 DEF RunnerCommits, RunnerCompletes, StreamFails, StreamIdleCut
<1> QED BY <1>5, <1>6, <1>7, <1>8, <1>9, <1>10, <1>11, <1>12, <1>13, <1>14, <1>15, <1>16
        DEF Next, Handle

LEMMA EvidenceInvariant == Spec => []EvidenceInv
<1>1. Init => EvidenceInv
  <2> SUFFICES ASSUME Init PROVE EvidenceInv
    OBVIOUS
  <2>1. TypeOK
    BY InitType
  <2>2. DeclarationsOwned /\ HeldByRunningTurn /\ EvidenceKept
    BY DEF Init, DeclarationsOwned, HeldByRunningTurn, EvidenceKept, ToSet
  <2> QED BY <2>1, <2>2 DEF EvidenceInv
<1>2. EvidenceInv /\ [Next]_vars => EvidenceInv'
  <2> SUFFICES ASSUME EvidenceInv, [Next]_vars PROVE EvidenceInv'
    OBVIOUS
  <2>1. TypeOK'
    BY NextType DEF EvidenceInv
  <2>2. CASE UNCHANGED vars
    BY <2>1, <2>2 DEF EvidenceInv, DeclarationsOwned, HeldByRunningTurn, EvidenceKept,
          vars, sessionVars, historyVars
  <2>3. CASE Next
    BY <2>1, <2>3, OwnedStep, HeldStep, KeptStep DEF EvidenceInv
  <2> QED BY <2>2, <2>3
<1> QED BY <1>1, <1>2, PTL DEF Spec

\* A declaration the Session answered :ok is never silently lost: whatever
\* kills the Turn or delays the declaration past its end, the call is in the
\* Log or still held, or one of the losses the code accepts has happened.
THEOREM EvidenceKeptCorrect == Spec => []EvidenceKept
BY EvidenceInvariant, PTL DEF EvidenceInv

\* The Session holds calls of the running Turn only, so that draining them on
\* a start or an interrupt never attributes them to another Turn.
THEOREM HeldByRunningTurnCorrect == Spec => []HeldByRunningTurn
BY EvidenceInvariant, PTL DEF EvidenceInv

-----------------------------------------------------------------------------
(* What a start and an interrupt leave. *)

\* Writing a whole drain and a whole reconciliation leaves no call open.
LEMMA Closes ==
  ASSUME TypeOK, NEW d \in Seq(Calls), NEW r \in ReconcileLists(d), NEW via \in Via,
         NEW plan \in Seq(PlannedEvent), Len(d) + Len(r) <= Len(plan),
         \A i \in 1..Len(d) : plan[i] = Planned("tool_call", d[i], via),
         \A i \in 1..Len(r) : plan[Len(d) + i] = Planned("tool_result", r[i], via),
         \A i \in 1..Len(plan) : plan[i].type = "tool_call" => i <= Len(d),
         AppendAll(plan)
  PROVE  Pending(log') = {}
<1>1. /\ Len(log') = Len(log) + Len(plan)
      /\ \A i \in 1..Len(log) : log'[i] = log[i]
      /\ \A i \in 1..Len(plan) : log'[Len(log) + i] = Stamped(plan[i], seq + i - 1)
  <2>1. Len(plan) \in 0..Len(plan) /\ AppendFirst(plan, Len(plan))
    BY DEF AppendAll
  <2> QED BY <2>1, AppendFirstFacts DEF TypeOK
<1>2. r \in Seq(Calls) /\ Len(r) \in Nat /\ Len(d) \in Nat /\ Len(plan) \in Nat /\ Len(log) \in Nat
  BY ReconcileListsType DEF TypeOK
<1>3. ASSUME NEW c \in Pending(log) \cup ToSet(d)
      PROVE  \E i \in 1..Len(r) : r[i] = c
  <2>1. Pending(log) \cup ToSet(d) \in SUBSET Calls
    BY DEF Pending, ToSet
  <2> QED BY <2>1, ListingsFacts DEF ReconcileLists
<1>4. SUFFICES ASSUME NEW c \in Pending(log') PROVE FALSE
  OBVIOUS
<1>5. PICK i \in 1..Len(log') :
        /\ log'[i].type = "tool_call" /\ log'[i].call = c
        /\ \A j \in i+1..Len(log') : ~(log'[j].type = "tool_result" /\ log'[j].call = c)
  BY <1>4 DEF Pending
<1>6. c \in Pending(log) \cup ToSet(d)
  <2>1. CASE i <= Len(log)
    <3>1. i \in 1..Len(log) /\ log[i].type = "tool_call" /\ log[i].call = c
      BY <1>1, <1>2, <1>5, <2>1
    <3>2. ASSUME NEW j \in i+1..Len(log) PROVE ~(log[j].type = "tool_result" /\ log[j].call = c)
      <4>1. j \in 1..Len(log) /\ j \in i+1..Len(log')
        BY <1>1, <1>2
      <4> QED BY <1>1, <1>5, <4>1
    <3>3. c \in Calls
      BY <1>4 DEF Pending
    <3> QED BY <3>1, <3>2, <3>3 DEF Pending
  <2>2. CASE i > Len(log)
    <3> DEFINE n == i - Len(log)
    <3>1. n \in 1..Len(plan) /\ i = Len(log) + n
      BY <1>1, <1>2, <2>2
    <3> HIDE DEF n
    <3>2. plan[n].type = "tool_call" /\ plan[n].call = c
      <4>1. log'[i] = Stamped(plan[n], seq + n - 1)
        BY <1>1, <3>1
      <4> QED BY <1>5, <4>1 DEF Stamped
    <3>3. n \in 1..Len(d)
      BY <1>2, <3>1, <3>2
    <3>4. plan[n] = Planned("tool_call", d[n], via)
      BY <3>3
    <3> QED BY <3>2, <3>3, <3>4 DEF Planned, ToSet
  <2> QED BY <1>2, <2>1, <2>2
<1>7. i <= Len(log) + Len(d)
  <2>1. CASE i > Len(log)
    <3> DEFINE n == i - Len(log)
    <3>1. n \in 1..Len(plan) /\ i = Len(log) + n
      BY <1>1, <1>2, <2>1
    <3> HIDE DEF n
    <3>2. plan[n].type = "tool_call"
      <4>1. log'[i] = Stamped(plan[n], seq + n - 1)
        BY <1>1, <3>1
      <4> QED BY <1>5, <4>1 DEF Stamped
    <3> QED BY <1>2, <3>1, <3>2
  <2> QED BY <1>2, <2>1
<1>8. PICK x \in 1..Len(r) : r[x] = c
  BY <1>3, <1>6
<1> DEFINE y == Len(d) + x
           j == Len(log) + y
<1>9. y \in 1..Len(plan) /\ j \in i+1..Len(log')
  BY <1>1, <1>2, <1>7
<1>10. plan[y] = Planned("tool_result", c, via)
  BY <1>8
<1>11. log'[j] = Stamped(plan[y], seq + y - 1)
  BY <1>1, <1>9
<1> HIDE DEF y, j
<1>12. log'[j].type = "tool_result" /\ log'[j].call = c
  BY <1>10, <1>11 DEF Stamped, Planned
<1> QED BY <1>5, <1>9, <1>12

\* A Turn starts on a Log without open calls, holding nothing of an earlier
\* Turn: the request it sends the Provider pairs every call with an output.
THEOREM TurnStartsCleanCorrect == Spec => TurnStartsClean
<1>1. TypeOK /\ [Next]_vars =>
        [turn = NoTurn /\ turn' # NoTurn
           => Pending(log') = {} /\ committed_calls' = <<>>]_vars
  <2> SUFFICES ASSUME TypeOK, Next, turn = NoTurn, turn' # NoTurn
               PROVE  Pending(log') = {} /\ committed_calls' = <<>>
    OBVIOUS
  <2>1. HandleStartTurn
    BY DEF Next, Handle, HandleRecord, HandleDeclaration, HandleStraggler, HandleStartTurnBusy,
       HandleInterrupt, HandleInterruptNoTurn, HandleTurnResult, HandleTurnDown, HandleStrayExit,
       TaskStep, TaskOpensStream, TaskRecords, TaskReturns, TaskCrashes, RunnerCommits,
       RunnerCompletes, StreamFails, StreamIdleCut, ClientStartsTurn, ClientInterrupts,
       SessionStops, SessionStarts, sessionVars
  <2>2. PICK d \in DrainLists(committed_calls) : \E r \in ReconcileLists(d) :
          AppendAll(ClosePlan(d, r, "before_start_turn"))
    BY <2>1 DEF HandleStartTurn, Drains
  <2>3. PICK r \in ReconcileLists(d) : AppendAll(ClosePlan(d, r, "before_start_turn"))
    BY <2>2
  <2>4. d \in Seq(Calls) /\ r \in Seq(Calls) /\ "before_start_turn" \in Via
    BY DrainListsType, ReconcileListsType DEF TypeOK, Via
  <2> DEFINE plan == ClosePlan(d, r, "before_start_turn")
  <2>5. /\ plan \in Seq(PlannedEvent) /\ Len(plan) = Len(d) + Len(r)
        /\ \A i \in 1..Len(d) : plan[i] = Planned("tool_call", d[i], "before_start_turn")
        /\ \A i \in 1..Len(r) :
              plan[Len(d) + i] = Planned("tool_result", r[i], "before_start_turn")
    BY <2>4, PlansType, ClosePlanFacts
  <2>6. AppendAll(plan)
    BY <2>3
  <2> HIDE DEF plan
  <2>7. ASSUME NEW i \in 1..Len(plan), plan[i].type = "tool_call" PROVE i <= Len(d)
    <3>1. SUFFICES ASSUME ~(i <= Len(d)) PROVE FALSE
      OBVIOUS
    <3> DEFINE n == i - Len(d)
    <3>2. n \in 1..Len(r) /\ i = Len(d) + n
      BY <2>4, <2>5, <3>1
    <3> HIDE DEF n
    <3>3. plan[i] = Planned("tool_result", r[n], "before_start_turn")
      BY <2>5, <3>2
    <3> QED BY <2>7, <3>3 DEF Planned
  <2>8. Len(d) + Len(r) <= Len(plan)
    BY <2>4, <2>5
  <2>9. Pending(log') = {}
    BY <2>4, <2>5, <2>6, <2>7, <2>8, Closes
  <2> QED BY <2>1, <2>9 DEF HandleStartTurn
<1> QED BY <1>1, TypeCorrect, PTL DEF Spec, TurnStartsClean

\* When interrupt/1 answers :ok, every call the killed Turn recorded or had
\* declared is in the Log and closed, and the interruption ends the Log.
THEOREM InterruptClosesLogCorrect == Spec => InterruptClosesLog
<1>1. TypeOK /\ [Next]_vars =>
        [turn # NoTurn /\ Receive("interrupt") /\ up' /\ faults' = faults
           => /\ Pending(log') = {}
              /\ ToSet(committed_calls) \subseteq Known(log')
              /\ log'[Len(log')].type = "turn_failed"]_vars
  <2> SUFFICES ASSUME TypeOK, Next, turn # NoTurn, Receive("interrupt"), up', faults' = faults
               PROVE  /\ Pending(log') = {}
                      /\ ToSet(committed_calls) \subseteq Known(log')
                      /\ log'[Len(log')].type = "turn_failed"
    OBVIOUS
  <2>1. HandleInterrupt
    <3>1. up /\ m.op = "interrupt" /\ mailbox # <<>> /\ mailbox' = Tail(mailbox)
      BY DEF Receive
    <3>2. mailbox \in Seq(Message) /\ Len(mailbox) \in Nat
      BY DEF TypeOK
    <3>3. Len(mailbox') = Len(mailbox) - 1
      BY <3>1, <3>2, HeadTailProperties
    <3>4. CASE Handle
      BY <3>1, <3>4 DEF Handle, HandleRecord, HandleDeclaration, HandleStraggler, HandleStartTurn,
         HandleStartTurnBusy, HandleInterruptNoTurn, HandleTurnResult, HandleTurnDown,
         HandleStrayExit, Receive
    <3>5. ASSUME UNCHANGED mailbox \/ \E msg : Send(msg) PROVE FALSE
      BY <3>2, <3>3, <3>5 DEF Send
    <3>6. ~(SessionStops \/ SessionStarts)
      BY <3>1 DEF SessionStops, SessionStarts
    <3>7. CASE TaskStep \/ TaskCrashes \/ ClientStartsTurn \/ ClientInterrupts
      BY <3>5, <3>7 DEF TaskStep, TaskOpensStream, TaskRecords, TaskReturns, TaskCrashes,
         ClientStartsTurn, ClientInterrupts
    <3>8. CASE \E t \in Identity :
                 \/ \E c \in Calls : RunnerCommits(t, c)
                 \/ RunnerCompletes(t) \/ StreamFails(t) \/ StreamIdleCut(t)
      BY <3>5, <3>8 DEF RunnerCommits, RunnerCompletes, StreamFails, StreamIdleCut
    <3> QED BY <3>4, <3>6, <3>7, <3>8 DEF Next
  <2> DEFINE plan(d, r) == ClosePlan(d, r, "interrupt")
                             \o <<Planned("turn_failed", NoCall, "interrupt")>>
  <2>2. PICK d \in DrainLists(committed_calls) : \E r \in ReconcileLists(d) :
          Drains(plan(d, r)) \/ DrainFails(plan(d, r), d)
    BY <2>1 DEF HandleInterrupt
  <2>3. PICK r \in ReconcileLists(d) : Drains(plan(d, r)) \/ DrainFails(plan(d, r), d)
    BY <2>2
  <2> DEFINE w == plan(d, r)
  <2>4. Drains(w)
    <3>1. Drains(w) \/ DrainFails(w, d)
      BY <2>3
    <3> HIDE DEF w
    <3> QED BY <3>1, SessionAssumption DEF DrainFails, AppendFails, TypeOK
  <2>5. d \in Seq(Calls) /\ r \in Seq(Calls) /\ "interrupt" \in Via
    BY DrainListsType, ReconcileListsType DEF TypeOK, Via
  <2>6. w = ClosePlan(d, r, "interrupt") \o <<Planned("turn_failed", NoCall, "interrupt")>>
    OBVIOUS
  <2> HIDE DEF w
  <2>7. /\ w \in Seq(PlannedEvent)
        /\ Len(w) = Len(d) + Len(r) + 1
        /\ \A i \in 1..Len(d) : w[i] = Planned("tool_call", d[i], "interrupt")
        /\ \A i \in 1..Len(r) : w[Len(d) + i] = Planned("tool_result", r[i], "interrupt")
        /\ w[Len(d) + Len(r) + 1] = Planned("turn_failed", NoCall, "interrupt")
    BY ONLY <2>5, <2>6, InterruptPlanFacts, ZenonT(60)
  <2>8. Len(d) \in Nat /\ Len(r) \in Nat /\ Len(w) \in Nat
    BY <2>5, <2>7
  <2>9. ASSUME NEW i \in 1..Len(w), w[i].type = "tool_call" PROVE i <= Len(d)
    <3>1. SUFFICES ASSUME ~(i <= Len(d)) PROVE FALSE
      OBVIOUS
    <3> DEFINE n == i - Len(d)
    <3>2. i = Len(d) + n /\ (n \in 1..Len(r) \/ i = Len(d) + Len(r) + 1)
      <4>1. i \in Int /\ i > Len(d) /\ i <= Len(d) + Len(r) + 1
        BY <2>7, <2>8, <3>1
      <4> QED BY ONLY <4>1, <2>8 DEF n
    <3> HIDE DEF n
    <3>3. w[i].type # "tool_call"
      <4>1. CASE n \in 1..Len(r)
        <5>1. w[i] = Planned("tool_result", r[n], "interrupt")
          BY <2>7, <3>2, <4>1
        <5> QED BY <5>1 DEF Planned
      <4>2. CASE i = Len(d) + Len(r) + 1
        BY <2>7, <4>2 DEF Planned
      <4> QED BY <3>2, <4>1, <4>2
    <3> QED BY <2>9, <3>3
  <2>10. AppendAll(w) /\ Len(d) + Len(r) <= Len(w)
    BY <2>4, <2>7, <2>8 DEF Drains
  <2>11. Pending(log') = {}
    BY <2>5, <2>7, <2>9, <2>10, Closes
  <2>12. /\ Len(log') = Len(log) + Len(w)
         /\ \A i \in 1..Len(w) : log'[Len(log) + i] = Stamped(w[i], seq + i - 1)
         /\ Known(log) \subseteq Known(log')
         /\ \A i \in 1..Len(w) : w[i].type = "tool_call" /\ w[i].call \in Calls
                                   => w[i].call \in Known(log')
    <3>1. AppendFirst(w, Len(w)) /\ Len(w) \in 0..Len(w)
      BY <2>8, <2>10 DEF AppendAll
    <3> QED BY <2>7, <3>1, AppendFirstFacts, KnownGrows DEF TypeOK
  <2>13. log'[Len(log')].type = "turn_failed"
    <3>1. Len(w) \in 1..Len(w) /\ w[Len(w)].type = "turn_failed"
      BY <2>7, <2>8 DEF Planned
    <3>2. log'[Len(log')] = Stamped(w[Len(w)], seq + Len(w) - 1)
      BY <2>12, <3>1
    <3> QED BY <3>1, <3>2 DEF Stamped
  <2>14. ToSet(committed_calls) \subseteq Known(log')
    <3>1. ToSet(committed_calls) \subseteq Known(log) \cup {d[i] : i \in 1..Len(d)}
      <4>1. ToSet(committed_calls) \ Known(log) \in SUBSET Calls
        BY DEF TypeOK, ToSet
      <4>2. d \in Listings(ToSet(committed_calls) \ Known(log))
        BY DEF DrainLists
      <4> QED BY <4>1, <4>2, ListingsFacts
    <3>2. ASSUME NEW i \in 1..Len(d) PROVE d[i] \in Known(log')
      <4>1. i \in 1..Len(w) /\ w[i] = Planned("tool_call", d[i], "interrupt") /\ d[i] \in Calls
        BY <2>5, <2>7, <2>8
      <4>2. w[i].type = "tool_call" /\ w[i].call = d[i]
        BY <4>1 DEF Planned
      <4> QED BY <2>12, <4>1, <4>2
    <3> QED BY <2>12, <3>1, <3>2
  <2> QED BY <2>11, <2>13, <2>14
<1> QED BY <1>1, TypeCorrect, PTL DEF Spec, InterruptClosesLog

-----------------------------------------------------------------------------
(***************************************************************************)
(* The calls of the Log, and the ledger it implements.                     *)
(***************************************************************************)

(* What an append does to the calls of the Log. *)

CallsOf(plan, k) == {c \in Calls : \E i \in 1..k : plan[i].type = "tool_call" /\ plan[i].call = c}

ResultsOf(plan, k) == {c \in Calls : \E i \in 1..k : plan[i].type = "tool_result" /\ plan[i].call = c}

\* The first k events of a plan write every tool_call before any tool_result.
CallsFirst(plan, k) ==
  \A i, j \in 1..k : plan[i].type = "tool_result" /\ plan[j].type = "tool_call" => j < i

\* Each is the only one of its kind for a call that is there to be written.
Fits(plan, k) ==
  \A i \in 1..k : plan[i].via # "late" =>
    /\ plan[i].type = "tool_call" =>
         /\ plan[i].call \in Calls \ Known(log)
         /\ \A j \in 1..i-1 : ~(plan[j].type = "tool_call" /\ plan[j].call = plan[i].call)
    /\ plan[i].type = "tool_result" =>
         /\ plan[i].call \in Pending(log) \cup CallsOf(plan, k)
         /\ \A j \in 1..i-1 : ~(plan[j].type = "tool_result" /\ plan[j].call = plan[i].call)

LogFits == \A j \in 1..Len(log) : ~Repeats(j) /\ ~AnswersNothing(j)

LEMMA PendingKnown == Pending(log) \subseteq Known(log)
BY DEF Pending, Known, Mentions

\* Where each event of the new Log comes from.
LEMMA LogSplit ==
  ASSUME TypeOK, NEW plan \in Seq(PlannedEvent), NEW k \in 0..Len(plan), AppendFirst(plan, k)
  PROVE  /\ Len(log) \in Nat /\ k \in Nat /\ Len(log') = Len(log) + k
         /\ \A i \in 1..Len(log) : log'[i] = log[i]
         /\ \A i \in 1..k : /\ log'[Len(log) + i].type = plan[i].type
                            /\ log'[Len(log) + i].call = plan[i].call
                            /\ log'[Len(log) + i].via = plan[i].via
         /\ \A j \in 1..Len(log') : j \in 1..Len(log) \/ \E i \in 1..k : j = Len(log) + i
<1>1. /\ Len(log') = Len(log) + k /\ Len(log) \in Nat /\ k \in Nat
      /\ \A i \in 1..Len(log) : log'[i] = log[i]
      /\ \A i \in 1..k : log'[Len(log) + i] = Stamped(plan[i], seq + i - 1)
  BY AppendFirstFacts DEF TypeOK
<1>2. ASSUME NEW j \in 1..Len(log'), j \notin 1..Len(log)
      PROVE  \E i \in 1..k : j = Len(log) + i
  <2>1. j - Len(log) \in 1..k /\ j = Len(log) + (j - Len(log))
    BY <1>1, <1>2
  <2> QED BY <2>1
<1>3. \A i \in 1..k : /\ log'[Len(log) + i].type = plan[i].type
                      /\ log'[Len(log) + i].call = plan[i].call
                      /\ log'[Len(log) + i].via = plan[i].via
  <2> TAKE i \in 1..k
  <2>1. log'[Len(log) + i] = Stamped(plan[i], seq + i - 1)
    BY <1>1
  <2> QED BY <2>1 DEF Stamped
<1> QED BY <1>1, <1>2, <1>3

LEMMA KnownAfter ==
  ASSUME TypeOK, NEW plan \in Seq(PlannedEvent), NEW k \in 0..Len(plan), AppendFirst(plan, k)
  PROVE  Known(log') = Known(log) \cup CallsOf(plan, k) \cup ResultsOf(plan, k)
<1> DEFINE n == Len(log)
<1>1. /\ n \in Nat /\ k \in Nat /\ Len(log') = n + k
      /\ \A i \in 1..n : log'[i] = log[i]
      /\ \A i \in 1..k : log'[n + i].type = plan[i].type /\ log'[n + i].call = plan[i].call
      /\ \A j \in 1..Len(log') : j \in 1..n \/ \E i \in 1..k : j = n + i
  BY LogSplit
<1>2. Known(log) = {c \in Calls : \E i \in 1..n : log[i].type \in {"tool_call", "tool_result"} /\ log[i].call = c}
  BY DEF Known, Mentions
<1>3. Known(log') = {c \in Calls : \E i \in 1..Len(log') :
                        log'[i].type \in {"tool_call", "tool_result"} /\ log'[i].call = c}
  BY DEF Known, Mentions
<1> HIDE DEF n
<1>4. (\A i \in 1..n : i \in 1..Len(log')) /\ \A i \in 1..k : n + i \in 1..Len(log')
  BY <1>1
<1>5. ASSUME NEW c \in Known(log')
      PROVE  c \in Known(log) \cup CallsOf(plan, k) \cup ResultsOf(plan, k)
  <2>1. PICK i \in 1..Len(log') : log'[i].type \in {"tool_call", "tool_result"} /\ log'[i].call = c
    BY <1>3, <1>5
  <2>2. c \in Calls
    BY <1>3
  <2>3. CASE i \in 1..n
    BY <1>1, <1>2, <2>1, <2>2, <2>3
  <2>4. CASE i \notin 1..n
    <3>1. PICK x \in 1..k : i = n + x
      BY <1>1, <2>4
    <3>2. plan[x].type \in {"tool_call", "tool_result"} /\ plan[x].call = c
      BY <1>1, <2>1, <3>1
    <3> QED BY <2>2, <3>2 DEF CallsOf, ResultsOf
  <2> QED BY <2>3, <2>4
<1>6. ASSUME NEW c \in Known(log) \cup CallsOf(plan, k) \cup ResultsOf(plan, k)
      PROVE  c \in Known(log')
  <2>1. CASE c \in Known(log)
    <3>1. PICK i \in 1..n : log[i].type \in {"tool_call", "tool_result"} /\ log[i].call = c
      BY <1>2, <2>1
    <3>2. c \in Calls /\ i \in 1..Len(log') /\ log'[i] = log[i]
      BY <1>1, <1>2, <1>4, <2>1
    <3> QED BY <1>3, <3>1, <3>2
  <2>2. CASE c \in CallsOf(plan, k) \cup ResultsOf(plan, k)
    <3>1. PICK x \in 1..k : plan[x].type \in {"tool_call", "tool_result"} /\ plan[x].call = c
      BY <2>2 DEF CallsOf, ResultsOf
    <3>2. /\ c \in Calls /\ n + x \in 1..Len(log')
          /\ log'[n + x].type = plan[x].type /\ log'[n + x].call = c
      BY <1>1, <1>4, <2>2, <3>1 DEF CallsOf, ResultsOf
    <3> QED BY <1>3, <3>1, <3>2
  <2> QED BY <1>6, <2>1, <2>2
<1> QED BY <1>5, <1>6

LEMMA PendingAfter ==
  ASSUME TypeOK, NEW plan \in Seq(PlannedEvent), NEW k \in 0..Len(plan), AppendFirst(plan, k),
         CallsFirst(plan, k)
  PROVE  Pending(log') = (Pending(log) \cup CallsOf(plan, k)) \ ResultsOf(plan, k)
<1> DEFINE n == Len(log)
           Answered(l, i, c) == \E j \in i+1..Len(l) : l[j].type = "tool_result" /\ l[j].call = c
<1>1. /\ n \in Nat /\ k \in Nat /\ Len(log') = n + k
      /\ \A i \in 1..n : log'[i] = log[i]
      /\ \A i \in 1..k : log'[n + i].type = plan[i].type /\ log'[n + i].call = plan[i].call
      /\ \A j \in 1..Len(log') : j \in 1..n \/ \E i \in 1..k : j = n + i
  BY LogSplit
<1>2. /\ \A c : c \in Pending(log) <=> c \in Calls /\ \E i \in 1..n :
                   log[i].type = "tool_call" /\ log[i].call = c /\ ~Answered(log, i, c)
      /\ \A c : c \in Pending(log') <=> c \in Calls /\ \E i \in 1..Len(log') :
                   log'[i].type = "tool_call" /\ log'[i].call = c /\ ~Answered(log', i, c)
  BY DEF Pending
\* An old event is answered by the old Log or by the plan, a new one by neither.
<1>3. ASSUME NEW i \in 1..n, NEW c \in Calls
      PROVE  Answered(log', i, c) <=> Answered(log, i, c) \/ c \in ResultsOf(plan, k)
  <2>1. ASSUME Answered(log', i, c)
        PROVE  Answered(log, i, c) \/ c \in ResultsOf(plan, k)
    <3>1. PICK j \in i+1..Len(log') : log'[j].type = "tool_result" /\ log'[j].call = c
      BY <2>1
    <3>2. CASE j \in 1..n
      <4>1. j \in i+1..Len(log) /\ log[j] = log'[j]
        BY <1>1, <3>2
      <4> QED BY <3>1, <4>1
    <3>3. CASE j \notin 1..n
      <4>1. j \in 1..Len(log')
        BY <1>1
      <4>2. PICK x \in 1..k : j = n + x
        BY <1>1, <3>3, <4>1
      <4>3. plan[x].type = "tool_result" /\ plan[x].call = c
        BY <1>1, <3>1, <4>2
      <4> QED BY <4>3 DEF ResultsOf
    <3> QED BY <3>2, <3>3
  <2>2. ASSUME Answered(log, i, c)
        PROVE  Answered(log', i, c)
    <3>1. PICK j \in i+1..Len(log) : log[j].type = "tool_result" /\ log[j].call = c
      BY <2>2
    <3>2. j \in i+1..Len(log') /\ j \in 1..n
      BY <1>1
    <3> QED BY <1>1, <3>1, <3>2
  <2>3. ASSUME c \in ResultsOf(plan, k)
        PROVE  Answered(log', i, c)
    <3>1. PICK x \in 1..k : plan[x].type = "tool_result" /\ plan[x].call = c
      BY <2>3 DEF ResultsOf
    <3>2. n + x \in i+1..Len(log') /\ log'[n + x].type = "tool_result" /\ log'[n + x].call = c
      BY <1>1, <3>1
    <3> QED BY <3>2
  <2> HIDE DEF Answered
  <2> QED BY <2>1, <2>2, <2>3
<1>4. ASSUME NEW x \in 1..k, NEW c \in Calls, plan[x].type = "tool_call"
      PROVE  Answered(log', n + x, c) <=> c \in ResultsOf(plan, k)
  <2>1. ASSUME Answered(log', n + x, c)
        PROVE  c \in ResultsOf(plan, k)
    <3>1. PICK j \in n+x+1..Len(log') : log'[j].type = "tool_result" /\ log'[j].call = c
      BY <2>1
    <3>2. j \in 1..Len(log') /\ j \notin 1..n
      BY <1>1
    <3>3. PICK y \in 1..k : j = n + y
      BY <1>1, <3>2
    <3> QED BY <1>1, <3>1, <3>3 DEF ResultsOf
  <2>2. ASSUME c \in ResultsOf(plan, k)
        PROVE  Answered(log', n + x, c)
    <3>1. PICK y \in 1..k : plan[y].type = "tool_result" /\ plan[y].call = c
      BY <2>2 DEF ResultsOf
    <3>2. x < y
      BY <1>4, <3>1 DEF CallsFirst
    <3>3. n + y \in n+x+1..Len(log') /\ log'[n + y].type = "tool_result" /\ log'[n + y].call = c
      BY <1>1, <3>1, <3>2
    <3> QED BY <3>3
  <2> HIDE DEF Answered
  <2> QED BY <2>1, <2>2
<1> HIDE DEF Answered, n
<1>5. ASSUME NEW c \in Calls
      PROVE  c \in Pending(log') <=> (c \in Pending(log) \/ c \in CallsOf(plan, k)) /\ c \notin ResultsOf(plan, k)
  <2>1. ASSUME c \in Pending(log')
        PROVE  (c \in Pending(log) \/ c \in CallsOf(plan, k)) /\ c \notin ResultsOf(plan, k)
    <3>1. PICK i \in 1..Len(log') : log'[i].type = "tool_call" /\ log'[i].call = c /\ ~Answered(log', i, c)
      BY <1>2, <2>1
    <3>2. CASE i \in 1..n
      BY <1>1, <1>2, <1>3, <3>1, <3>2
    <3>3. CASE i \notin 1..n
      <4>1. PICK x \in 1..k : i = n + x
        BY <1>1, <3>3
      <4>2. plan[x].type = "tool_call" /\ plan[x].call = c
        BY <1>1, <3>1, <4>1
      <4> QED BY <1>4, <3>1, <4>1, <4>2 DEF CallsOf
    <3> QED BY <3>2, <3>3
  <2>2. ASSUME c \in Pending(log), c \notin ResultsOf(plan, k)
        PROVE  c \in Pending(log')
    <3>1. PICK i \in 1..n : log[i].type = "tool_call" /\ log[i].call = c /\ ~Answered(log, i, c)
      BY <1>2, <2>2
    <3>2. i \in 1..Len(log') /\ log'[i] = log[i] /\ ~Answered(log', i, c)
      BY <1>1, <1>3, <2>2, <3>1
    <3> QED BY <1>2, <3>1, <3>2
  <2>3. ASSUME c \in CallsOf(plan, k), c \notin ResultsOf(plan, k)
        PROVE  c \in Pending(log')
    <3>1. PICK x \in 1..k : plan[x].type = "tool_call" /\ plan[x].call = c
      BY <2>3 DEF CallsOf
    <3>2. n + x \in 1..Len(log') /\ ~Answered(log', n + x, c)
      BY <1>1, <1>4, <2>3, <3>1
    <3> QED BY <1>1, <1>2, <3>1, <3>2
  <2> QED BY <2>1, <2>2, <2>3
<1>6. Pending(log) \subseteq Calls /\ Pending(log') \subseteq Calls /\ CallsOf(plan, k) \subseteq Calls
  BY DEF Pending, CallsOf
<1> QED BY <1>5, <1>6

\* A plan that fits leaves no event the ledger has no step for.
LEMMA FitsAfter ==
  ASSUME TypeOK, LogFits, NEW plan \in Seq(PlannedEvent), NEW k \in 0..Len(plan),
         AppendFirst(plan, k), CallsFirst(plan, k), Fits(plan, k)
  PROVE  LogFits'
<1>0. PICK n \in Nat : n = Len(log)
  BY DEF TypeOK
<1>1. /\ n \in Nat /\ k \in Nat /\ Len(log') = n + k
      /\ \A i \in 1..n : log'[i] = log[i]
      /\ \A i \in 1..k : /\ log'[n + i].type = plan[i].type /\ log'[n + i].call = plan[i].call
                         /\ log'[n + i].via = plan[i].via
      /\ \A j \in 1..Len(log') : j \in 1..n \/ \E i \in 1..k : j = n + i
  <2>1. TypeOK /\ AppendFirst(plan, k)
    OBVIOUS
  <2>2. plan \in Seq(PlannedEvent) /\ k \in 0..Len(plan)
    OBVIOUS
  <2>3. /\ Len(log) \in Nat /\ k \in Nat /\ Len(log') = Len(log) + k
        /\ \A i \in 1..Len(log) : log'[i] = log[i]
        /\ \A i \in 1..k : /\ log'[Len(log) + i].type = plan[i].type
                           /\ log'[Len(log) + i].call = plan[i].call
                           /\ log'[Len(log) + i].via = plan[i].via
        /\ \A j \in 1..Len(log') : j \in 1..Len(log) \/ \E i \in 1..k : j = Len(log) + i
    BY ONLY <2>1, <2>2, LogSplit, Zenon
  <2> QED BY ONLY <1>0, <2>3, Zenon
<1>2. ASSUME NEW j \in 1..n
      PROVE  ~Repeats(j)' /\ ~AnswersNothing(j)'
  <2>1. ~Repeats(j) /\ ~AnswersNothing(j)
    BY <1>0 DEF LogFits
  <2>2. \A i \in 1..j : i \in 1..n
    BY <1>1
  <2>3. \A i \in 1..j-1 : i \in 1..j /\ \A x \in i+1..j-1 : x \in 1..j
    BY <1>1
  <2>4. \A i \in 1..j : log'[i] = log[i]
    BY <1>1, <2>2
  <2>5. j \in 1..j
    BY <1>1
  <2> QED BY <2>1, <2>3, <2>4, <2>5 DEF Repeats, AnswersNothing
<1>3. ASSUME NEW x \in 1..k, plan[x].type = "tool_call", plan[x].via # "late"
      PROVE  ~Repeats(n + x)'
  <2>1. SUFFICES ASSUME NEW i \in 1..n+x-1, log'[i].type \in {"tool_call", "tool_result"},
                        log'[i].call = plan[x].call
                 PROVE  FALSE
    BY <1>1 DEF Repeats
  <2>2. CASE i \in 1..n
    <3>1. plan[x].call \in Calls /\ log[i] = log'[i] /\ i \in 1..Len(log)
      BY <1>0, <1>1, <1>3, <2>2 DEF Fits
    <3>2. plan[x].call \in Known(log)
      BY <1>0, <2>1, <3>1 DEF Known, Mentions
    <3> QED BY <1>3, <3>2 DEF Fits
  <2>3. CASE i \notin 1..n
    <3>1. i \in 1..Len(log')
      BY <1>1
    <3>2. PICK y \in 1..k : i = n + y
      BY <1>1, <2>3, <3>1
    <3>3. y \in 1..x-1 /\ plan[y].type = log'[i].type /\ plan[y].call = plan[x].call
      BY <1>1, <2>1, <3>2
    <3>4. plan[y].type # "tool_result"
      BY <1>3, <3>3 DEF CallsFirst
    <3> QED BY <1>3, <2>1, <3>3, <3>4 DEF Fits
  <2> QED BY <2>2, <2>3
<1>4. ASSUME NEW x \in 1..k, plan[x].type = "tool_result", plan[x].via # "late"
      PROVE  ~AnswersNothing(n + x)'
  <2>0. PICK c : c = plan[x].call /\ log'[n + x].call = c
    BY <1>1
  <2>1. SUFFICES \E i \in 1..n+x-1 :
                   /\ log'[i].type = "tool_call" /\ log'[i].call = c
                   /\ \A j \in i+1..n+x-1 : ~(log'[j].type = "tool_result" /\ log'[j].call = c)
    <3>1. AnswersNothing(n + x)' =>
            ~\E i \in 1..n+x-1 :
                /\ log'[i].type = "tool_call" /\ log'[i].call = log'[n + x].call
                /\ \A j \in i+1..n+x-1 :
                     ~(log'[j].type = "tool_result" /\ log'[j].call = log'[n + x].call)
      BY DEF AnswersNothing
    <3> QED BY <2>0, <3>1
  <2>2. c \in Pending(log) \cup CallsOf(plan, k)
    BY <1>4, <2>0 DEF Fits
  \* The plan answers it once only.
  <2>3. ASSUME NEW j \in 1..Len(log'), j \notin 1..n, j < n + x,
               log'[j].type = "tool_result", log'[j].call = c
        PROVE  FALSE
    <3>1. PICK y \in 1..k : j = n + y
      BY <1>1, <2>3
    <3>2. y \in 1..x-1 /\ plan[y].type = "tool_result" /\ plan[y].call = c
      BY <1>1, <2>3, <3>1
    <3> QED BY <1>4, <2>0, <3>2 DEF Fits
  <2>4. CASE c \in Pending(log)
    <3>1. PICK i \in 1..n : /\ log[i].type = "tool_call" /\ log[i].call = c
                            /\ \A j \in i+1..n : ~(log[j].type = "tool_result" /\ log[j].call = c)
      BY <1>0, <2>4 DEF Pending
    <3>2. i \in 1..n+x-1 /\ log'[i].type = "tool_call" /\ log'[i].call = c
      BY <1>1, <3>1
    <3>3. ASSUME NEW j \in i+1..n+x-1, log'[j].type = "tool_result", log'[j].call = c
          PROVE  FALSE
      <4>1. j \in 1..Len(log') /\ j < n + x /\ (j \in 1..n => j \in i+1..n)
        BY <1>1
      <4>2. CASE j \in 1..n
        BY <1>1, <3>1, <3>3, <4>1, <4>2
      <4> QED BY <2>3, <3>3, <4>1, <4>2
    <3> QED BY <3>2, <3>3
  <2>5. CASE c \in CallsOf(plan, k)
    <3>1. PICK y \in 1..k : plan[y].type = "tool_call" /\ plan[y].call = c
      BY <2>5 DEF CallsOf
    <3>2. y < x
      BY <1>4, <3>1 DEF CallsFirst
    <3>3. n + y \in 1..n+x-1 /\ log'[n + y].type = "tool_call" /\ log'[n + y].call = c
      BY <1>1, <3>1, <3>2
    <3>4. ASSUME NEW j \in n+y+1..n+x-1, log'[j].type = "tool_result", log'[j].call = c
          PROVE  FALSE
      <4>1. j \in 1..Len(log') /\ j < n + x /\ j \notin 1..n
        BY <1>1
      <4> QED BY <2>3, <3>4, <4>1
    <3> QED BY <3>3, <3>4
  <2> QED BY <2>2, <2>4, <2>5
<1>5. ASSUME NEW x \in 1..k
      PROVE  ~Repeats(n + x)' /\ ~AnswersNothing(n + x)'
  <2>1. log'[n + x].type = plan[x].type /\ log'[n + x].via = plan[x].via
    BY <1>1
  <2>2. Repeats(n + x)' => plan[x].type = "tool_call" /\ plan[x].via # "late"
    BY <2>1 DEF Repeats
  <2>3. AnswersNothing(n + x)' => plan[x].type = "tool_result" /\ plan[x].via # "late"
    BY <2>1 DEF AnswersNothing
  <2> QED BY <1>3, <1>4, <2>2, <2>3
<1> QED BY <1>1, <1>2, <1>5 DEF LogFits

\* The calls of D were written and those of R answered, and nothing else.
Wrote(D, R) ==
  /\ Known(log') = Known(log) \cup D
  /\ Pending(log') = (Pending(log) \cup D) \ R
  /\ LogFits'
  /\ LateEvents' = LateEvents

LEMMA NothingWritten ==
  ASSUME TypeOK, LogFits, NEW plan, AppendFirst(plan, 0)
  PROVE  log' = log /\ Wrote({}, {})
<1>1. log \in Seq(Event)
  BY DEF TypeOK
<1>2. [i \in 1..0 |-> Stamped(plan[i], seq + i - 1)] = <<>>
  OBVIOUS
<1>3. log' = log \o <<>>
  BY <1>2 DEF AppendFirst
<1>4. log' = log
  BY ONLY <1>1, <1>3
<1> QED BY <1>4 DEF Wrote, LogFits, LateEvents, Repeats, AnswersNothing

LEMMA SameLate ==
  ASSUME TypeOK, NEW plan \in Seq(PlannedEvent), NEW k \in 0..Len(plan), AppendFirst(plan, k),
         \A i \in 1..k : plan[i].via # "late"
  PROVE  LateEvents' = LateEvents
<1>1. /\ Len(log) \in Nat /\ k \in Nat /\ Len(log') = Len(log) + k
      /\ \A i \in 1..Len(log) : log'[i] = log[i]
      /\ \A i \in 1..k : log'[Len(log) + i].via = plan[i].via
      /\ \A j \in 1..Len(log') : j \in 1..Len(log) \/ \E i \in 1..k : j = Len(log) + i
  BY LogSplit
<1>2. \A i \in 1..Len(log) : i \in 1..Len(log')
  BY <1>1
<1>3. LateEvents' = {i \in 1..Len(log') : log'[i].via = "late"}
  BY DEF LateEvents
<1> QED BY <1>1, <1>2, <1>3 DEF LateEvents

\* One record of a killed Turn is one stray event.
LEMMA OneLate ==
  ASSUME TypeOK, NEW e \in PlannedEvent, e.via = "late", AppendFirst(<<e>>, 1)
  PROVE  Cardinality(LateEvents') = Cardinality(LateEvents) + 1
<1> DEFINE plan == <<e>>
<1>1. plan \in Seq(PlannedEvent) /\ Len(plan) = 1 /\ plan[1] = e /\ 1 \in 0..Len(plan)
  OBVIOUS
<1> HIDE DEF plan
<1>2. AppendFirst(plan, 1)
  BY DEF plan
<1>3. /\ Len(log) \in Nat /\ Len(log') = Len(log) + 1
      /\ \A i \in 1..Len(log) : log'[i] = log[i]
      /\ \A i \in 1..1 : log'[Len(log) + i].via = plan[i].via
  BY <1>1, <1>2, LogSplit
<1>4. log'[Len(log) + 1].via = "late"
  BY <1>1, <1>3
<1>5. LateEvents' = {i \in 1..Len(log') : log'[i].via = "late"}
  BY DEF LateEvents
<1>6. LateEvents' = LateEvents \cup {Len(log) + 1} /\ Len(log) + 1 \notin LateEvents
  BY <1>3, <1>4, <1>5 DEF LateEvents
<1>7. IsFiniteSet(LateEvents)
  <2>1. IsFiniteSet(1..Len(log))
    BY <1>3, FS_Interval
  <2>2. LateEvents \subseteq 1..Len(log)
    BY DEF LateEvents
  <2> QED BY <2>1, <2>2, FS_Subset
<1> QED BY <1>6, <1>7, FS_AddElement

\* One event that fits.
LEMMA OneWritten ==
  ASSUME TypeOK, LogFits, NEW e \in PlannedEvent, AppendFirst(<<e>>, 1), e.via # "late",
         e.type = "tool_call" => e.call \in Calls \ Known(log),
         e.type = "tool_result" => e.call \in Pending(log)
  PROVE  Wrote(IF e.type = "tool_call" THEN {e.call} ELSE {},
               IF e.type = "tool_result" THEN {e.call} ELSE {})
<1> DEFINE plan == <<e>>
<1>1. plan \in Seq(PlannedEvent) /\ Len(plan) = 1 /\ plan[1] = e /\ 1 \in 0..Len(plan)
  OBVIOUS
<1> HIDE DEF plan
<1>2. AppendFirst(plan, 1)
  BY DEF plan
<1>3. \A i \in 1..1 : i = 1 /\ 1..i-1 = {}
  OBVIOUS
<1>4. CallsFirst(plan, 1) /\ Fits(plan, 1)
  BY <1>1, <1>3 DEF CallsFirst, Fits
<1>5. e.type = "tool_result" => e.call \in Calls
  BY DEF Pending
<1>6. /\ CallsOf(plan, 1) = IF e.type = "tool_call" THEN {e.call} ELSE {}
      /\ ResultsOf(plan, 1) = IF e.type = "tool_result" THEN {e.call} ELSE {}
  BY <1>1, <1>3, <1>5 DEF CallsOf, ResultsOf
<1>7. LogFits' /\ LateEvents' = LateEvents
  BY <1>1, <1>2, <1>3, <1>4, FitsAfter, SameLate
<1>8. Known(log') = Known(log) \cup CallsOf(plan, 1) \cup ResultsOf(plan, 1)
  BY <1>1, <1>2, KnownAfter
<1>9. Pending(log') = (Pending(log) \cup CallsOf(plan, 1)) \ ResultsOf(plan, 1)
  BY <1>1, <1>2, <1>4, PendingAfter
<1> QED BY <1>6, <1>7, <1>8, <1>9, PendingKnown DEF Wrote

\* One event of a killed Turn, whatever it says.
LEMMA LateWritten ==
  ASSUME TypeOK, LogFits, NEW e \in PlannedEvent, AppendFirst(<<e>>, 1), e.via = "late"
  PROVE  /\ Cardinality(LateEvents') = Cardinality(LateEvents) + 1
         /\ LogFits'
         /\ e.type \notin {"tool_call", "tool_result"} =>
              Known(log') = Known(log) /\ Pending(log') = Pending(log)
         /\ e.type = "tool_call" /\ e.call \in Calls =>
              Known(log') = Known(log) \cup {e.call} /\ Pending(log') = Pending(log) \cup {e.call}
         /\ e.type = "tool_result" /\ e.call \in Calls =>
              Known(log') = Known(log) \cup {e.call} /\ Pending(log') = Pending(log) \ {e.call}
<1> DEFINE plan == <<e>>
<1>1. plan \in Seq(PlannedEvent) /\ Len(plan) = 1 /\ plan[1] = e /\ 1 \in 0..Len(plan)
  OBVIOUS
<1> HIDE DEF plan
<1>2. AppendFirst(plan, 1)
  BY DEF plan
<1>3. \A i \in 1..1 : i = 1 /\ 1..i-1 = {}
  OBVIOUS
<1>4. CallsFirst(plan, 1) /\ Fits(plan, 1)
  BY <1>1, <1>3 DEF CallsFirst, Fits
<1>5. LogFits'
  BY <1>1, <1>2, <1>4, FitsAfter
<1>6. Known(log') = Known(log) \cup CallsOf(plan, 1) \cup ResultsOf(plan, 1)
  BY <1>1, <1>2, KnownAfter
<1>7. Pending(log') = (Pending(log) \cup CallsOf(plan, 1)) \ ResultsOf(plan, 1)
  BY <1>1, <1>2, <1>4, PendingAfter
<1>8. 1 \in 1..1
  OBVIOUS
<1>9. CallsOf(plan, 1) = {c \in Calls : e.type = "tool_call" /\ e.call = c}
  BY <1>1, <1>3, <1>8 DEF CallsOf
<1>10. ResultsOf(plan, 1) = {c \in Calls : e.type = "tool_result" /\ e.call = c}
  BY <1>1, <1>3, <1>8 DEF ResultsOf
<1> QED BY <1>5, <1>6, <1>7, <1>9, <1>10, OneLate

\* The plan writes the calls of d, answers those of r and may close with the
\* interruption; it writes nothing twice and nothing the Log has no place for.
Settling(plan, d, r, via) ==
  /\ via \in Via /\ via # "late"
  /\ \A i, j \in 1..Len(d) : d[i] = d[j] => i = j
  /\ \A i, j \in 1..Len(r) : r[i] = r[j] => i = j
  /\ \A i \in 1..Len(d) : d[i] \notin Known(log)
  /\ \A i \in 1..Len(r) : r[i] \in Pending(log) \cup ToSet(d)
  /\ \A i \in 1..Len(plan) :
       \/ i \in 1..Len(d) /\ plan[i] = Planned("tool_call", d[i], via)
       \/ i - Len(d) \in 1..Len(r) /\ plan[i] = Planned("tool_result", r[i - Len(d)], via)
       \/ i > Len(d) + Len(r) /\ plan[i] = Planned("turn_failed", NoCall, via)
  /\ Len(plan) >= Len(d) + Len(r)

\* What a drain and a reconciliation write, whole or cut short.
LEMMA PlanWritten ==
  ASSUME TypeOK, LogFits, NEW d \in Seq(Calls), NEW r \in Seq(Calls), NEW via,
         NEW plan \in Seq(PlannedEvent), Settling(plan, d, r, via),
         NEW k \in 0..Len(plan), AppendFirst(plan, k)
  PROVE  \E D \in SUBSET ToSet(d) : \E R \in SUBSET (Pending(log) \cup D) :
            Wrote(D, R) /\ (k = Len(plan) => D = ToSet(d) /\ R = ToSet(r))
<1> USE DEF Settling
<1>1. /\ Len(d) \in Nat /\ Len(r) \in Nat /\ k \in Nat /\ Len(plan) \in Nat /\ k <= Len(plan)
      /\ \A i \in 1..k : i \in 1..Len(plan)
      /\ ToSet(d) = {d[i] : i \in 1..Len(d)} /\ ToSet(r) = {r[i] : i \in 1..Len(r)}
      /\ \A i \in 1..Len(d) : d[i] \in Calls
      /\ \A i \in 1..Len(r) : r[i] \in Calls
  <2> HIDE DEF Settling
  <2>1. DOMAIN d = 1..Len(d) /\ DOMAIN r = 1..Len(r)
    OBVIOUS
  <2> QED BY <2>1 DEF ToSet
<1>2. \A i \in 1..k :
        /\ plan[i].via # "late"
        /\ \/ i \in 1..Len(d) /\ plan[i].type = "tool_call" /\ plan[i].call = d[i]
           \/ /\ i - Len(d) \in 1..Len(r) /\ plan[i].type = "tool_result"
              /\ plan[i].call = r[i - Len(d)]
           \/ plan[i].type = "turn_failed"
  <2> TAKE i \in 1..k
  <2>1. i \in 1..Len(plan)
    BY <1>1
  <2>2. CASE i \in 1..Len(d) /\ plan[i] = Planned("tool_call", d[i], via)
    BY <2>2 DEF Planned
  <2>3. CASE i - Len(d) \in 1..Len(r) /\ plan[i] = Planned("tool_result", r[i - Len(d)], via)
    BY <2>3 DEF Planned
  <2>4. CASE plan[i] = Planned("turn_failed", NoCall, via)
    BY <2>4 DEF Planned
  <2> QED BY <2>1, <2>2, <2>3, <2>4
<1>3. CallsFirst(plan, k)
  <2> SUFFICES ASSUME NEW i \in 1..k, NEW j \in 1..k,
                      plan[i].type = "tool_result", plan[j].type = "tool_call"
               PROVE  j < i
    BY DEF CallsFirst
  <2>1. i - Len(d) \in 1..Len(r) /\ j \in 1..Len(d)
    BY <1>2
  <2> QED BY <1>1, <2>1
<1>4. /\ CallsOf(plan, k) \subseteq ToSet(d) /\ ResultsOf(plan, k) \subseteq ToSet(r)
      /\ CallsOf(plan, k) \subseteq Calls
  <2> HIDE DEF Settling
  <2>1. ASSUME NEW c \in CallsOf(plan, k) PROVE c \in ToSet(d)
    <3>1. PICK i \in 1..k : plan[i].type = "tool_call" /\ plan[i].call = c
      BY <2>1 DEF CallsOf
    <3>2. i \in 1..Len(d) /\ plan[i].call = d[i]
      BY ONLY <1>2, <3>1
    <3> QED BY ONLY <1>1, <3>1, <3>2, Zenon
  <2>2. ASSUME NEW c \in ResultsOf(plan, k) PROVE c \in ToSet(r)
    <3>1. PICK i \in 1..k : plan[i].type = "tool_result" /\ plan[i].call = c
      BY <2>2 DEF ResultsOf
    <3>2. i - Len(d) \in 1..Len(r) /\ plan[i].call = r[i - Len(d)]
      BY ONLY <1>2, <3>1
    <3> QED BY ONLY <1>1, <3>1, <3>2, Zenon
  <2>3. CallsOf(plan, k) \subseteq Calls
    BY DEF CallsOf
  <2> QED BY <2>1, <2>2, <2>3
<1>5. ASSUME NEW i \in 1..Len(d), i <= k PROVE d[i] \in CallsOf(plan, k)
  <2>1. i \in 1..k
    BY <1>1, <1>5
  <2>2. plan[i] = Planned("tool_call", d[i], via)
    BY <1>1, <2>1
  <2>3. plan[i].type = "tool_call" /\ plan[i].call = d[i]
    BY <2>2 DEF Planned
  <2> QED BY <1>1, <2>1, <2>3 DEF CallsOf
<1>6. ASSUME NEW i \in 1..Len(r), Len(d) + i <= k PROVE r[i] \in ResultsOf(plan, k)
  <2>1. Len(d) + i \in 1..k /\ Len(d) + i \in 1..Len(plan)
    BY <1>1, <1>6
  <2>2. Len(d) + i - Len(d) = i /\ ~(Len(d) + i \in 1..Len(d)) /\ ~(Len(d) + i > Len(d) + Len(r))
    BY <1>1
  <2>3. plan[Len(d) + i] = Planned("tool_result", r[i], via)
    BY <2>1, <2>2
  <2>4. plan[Len(d) + i].type = "tool_result" /\ plan[Len(d) + i].call = r[i]
    BY <2>3 DEF Planned
  <2> QED BY <1>1, <2>1, <2>4 DEF ResultsOf
\* A result is written only once every held call is.
<1>7. ResultsOf(plan, k) # {} => CallsOf(plan, k) = ToSet(d)
  <2>1. SUFFICES ASSUME NEW c \in ResultsOf(plan, k)
                 PROVE  \A i \in 1..Len(d) : d[i] \in CallsOf(plan, k)
    BY <1>1, <1>4
  <2>2. PICK j \in 1..k : plan[j].type = "tool_result"
    BY DEF ResultsOf
  <2>3. j > Len(d)
    BY <1>1, <1>2, <2>2
  <2> QED BY <1>1, <1>5, <2>3
<1>8. ResultsOf(plan, k) \subseteq Pending(log) \cup CallsOf(plan, k)
  BY <1>1, <1>4, <1>7
<1>9. Fits(plan, k)
  <2> SUFFICES ASSUME NEW i \in 1..k
               PROVE  /\ plan[i].type = "tool_call" =>
                           /\ plan[i].call \in Calls \ Known(log)
                           /\ \A j \in 1..i-1 : ~(plan[j].type = "tool_call" /\ plan[j].call = plan[i].call)
                      /\ plan[i].type = "tool_result" =>
                           /\ plan[i].call \in Pending(log) \cup CallsOf(plan, k)
                           /\ \A j \in 1..i-1 : ~(plan[j].type = "tool_result" /\ plan[j].call = plan[i].call)
    BY DEF Fits
  <2>1. ASSUME plan[i].type = "tool_call"
        PROVE  /\ plan[i].call \in Calls \ Known(log)
               /\ \A j \in 1..i-1 : ~(plan[j].type = "tool_call" /\ plan[j].call = plan[i].call)
    <3>1. i \in 1..Len(d) /\ plan[i].call = d[i]
      BY <1>2, <2>1
    <3>2. ASSUME NEW j \in 1..i-1, plan[j].type = "tool_call", plan[j].call = plan[i].call
          PROVE  FALSE
      <4>1. j \in 1..k /\ j # i
        BY <1>1
      <4>2. j \in 1..Len(d) /\ plan[j].call = d[j]
        BY <1>2, <3>2, <4>1
      <4> QED BY <3>1, <3>2, <4>1, <4>2
    <3> QED BY <1>1, <3>1, <3>2
  <2>2. ASSUME plan[i].type = "tool_result"
        PROVE  /\ plan[i].call \in Pending(log) \cup CallsOf(plan, k)
               /\ \A j \in 1..i-1 : ~(plan[j].type = "tool_result" /\ plan[j].call = plan[i].call)
    <3>1. i - Len(d) \in 1..Len(r) /\ plan[i].call = r[i - Len(d)]
      BY <1>2, <2>2
    <3>2. plan[i].call \in ResultsOf(plan, k)
      BY <1>1, <2>2, <3>1 DEF ResultsOf
    <3>3. ASSUME NEW j \in 1..i-1, plan[j].type = "tool_result", plan[j].call = plan[i].call
          PROVE  FALSE
      <4>1. j \in 1..k /\ j - Len(d) # i - Len(d)
        BY <1>1
      <4>2. j - Len(d) \in 1..Len(r) /\ plan[j].call = r[j - Len(d)]
        BY <1>2, <3>3, <4>1
      <4> QED BY <3>1, <3>3, <4>1, <4>2
    <3> QED BY <1>8, <3>2, <3>3
  <2> QED BY <2>1, <2>2
<1>10. LogFits' /\ LateEvents' = LateEvents
  BY <1>2, <1>3, <1>9, FitsAfter, SameLate
<1>11. Known(log') = Known(log) \cup CallsOf(plan, k)
  BY <1>8, KnownAfter, PendingKnown
<1>12. Pending(log') = (Pending(log) \cup CallsOf(plan, k)) \ ResultsOf(plan, k)
  BY <1>3, PendingAfter
<1>13. Wrote(CallsOf(plan, k), ResultsOf(plan, k))
  BY <1>10, <1>11, <1>12 DEF Wrote
<1>14. k = Len(plan) => CallsOf(plan, k) = ToSet(d) /\ ResultsOf(plan, k) = ToSet(r)
  <2>1. ASSUME k = Len(plan)
        PROVE  /\ \A i \in 1..Len(d) : i <= k
               /\ \A i \in 1..Len(r) : Len(d) + i <= k
    BY <1>1, <2>1
  <2> QED BY <1>1, <1>4, <1>5, <1>6, <2>1
<1> QED BY <1>4, <1>8, <1>13, <1>14

\* What a handler that ends or begins a Turn may write: some of the held calls
\* and the results of some of the open ones.
Settles ==
  \E D \in SUBSET (ToSet(committed_calls) \ Known(log)) :
    \E R \in SUBSET (Pending(log) \cup D) : Wrote(D, R)

LEMMA DrainSets ==
  ASSUME TypeOK, NEW d \in DrainLists(committed_calls)
  PROVE  /\ d \in Seq(Calls)
         /\ \A i, j \in 1..Len(d) : d[i] = d[j] => i = j
         /\ \A i \in 1..Len(d) : d[i] \notin Known(log)
         /\ ToSet(d) = ToSet(committed_calls) \ Known(log)
<1>1. ToSet(committed_calls) \ Known(log) \in SUBSET Calls
  BY DEF TypeOK, ToSet
<1>2. d \in Listings(ToSet(committed_calls) \ Known(log))
  BY DEF DrainLists
<1>3. /\ d \in Seq(ToSet(committed_calls) \ Known(log)) /\ d \in Seq(Calls)
      /\ \A c \in ToSet(committed_calls) \ Known(log) : \E i \in 1..Len(d) : d[i] = c
  BY <1>1, <1>2, ListingsFacts
<1>4. \A i, j \in 1..Len(d) : d[i] = d[j] => i = j
  BY <1>2 DEF Listings
<1>5. \A i \in 1..Len(d) : d[i] \in ToSet(committed_calls) \ Known(log)
  BY <1>3
<1>6. ToSet(d) = {d[i] : i \in 1..Len(d)}
  BY <1>3 DEF ToSet
<1>7. ToSet(d) = ToSet(committed_calls) \ Known(log)
  BY <1>3, <1>5, <1>6, Zenon
<1> QED BY <1>3, <1>4, <1>5, <1>7

LEMMA ReconcileSets ==
  ASSUME NEW d \in Seq(Calls), NEW r \in ReconcileLists(d)
  PROVE  /\ r \in Seq(Calls)
         /\ \A i, j \in 1..Len(r) : r[i] = r[j] => i = j
         /\ \A i \in 1..Len(r) : r[i] \in Pending(log) \cup ToSet(d)
         /\ ToSet(r) = Pending(log) \cup ToSet(d)
<1>1. Pending(log) \cup ToSet(d) \in SUBSET Calls
  BY DEF ToSet, Pending
<1>2. r \in Listings(Pending(log) \cup ToSet(d))
  BY DEF ReconcileLists
<1>3. /\ r \in Seq(Pending(log) \cup ToSet(d)) /\ r \in Seq(Calls)
      /\ \A c \in Pending(log) \cup ToSet(d) : \E i \in 1..Len(r) : r[i] = c
  BY <1>1, <1>2, ListingsFacts
<1>4. \A i, j \in 1..Len(r) : r[i] = r[j] => i = j
  BY <1>2 DEF Listings
<1>5. \A i \in 1..Len(r) : r[i] \in Pending(log) \cup ToSet(d)
  BY <1>3
<1>6. ToSet(r) = {r[i] : i \in 1..Len(r)}
  BY <1>3 DEF ToSet
<1>7. ToSet(r) = Pending(log) \cup ToSet(d)
  BY <1>3, <1>5, <1>6, Zenon
<1> QED BY <1>3, <1>4, <1>5, <1>7

\* How far a drain gets.
LEMMA DrainWritten ==
  ASSUME NEW plan \in Seq(PlannedEvent), NEW d, Drains(plan) \/ DrainFails(plan, d)
  PROVE  \E k \in 0..Len(plan) : AppendFirst(plan, k) /\ (Drains(plan) => k = Len(plan))
<1>1. CASE Drains(plan)
  BY <1>1, Written DEF Drains
<1>2. CASE ~Drains(plan) /\ DrainFails(plan, d)
  BY <1>2, Written DEF DrainFails
<1> QED BY <1>1, <1>2

LEMMA StartSettles ==
  ASSUME TypeOK, LogFits, HandleStartTurn
  PROVE  /\ Settles
         /\ \/ UNCHANGED <<turn_generation, turn, task>>
            \/ LET next == [inc |-> incarnation, gen |-> turn_generation + 1]
               IN /\ Pending(log') = {}
                  /\ turn_generation' = turn_generation + 1
                  /\ turn' = next
                  /\ task' = [NoTask EXCEPT !.turn = next, !.at = "loop"]
<1> DEFINE next == [inc |-> incarnation, gen |-> turn_generation + 1]
           plan(d, r) == ClosePlan(d, r, "before_start_turn")
           Starts(d, r) == /\ Drains(plan(d, r))
                           /\ turn_generation' = turn_generation + 1
                           /\ turn' = next
                           /\ task' = [NoTask EXCEPT !.turn = next, !.at = "loop"]
           Fails(d, r) == DrainFails(plan(d, r), d) /\ UNCHANGED <<turn_generation, turn, task>>
<1>1. PICK d \in DrainLists(committed_calls) : \E r \in ReconcileLists(d) : Starts(d, r) \/ Fails(d, r)
  BY DEF HandleStartTurn
<1>2. PICK r \in ReconcileLists(d) : Starts(d, r) \/ Fails(d, r)
  BY <1>1
<1>3. d \in Seq(Calls) /\ r \in Seq(Calls) /\ ToSet(d) = ToSet(committed_calls) \ Known(log)
  BY DrainSets, ReconcileSets
<1>4. plan(d, r) \in Seq(PlannedEvent) /\ "before_start_turn" \in Via /\ "before_start_turn" # "late"
  BY <1>3, PlansType DEF Via
<1>5. PICK k \in 0..Len(plan(d, r)) : AppendFirst(plan(d, r), k) /\ (Drains(plan(d, r)) => k = Len(plan(d, r)))
  BY <1>2, <1>4, DrainWritten
<1>6. /\ Len(plan(d, r)) = Len(d) + Len(r)
      /\ \A i \in 1..Len(d) : plan(d, r)[i] = Planned("tool_call", d[i], "before_start_turn")
      /\ \A i \in 1..Len(r) : plan(d, r)[Len(d) + i] = Planned("tool_result", r[i], "before_start_turn")
  BY <1>3, <1>4, ClosePlanFacts
<1>7. PICK p : p = plan(d, r)
  OBVIOUS
<1> HIDE DEF plan
<1>8. \A i \in 1..Len(p) :
         \/ i \in 1..Len(d) /\ p[i] = Planned("tool_call", d[i], "before_start_turn")
         \/ i - Len(d) \in 1..Len(r) /\ p[i] = Planned("tool_result", r[i - Len(d)], "before_start_turn")
         \/ i > Len(d) + Len(r) /\ p[i] = Planned("turn_failed", NoCall, "before_start_turn")
  <2> TAKE i \in 1..Len(p)
  <2>1. /\ Len(d) \in Nat /\ Len(r) \in Nat /\ i \in Nat
        /\ i \in 1..Len(d) \/ (i - Len(d) \in 1..Len(r) /\ i = Len(d) + (i - Len(d)))
    BY <1>3, <1>6, <1>7
  <2> QED BY <1>6, <1>7, <2>1
<1>9. Len(p) >= Len(d) + Len(r)
  BY <1>3, <1>6, <1>7
<1>10. \E D \in SUBSET ToSet(d) : \E R \in SUBSET (Pending(log) \cup D) :
          Wrote(D, R) /\ (k = Len(p) => D = ToSet(d) /\ R = ToSet(r))
  <2>1. /\ \A i, j \in 1..Len(d) : d[i] = d[j] => i = j
        /\ \A i \in 1..Len(d) : d[i] \notin Known(log)
    BY DrainSets
  <2>2. /\ \A i, j \in 1..Len(r) : r[i] = r[j] => i = j
        /\ \A i \in 1..Len(r) : r[i] \in Pending(log) \cup ToSet(d)
    BY <1>3, ReconcileSets
  <2>3. Settling(p, d, r, "before_start_turn")
    BY <1>4, <1>8, <1>9, <2>1, <2>2 DEF Settling
  <2> QED BY <1>3, <1>4, <1>5, <1>7, <2>3, PlanWritten
<1>11. Settles
  BY <1>3, <1>10 DEF Settles
<1>12. Drains(plan(d, r)) => Pending(log') = {}
  <2> SUFFICES ASSUME Drains(plan(d, r)) PROVE Pending(log') = {}
    OBVIOUS
  <2>1. ToSet(r) = Pending(log) \cup ToSet(d)
    BY <1>3, ReconcileSets
  <2>2. k = Len(p)
    BY <1>5, <1>7
  <2> QED BY <1>10, <2>1, <2>2 DEF Wrote
<1> QED BY <1>2, <1>11, <1>12

LEMMA InterruptSettles ==
  ASSUME TypeOK, LogFits, HandleInterrupt
  PROVE  Settles
<1> DEFINE plan(d, r) == ClosePlan(d, r, "interrupt") \o <<Planned("turn_failed", NoCall, "interrupt")>>
<1>1. PICK d \in DrainLists(committed_calls) :
        \E r \in ReconcileLists(d) : Drains(plan(d, r)) \/ DrainFails(plan(d, r), d)
  BY DEF HandleInterrupt
<1>2. PICK r \in ReconcileLists(d) : Drains(plan(d, r)) \/ DrainFails(plan(d, r), d)
  BY <1>1
<1>3. PICK p : p = plan(d, r)
  OBVIOUS
<1>4. d \in Seq(Calls) /\ r \in Seq(Calls) /\ ToSet(d) = ToSet(committed_calls) \ Known(log)
  BY DrainSets, ReconcileSets
<1>5. /\ p \in Seq(PlannedEvent)
      /\ Len(p) = Len(d) + Len(r) + 1
      /\ \A i \in 1..Len(d) : p[i] = Planned("tool_call", d[i], "interrupt")
      /\ \A i \in 1..Len(r) : p[Len(d) + i] = Planned("tool_result", r[i], "interrupt")
      /\ p[Len(d) + Len(r) + 1] = Planned("turn_failed", NoCall, "interrupt")
  <2>1. p = ClosePlan(d, r, "interrupt") \o <<Planned("turn_failed", NoCall, "interrupt")>>
    BY <1>3
  <2>2. d \in Seq(Calls) /\ r \in Seq(Calls)
    BY <1>4
  <2> HIDE DEF plan
  <2> QED BY ONLY <2>1, <2>2, InterruptPlanFacts, ZenonT(60)
<1>6. PICK k \in 0..Len(p) : AppendFirst(p, k)
  BY <1>2, <1>3, <1>5, DrainWritten
<1> HIDE DEF plan
<1>7. \A i \in 1..Len(p) :
         \/ i \in 1..Len(d) /\ p[i] = Planned("tool_call", d[i], "interrupt")
         \/ i - Len(d) \in 1..Len(r) /\ p[i] = Planned("tool_result", r[i - Len(d)], "interrupt")
         \/ i > Len(d) + Len(r) /\ p[i] = Planned("turn_failed", NoCall, "interrupt")
  <2> TAKE i \in 1..Len(p)
  <2>1. /\ Len(d) \in Nat /\ Len(r) \in Nat /\ i \in Nat
        /\ \/ i \in 1..Len(d)
           \/ i - Len(d) \in 1..Len(r) /\ i = Len(d) + (i - Len(d))
           \/ i > Len(d) + Len(r) /\ i = Len(d) + Len(r) + 1
    <3>1. Len(d) \in Nat /\ Len(r) \in Nat /\ i \in 1..Len(d) + Len(r) + 1
      BY <1>4, <1>5
    <3> QED BY <3>1
  <2> QED BY <1>5, <2>1
<1>8. "interrupt" \in Via /\ "interrupt" # "late" /\ Len(p) >= Len(d) + Len(r)
  BY <1>4, <1>5 DEF Via
<1>9. \E D \in SUBSET ToSet(d) : \E R \in SUBSET (Pending(log) \cup D) :
          Wrote(D, R) /\ (k = Len(p) => D = ToSet(d) /\ R = ToSet(r))
  <2>1. /\ \A i, j \in 1..Len(d) : d[i] = d[j] => i = j
        /\ \A i \in 1..Len(d) : d[i] \notin Known(log)
    BY DrainSets
  <2>2. /\ \A i, j \in 1..Len(r) : r[i] = r[j] => i = j
        /\ \A i \in 1..Len(r) : r[i] \in Pending(log) \cup ToSet(d)
    BY <1>4, ReconcileSets
  <2>3. Settling(p, d, r, "interrupt")
    BY <1>7, <1>8, <2>1, <2>2 DEF Settling
  <2>4. d \in Seq(Calls) /\ r \in Seq(Calls) /\ p \in Seq(PlannedEvent) /\ AppendFirst(p, k)
    BY <1>4, <1>5, <1>6
  <2> QED BY <2>3, <2>4, PlanWritten
<1> QED BY <1>4, <1>9 DEF Settles

LEMMA IdleInterruptSettles ==
  ASSUME TypeOK, LogFits, HandleInterruptNoTurn
  PROVE  Settles
<1> DEFINE plan(r) == PlanFor(r, "tool_result", "interrupt_no_turn")
<1>1. PICK r \in ReconcileLists(<<>>) :
        AppendAll(plan(r)) \/ \E k \in 0..Len(plan(r)) : AppendFails(plan(r), k)
  BY DEF HandleInterruptNoTurn
<1>2. PICK d : d = <<>>
  OBVIOUS
<1>3. PICK p : p = plan(r)
  OBVIOUS
<1>4. d \in Seq(Calls) /\ Len(d) = 0 /\ ToSet(d) = {} /\ r \in ReconcileLists(d)
  BY <1>2 DEF ToSet
<1>5. r \in Seq(Calls)
  BY <1>4, ReconcileSets
<1>6. "tool_result" \in EventType /\ "interrupt_no_turn" \in Via /\ "interrupt_no_turn" # "late"
  BY DEF EventType, Via
<1>7. /\ p \in Seq(PlannedEvent) /\ Len(p) = Len(r)
      /\ \A i \in 1..Len(r) : p[i] = Planned("tool_result", r[i], "interrupt_no_turn")
  BY <1>3, <1>5, <1>6, PlanForFacts
<1> HIDE DEF plan
<1>8. PICK k \in 0..Len(p) : AppendFirst(p, k)
  <2>1. CASE AppendAll(p)
    BY <1>7, <2>1, Written
  <2>2. ASSUME NEW j \in 0..Len(p), AppendFails(p, j)
        PROVE  AppendFirst(p, j)
    BY <1>7, <2>2, Written
  <2> QED BY <1>1, <1>3, <2>1, <2>2
<1>9. \A i \in 1..Len(p) :
         \/ i \in 1..Len(d) /\ p[i] = Planned("tool_call", d[i], "interrupt_no_turn")
         \/ i - Len(d) \in 1..Len(r) /\ p[i] = Planned("tool_result", r[i - Len(d)], "interrupt_no_turn")
         \/ i > Len(d) + Len(r) /\ p[i] = Planned("turn_failed", NoCall, "interrupt_no_turn")
  <2> TAKE i \in 1..Len(p)
  <2>1. i - Len(d) = i /\ i \in 1..Len(r)
    BY <1>4, <1>7
  <2> QED BY <1>7, <2>1
<1>10. /\ Len(p) >= Len(d) + Len(r)
       /\ \A i, j \in 1..Len(d) : d[i] = d[j] => i = j
       /\ \A i \in 1..Len(d) : d[i] \notin Known(log)
  BY <1>4, <1>5, <1>7
<1>11. \E D \in SUBSET ToSet(d) : \E R \in SUBSET (Pending(log) \cup D) :
          Wrote(D, R) /\ (k = Len(p) => D = ToSet(d) /\ R = ToSet(r))
  <2>1. /\ \A i, j \in 1..Len(r) : r[i] = r[j] => i = j
        /\ \A i \in 1..Len(r) : r[i] \in Pending(log) \cup ToSet(d)
    BY <1>4, ReconcileSets
  <2>2. Settling(p, d, r, "interrupt_no_turn")
    BY <1>6, <1>9, <1>10, <2>1 DEF Settling
  <2>3. d \in Seq(Calls) /\ r \in Seq(Calls) /\ p \in Seq(PlannedEvent) /\ AppendFirst(p, k)
    BY <1>4, <1>5, <1>7, <1>8
  <2> QED BY <2>2, <2>3, PlanWritten
<1> QED BY <1>4, <1>11 DEF Settles

LEMMA DownSettles ==
  ASSUME TypeOK, LogFits, HandleTurnDown
  PROVE  Settles
<1> DEFINE plan(d) == PlanFor(d, "tool_call", "turn_crashed")
<1>1. PICK d \in DrainLists(committed_calls) : Drains(plan(d)) \/ DrainFails(plan(d), d)
  BY DEF HandleTurnDown
<1>2. PICK r : r = <<>>
  OBVIOUS
<1>3. PICK p : p = plan(d)
  OBVIOUS
<1>4. r \in Seq(Calls) /\ Len(r) = 0
  BY <1>2
<1>5. d \in Seq(Calls) /\ ToSet(d) = ToSet(committed_calls) \ Known(log)
  BY DrainSets
<1>6. "tool_call" \in EventType /\ "turn_crashed" \in Via /\ "turn_crashed" # "late"
  BY DEF EventType, Via
<1>7. /\ p \in Seq(PlannedEvent) /\ Len(p) = Len(d)
      /\ \A i \in 1..Len(d) : p[i] = Planned("tool_call", d[i], "turn_crashed")
  BY <1>3, <1>5, <1>6, PlanForFacts
<1> HIDE DEF plan
<1>8. PICK k \in 0..Len(p) : AppendFirst(p, k)
  BY <1>1, <1>3, <1>7, DrainWritten
<1>9. \A i \in 1..Len(p) :
         \/ i \in 1..Len(d) /\ p[i] = Planned("tool_call", d[i], "turn_crashed")
         \/ i - Len(d) \in 1..Len(r) /\ p[i] = Planned("tool_result", r[i - Len(d)], "turn_crashed")
         \/ i > Len(d) + Len(r) /\ p[i] = Planned("turn_failed", NoCall, "turn_crashed")
  BY <1>7
<1>10. /\ Len(p) >= Len(d) + Len(r)
       /\ \A i, j \in 1..Len(r) : r[i] = r[j] => i = j
       /\ \A i \in 1..Len(r) : r[i] \in Pending(log) \cup ToSet(d)
  BY <1>4, <1>5, <1>7
<1>11. \E D \in SUBSET ToSet(d) : \E R \in SUBSET (Pending(log) \cup D) :
          Wrote(D, R) /\ (k = Len(p) => D = ToSet(d) /\ R = ToSet(r))
  <2>1. /\ \A i, j \in 1..Len(d) : d[i] = d[j] => i = j
        /\ \A i \in 1..Len(d) : d[i] \notin Known(log)
    BY DrainSets
  <2>2. Settling(p, d, r, "turn_crashed")
    BY <1>6, <1>9, <1>10, <2>1 DEF Settling
  <2>3. d \in Seq(Calls) /\ r \in Seq(Calls) /\ p \in Seq(PlannedEvent) /\ AppendFirst(p, k)
    BY <1>4, <1>5, <1>7, <1>8
  <2> QED BY <2>2, <2>3, PlanWritten
<1> QED BY <1>5, <1>11 DEF Settles

-----------------------------------------------------------------------------
(* Who writes what: the invariant. *)

\* The identities given out so far.
Begun(t) == t.inc < incarnation \/ (t.inc = incarnation /\ t.gen <= turn_generation)

TurnsBegun ==
  /\ turn # NoTurn => Begun(turn)
  /\ \A i \in 1..Len(mailbox) : mailbox[i].turn # NoTurn => Begun(mailbox[i].turn)
  /\ \A c \in Calls : owner[c] # NoTurn => Begun(owner[c])
  /\ \A t \in Identity : runner[t].st # "off" => Begun(t)

\* A living Task is the Turn's, and has not yet said that it ended.
TaskIsTurns ==
  task # NoTask =>
    /\ task.turn = turn
    /\ \A i \in 1..Len(mailbox) : mailbox[i].op \in {"result", "down"} => mailbox[i].turn # turn
    /\ \A c \in task.ran : owner[c] = turn

RecordsOwned ==
  \A i \in 1..Len(mailbox) :
    mailbox[i].op = "record" /\ mailbox[i].type \in {"tool_call", "tool_result"} =>
      mailbox[i].call \in Calls /\ owner[mailbox[i].call] = mailbox[i].turn

Recording(i) == mailbox[i].op = "record" /\ mailbox[i].turn = turn

\* The record the Task waits for.
Awaited(msg) ==
  \/ task.at = "call" /\ msg.type = "tool_call" /\ msg.call = Head(task.todo)
  \/ task.at \in {"result", "fallback"} /\ msg.type = "tool_result" /\ msg.call = Head(task.todo)
  \/ task.at = "message" /\ msg.type = "message"

\* The running Turn has at most one record on the way, and the Log has a place
\* for it, also when the Task that sent it has died since.
RecordsFit ==
  \A i \in 1..Len(mailbox) : Recording(i) =>
    /\ mailbox[i].type = "tool_call" => mailbox[i].call \notin Known(log)
    /\ mailbox[i].type = "tool_result" => mailbox[i].call \in Pending(log)
    /\ \A j \in 1..Len(mailbox) : Recording(j) => i = j
    /\ task # NoTask => task.waiting /\ Awaited(mailbox[i])

\* The batch: each call once, none in the Log but the one that runs.
TodoFits ==
  task.at \in {"call", "result", "fallback"} =>
    /\ \A i, j \in 1..Len(task.todo) : task.todo[i] = task.todo[j] => i = j
    /\ \A i \in 1..Len(task.todo) : task.todo[i] \in task.ran
    /\ \A i \in 1..Len(task.todo) : task.todo[i] \in Known(log) => i = 1 /\ task.at # "call"
    /\ task.at # "call" => task.todo[1] \in Pending(log)

\* The stream of a living Task: each call once, none that was already run.
StreamFits ==
  task # NoTask /\ runner[turn].st # "off" =>
    /\ task.at = "stream"
    /\ \A i, j \in 1..Len(runner[turn].got) : runner[turn].got[i] = runner[turn].got[j] => i = j
    /\ \A i \in 1..Len(runner[turn].got) :
         owner[runner[turn].got[i]] = turn /\ runner[turn].got[i] \notin task.ran

\* What the Log knows of a Turn's calls, its living Task has handed over.
KnownFits ==
  \A c \in Known(log) : owner[c] # NoTurn /\ (task # NoTask /\ owner[c] = turn => c \in task.ran)

Owning == TurnsBegun /\ TaskIsTurns /\ RecordsOwned

Fitting == RecordsFit /\ TodoFits /\ StreamFits /\ KnownFits /\ LogFits

LedgerInv == EvidenceInv /\ Owning /\ Fitting

-----------------------------------------------------------------------------
(* What a step may do to the mailbox, the Task, the owners and the runners. *)

NextIdentity == [inc |-> incarnation, gen |-> turn_generation + 1]

\* A message that is sent by this step.
Fresh(msg) ==
  \/ msg.op \in {"start_turn", "interrupt"} /\ msg.turn = NoTurn
  \/ msg.op = "declare" /\ msg.turn \in Identity /\ runner[msg.turn].st # "off"
  \/ /\ msg.op \in {"result", "down"} /\ task # NoTask /\ msg.turn = task.turn
     /\ task' = NoTask
  \/ /\ msg.op = "record" /\ task # NoTask /\ msg.turn = task.turn /\ TaskRecords
     /\ msg.type \in {"tool_call", "tool_result"} =>
          task.at \in {"call", "result", "fallback"} /\ msg.call = Head(task.todo)

Moved(s) ==
  \A i \in 1..Len(mailbox') :
    (i + s \in 1..Len(mailbox) /\ mailbox'[i] = mailbox[i + s]) \/ Fresh(mailbox'[i])

LEMMA MovedCases ==
  ASSUME TypeOK
  PROVE  /\ mailbox' = mailbox => Moved(0)
         /\ mailbox' = <<>> => Moved(0)
         /\ \A op : Receive(op) => Moved(1)
         /\ \A msg : Send(msg) /\ Fresh(msg) => Moved(0)
<1>1. mailbox \in Seq(Message)
  BY DEF TypeOK
<1>2. \A i \in 1..Len(mailbox) : i + 0 = i
  BY <1>1
<1>3. mailbox' = mailbox => Moved(0)
  BY <1>2 DEF Moved
<1>4. mailbox' = <<>> => Moved(0)
  BY DEF Moved
<1>5. ASSUME NEW op, Receive(op) PROVE Moved(1)
  BY <1>5, ReceiveRest DEF Moved
<1>6. ASSUME NEW msg, Send(msg), Fresh(msg) PROVE Moved(0)
  BY <1>2, <1>6, SendRest DEF Moved
<1> QED BY <1>3, <1>4, <1>5, <1>6

LEMMA MailMoves ==
  ASSUME TypeOK, Next
  PROVE  Moved(0) \/ Moved(1)
<1> USE DEF sessionVars, historyVars
<1>1. CASE Handle
  BY <1>1, HandleReceives, MovedCases
<1>2. CASE TaskOpensStream
  BY <1>2, MovedCases DEF TaskOpensStream
<1>3. CASE TaskRecords
  <2>1. task # NoTask
    BY <1>3, NoTaskIsIdle DEF TaskRecords
  <2>2. ASSUME NEW type, NEW call,
               type \in {"tool_call", "tool_result"} =>
                 task.at \in {"call", "result", "fallback"} /\ call = Head(task.todo)
        PROVE  Fresh(Request("record", task.turn, type, call))
    <3>1. PICK msg : msg = Request("record", task.turn, type, call)
      OBVIOUS
    <3>2. msg.op = "record" /\ msg.turn = task.turn /\ msg.type = type /\ msg.call = call
      BY <3>1 DEF Request
    <3>3. Fresh(msg)
      BY <1>3, <2>1, <2>2, <3>2 DEF Fresh
    <3> QED BY <3>1, <3>3
  <2>3. CASE /\ task.at = "call"
             /\ Send(Request("record", task.turn, "tool_call", Head(task.todo)))
    <3>1. Fresh(Request("record", task.turn, "tool_call", Head(task.todo)))
      BY <2>2, <2>3
    <3> QED BY <2>3, <3>1, MovedCases
  <2>4. CASE /\ task.at \in {"result", "fallback"}
             /\ Send(Request("record", task.turn, "tool_result", Head(task.todo)))
    <3>1. Fresh(Request("record", task.turn, "tool_result", Head(task.todo)))
      BY <2>2, <2>4
    <3> QED BY <2>4, <3>1, MovedCases
  <2>5. CASE Send(Request("record", task.turn, "message", NoCall))
    <3>1. Fresh(Request("record", task.turn, "message", NoCall))
      BY <2>2
    <3> QED BY <2>5, <3>1, MovedCases
  <2> QED BY <1>3, <2>3, <2>4, <2>5 DEF TaskRecords
<1>4. CASE TaskReturns
  <2>1. task # NoTask
    BY <1>4, NoTaskIsIdle DEF TaskReturns
  <2>2. Fresh(Request("result", task.turn, "none", NoCall))
    BY <1>4, <2>1 DEF TaskReturns, Fresh, Request
  <2> QED BY <1>4, <2>2, MovedCases DEF TaskReturns
<1>5. CASE TaskCrashes
  <2>1. Fresh(Request("down", task.turn, "none", NoCall))
    BY <1>5 DEF TaskCrashes, Fresh, Request
  <2> QED BY <1>5, <2>1, MovedCases DEF TaskCrashes
<1>6. ASSUME NEW t \in Identity, NEW c \in Calls, RunnerCommits(t, c)
      PROVE  Moved(0)
  <2>1. Fresh(Request("declare", t, "none", c))
    BY <1>6 DEF RunnerCommits, Fresh, Request
  <2> QED BY <1>6, <2>1, MovedCases DEF RunnerCommits
<1>7. CASE \E t \in Identity : RunnerCompletes(t) \/ StreamFails(t) \/ StreamIdleCut(t)
  BY <1>7, MovedCases DEF RunnerCompletes, StreamFails, StreamIdleCut
<1>8. CASE ClientStartsTurn \/ ClientInterrupts
  <2>1. \A op \in {"start_turn", "interrupt"} : Fresh(Request(op, NoTurn, "none", NoCall))
    BY DEF Fresh, Request
  <2> QED BY <1>8, <2>1, MovedCases DEF ClientStartsTurn, ClientInterrupts
<1>9. CASE SessionStops \/ SessionStarts
  BY <1>9, MovedCases DEF SessionStops, SessionStarts
<1> QED BY <1>1, <1>2, <1>3, <1>4, <1>5, <1>6, <1>7, <1>8, <1>9 DEF Next, TaskStep

LEMMA OwnerMoves ==
  ASSUME TypeOK, Next
  PROVE  \A c \in Calls : \/ owner'[c] = owner[c]
                          \/ /\ owner[c] = NoTurn /\ owner'[c] \in Identity
                             /\ runner[owner'[c]].st # "off"
<1> USE DEF sessionVars, historyVars
<1>1. ASSUME NEW t \in Identity, NEW e \in Calls, RunnerCommits(t, e)
      PROVE  \A c \in Calls : \/ owner'[c] = owner[c]
                              \/ /\ owner[c] = NoTurn /\ owner'[c] \in Identity
                                 /\ runner[owner'[c]].st # "off"
  BY <1>1 DEF RunnerCommits, TypeOK
<1>2. CASE ~\E t \in Identity : \E e \in Calls : RunnerCommits(t, e)
  <2>1. owner' = owner
    BY <1>2, HandleReceives DEF Next, TaskStep, TaskOpensStream, TaskRecords, TaskReturns,
       TaskCrashes, RunnerCompletes, StreamFails, StreamIdleCut, ClientStartsTurn,
       ClientInterrupts, SessionStops, SessionStarts
  <2> QED BY <2>1
<1> QED BY <1>1, <1>2

LEMMA ReplyKeepsRunner ==
  ASSUME TypeOK, ReplyToRunner, NEW t \in Identity
  PROVE  /\ runner'[t].got = runner[t].got
         /\ (runner'[t].st # "off") <=> (runner[t].st # "off")
BY DEF TypeOK, ReplyToRunner, Runner

LEMMA RunnerMoves ==
  ASSUME TypeOK, Next, NEW t \in Identity, runner'[t].st # "off"
  PROVE  runner[t].st # "off" \/ (task # NoTask /\ t = task.turn)
<1> USE DEF sessionVars, historyVars
<1>1. runner \in [Identity -> Runner]
  BY DEF TypeOK
<1>2. CASE Handle
  <2>1. ReplyToRunner \/ runner' = runner
    BY <1>2 DEF Handle, HandleRecord, HandleDeclaration, HandleStraggler, HandleStartTurn,
       HandleStartTurnBusy, HandleInterrupt, HandleInterruptNoTurn, HandleTurnResult,
       HandleTurnDown, HandleStrayExit
  <2> QED BY <2>1, ReplyKeepsRunner
<1>3. CASE TaskOpensStream
  <2>1. task # NoTask
    BY <1>3, NoTaskIsIdle DEF TaskOpensStream
  <2> QED BY <1>1, <1>3, <2>1 DEF TaskOpensStream
<1>4. CASE TaskRecords \/ TaskReturns \/ TaskCrashes \/ ClientStartsTurn \/ ClientInterrupts \/ SessionStarts
  BY <1>4 DEF TaskRecords, TaskReturns, TaskCrashes, ClientStartsTurn, ClientInterrupts, SessionStarts
<1>5. ASSUME NEW u \in Identity, \/ \E c \in Calls : RunnerCommits(u, c)
                                 \/ RunnerCompletes(u) \/ StreamFails(u) \/ StreamIdleCut(u)
      PROVE  runner[t].st # "off"
  BY <1>1, <1>5 DEF RunnerCommits, RunnerCompletes, StreamFails, StreamIdleCut, Idle, Runner
<1>6. CASE SessionStops
  BY <1>1, <1>6 DEF SessionStops, Runner
<1> QED BY <1>2, <1>3, <1>4, <1>5, <1>6 DEF Next, TaskStep

LEMMA TurnHasNoTask ==
  ASSUME LedgerInv, task # NoTask
  PROVE  /\ task \in LiveTask /\ task.turn = turn /\ turn \in Identity /\ turn # NoTurn
         /\ task.todo \in Seq(Calls) /\ task.ran \in SUBSET Calls
         /\ task.at \in {"call", "result", "fallback"} =>
              task.todo # <<>> /\ Len(task.todo) \in Nat \ {0} /\ Head(task.todo) = task.todo[1]
<1>1. task \in LiveTask /\ task.turn \in Identity /\ task.turn = turn
  BY TaskAlive DEF LedgerInv, EvidenceInv, Owning, TaskIsTurns
<1>2. /\ task.todo \in Seq(Calls) /\ task.ran \in SUBSET Calls
      /\ task.at \in {"call", "result", "fallback"} => task.todo # <<>>
  BY <1>1 DEF LiveTask
<1>3. Len(task.todo) \in Nat /\ (task.todo # <<>> => Len(task.todo) # 0)
  BY <1>2, EmptySeq
<1> QED BY <1>1, <1>2, <1>3, NoTurnIsNoIdentity

LEMMA RepliedKeeps ==
  ASSUME TypeOK, NEW ok, Replied(ok), task # NoTask
  PROVE  task'.turn = task.turn /\ task'.ran = task.ran
<1>1. task \in LiveTask
  BY TaskAlive
<1> QED BY <1>1 DEF Replied, GoTo, NextCall, Abandon, LiveTask

LEMMA ReplyKeepsTask ==
  ASSUME TypeOK, NEW ok, ReplyToTask(ok), m.turn \in Identity
  PROVE  /\ task = NoTask => task' = NoTask
         /\ task # NoTask => task'.turn = task.turn /\ task'.ran = task.ran
BY RepliedKeeps, NoTaskIsIdle, NoTurnIsNoIdentity DEF ReplyToTask

\* The Turn this step begins.
Begins ==
  /\ HandleStartTurn
  /\ turn = NoTurn /\ turn' = NextIdentity /\ NextIdentity \in Identity
  /\ turn_generation' = turn_generation + 1
  /\ task' = [NoTask EXCEPT !.turn = NextIdentity, !.at = "loop"]
  /\ Pending(log') = {}

LEMMA StartOutcome ==
  ASSUME LedgerInv, HandleStartTurn
  PROVE  Begins \/ UNCHANGED <<turn_generation, turn, task>>
<1>1. TypeOK /\ LogFits
  BY DEF LedgerInv, EvidenceInv, Fitting
<1>2. turn = NoTurn /\ turn_generation < MaxGenerations
  BY DEF HandleStartTurn
<1>3. NextIdentity \in Identity
  BY <1>1, <1>2, SessionAssumption DEF TypeOK, Identity, NextIdentity
<1>4. \/ UNCHANGED <<turn_generation, turn, task>>
      \/ /\ Pending(log') = {}
         /\ turn_generation' = turn_generation + 1
         /\ turn' = NextIdentity
         /\ task' = [NoTask EXCEPT !.turn = NextIdentity, !.at = "loop"]
  BY <1>1, StartSettles DEF NextIdentity
<1> QED BY <1>2, <1>3, <1>4 DEF Begins

\* The Task keeps its Turn, or there is none left, or a Turn begins.
Continues ==
  /\ task # NoTask /\ task' # NoTask
  /\ task'.turn = task.turn /\ turn' = turn
  /\ \/ task'.ran = task.ran
     \/ task'.ran = task.ran \cup ToSet(runner[turn].got) /\ runner[turn].st # "off"

LEMMA TaskMoves ==
  ASSUME LedgerInv, Next
  PROVE  Continues \/ Begins \/ (task' = NoTask /\ turn' \in {turn, NoTurn})
<1> USE DEF sessionVars, historyVars
<1>1. TypeOK /\ TaskIsTurns
  BY DEF LedgerInv, EvidenceInv, Owning
<1>2. ASSUME task' = task, turn' = turn
      PROVE  Continues \/ (task' = NoTask /\ turn' \in {turn, NoTurn})
  BY <1>2 DEF Continues
<1>3. ASSUME task # NoTask, task'.turn = task.turn, turn' = turn,
             \/ task'.ran = task.ran
             \/ task'.ran = task.ran \cup ToSet(runner[turn].got) /\ runner[turn].st # "off"
      PROVE  Continues
  <2>1. task' # NoTask
    BY <1>3, TurnHasNoTask, NoTaskIsIdle
  <2> QED BY <1>3, <2>1 DEF Continues
<1>4. CASE HandleRecord
  <2>1. m.turn \in Identity
    BY <1>1, <1>4, ReceiveFacts DEF HandleRecord, Message
  <2>2. ReplyToTask(TRUE) \/ ReplyToTask(FALSE)
    BY <1>4 DEF HandleRecord
  <2>3. /\ task = NoTask => task' = NoTask
        /\ task # NoTask => task'.turn = task.turn /\ task'.ran = task.ran
    BY <1>1, <2>1, <2>2, ReplyKeepsTask
  <2>4. turn' = turn
    BY <1>4 DEF HandleRecord
  <2> QED BY <1>3, <2>3, <2>4
<1>5. CASE HandleDeclaration \/ HandleStraggler \/ HandleStartTurnBusy \/ HandleInterruptNoTurn
             \/ HandleStrayExit \/ ClientStartsTurn \/ ClientInterrupts \/ SessionStarts
  <2>1. task' = task /\ turn' = turn
    BY <1>5 DEF HandleDeclaration, HandleStraggler, HandleStartTurnBusy, HandleInterruptNoTurn,
       HandleStrayExit, ClientStartsTurn, ClientInterrupts, SessionStarts
  <2> QED BY <1>2, <2>1
<1>6. CASE HandleStartTurn
  BY <1>2, <1>6, StartOutcome
<1>7. CASE HandleInterrupt \/ SessionStops
  BY <1>7 DEF HandleInterrupt, SessionStops
<1>8. CASE HandleTurnResult \/ HandleTurnDown
  <2>1. /\ 1 \in 1..Len(mailbox) /\ m = mailbox[1] /\ m.op \in {"result", "down"} /\ m.turn = turn
        /\ turn' = NoTurn /\ task' = task
    BY <1>1, <1>8, ReceiveFacts, ReceiveRest DEF HandleTurnResult, HandleTurnDown
  <2>2. task = NoTask
    BY <1>1, <2>1 DEF TaskIsTurns
  <2> QED BY <2>1, <2>2
<1>9. CASE TaskOpensStream \/ TaskRecords
  <2>1. task # NoTask /\ turn' = turn
    BY <1>9, NoTaskIsIdle DEF TaskOpensStream, TaskRecords
  <2>2. task'.turn = task.turn /\ task'.ran = task.ran
    BY <1>9, <2>1, TurnHasNoTask DEF TaskOpensStream, TaskRecords, LiveTask
  <2> QED BY <1>3, <2>1, <2>2
<1>10. CASE TaskReturns \/ TaskCrashes
  BY <1>10 DEF TaskReturns, TaskCrashes
<1>11. ASSUME NEW t \in Identity, NEW c \in Calls, RunnerCommits(t, c)
       PROVE  Continues \/ (task' = NoTask /\ turn' \in {turn, NoTurn})
  BY <1>2, <1>11 DEF RunnerCommits
<1>12. ASSUME NEW t \in Identity, RunnerCompletes(t) \/ StreamFails(t) \/ StreamIdleCut(t)
       PROVE  Continues \/ (task' = NoTask /\ turn' \in {turn, NoTurn})
  <2>1. turn' = turn
    BY <1>12 DEF RunnerCompletes, StreamFails, StreamIdleCut
  <2>2. CASE task' = task
    BY <1>2, <2>1, <2>2
  <2>3. CASE task' # task
    <3>1. Streaming(t) /\ runner[t].st # "off"
      BY <1>12, <2>3 DEF RunnerCompletes, StreamFails, StreamIdleCut
    <3>2. task # NoTask /\ task \in LiveTask /\ t = turn
      BY <3>1, NoTaskIsIdle, TurnHasNoTask DEF Streaming
    <3>3. /\ task'.turn = task.turn
          /\ task'.ran = task.ran \/ task'.ran = task.ran \cup ToSet(runner[t].got)
      BY <1>12, <2>3, <3>2 DEF RunnerCompletes, StreamFails, StreamIdleCut, LiveTask
    <3> QED BY <1>3, <2>1, <3>1, <3>2, <3>3
  <2> QED BY <2>2, <2>3
<1> QED BY <1>4, <1>5, <1>6, <1>7, <1>8, <1>9, <1>10, <1>11, <1>12 DEF Next, Handle, TaskStep

LEMMA BegunStays ==
  ASSUME TypeOK, Next, NEW t \in Identity, Begun(t)
  PROVE  Begun(t)'
<1> USE DEF sessionVars
<1>1. /\ incarnation \in Nat /\ turn_generation \in Nat /\ t.inc \in Nat /\ t.gen \in Nat
  BY SessionAssumption DEF TypeOK, Identity
<1>2. CASE incarnation' = incarnation /\ turn_generation' \in {turn_generation, turn_generation + 1}
  BY <1>1, <1>2 DEF Begun
<1>3. CASE SessionStarts
  BY <1>1, <1>3 DEF SessionStarts, Begun
<1>4. Handle => incarnation' = incarnation /\ turn_generation' \in {turn_generation, turn_generation + 1}
  BY DEF Handle, HandleRecord, HandleDeclaration, HandleStraggler, HandleStartTurn,
       HandleStartTurnBusy, HandleInterrupt, HandleInterruptNoTurn, HandleTurnResult,
       HandleTurnDown, HandleStrayExit
<1>5. Next /\ ~Handle /\ ~SessionStarts =>
        incarnation' = incarnation /\ turn_generation' \in {turn_generation, turn_generation + 1}
  BY DEF Next, TaskStep, TaskOpensStream, TaskRecords, TaskReturns, TaskCrashes, RunnerCommits,
       RunnerCompletes, StreamFails, StreamIdleCut, ClientStartsTurn, ClientInterrupts, SessionStops
<1> QED BY <1>2, <1>3, <1>4, <1>5

LEMMA NextIsNew ==
  ASSUME LedgerInv
  PROVE  ~Begun(NextIdentity)
<1>1. incarnation \in Nat /\ turn_generation \in Nat
  BY SessionAssumption DEF LedgerInv, EvidenceInv, TypeOK
<1> QED BY <1>1 DEF Begun, NextIdentity

LEMMA OwningStep ==
  ASSUME LedgerInv, EvidenceInv', Next
  PROVE  Owning'
<1>1. TypeOK /\ TypeOK' /\ TurnsBegun /\ TaskIsTurns /\ RecordsOwned
  BY DEF LedgerInv, EvidenceInv, Owning
<1>2. PICK s \in {0, 1} : Moved(s)
  BY <1>1, MailMoves
<1>3. /\ \A i \in 1..Len(mailbox) : mailbox[i] \in Message
      /\ \A i \in 1..Len(mailbox) : mailbox[i].op = "record" => mailbox[i].turn \in Identity
      /\ \A i \in 1..Len(mailbox) : mailbox[i].turn \in Identity \cup {NoTurn}
  <2>1. \A i \in 1..Len(mailbox) : mailbox[i] \in Message
    BY <1>1 DEF TypeOK
  <2> QED BY <2>1 DEF Message
<1>4. Begins => ~Begun(turn') /\ Begun(turn)'
  <2> SUFFICES ASSUME Begins PROVE ~Begun(turn') /\ Begun(turn)'
    OBVIOUS
  <2>1. turn' = NextIdentity /\ incarnation' = incarnation /\ turn_generation' = turn_generation + 1
    BY DEF Begins, HandleStartTurn
  <2>2. incarnation \in Nat /\ turn_generation \in Nat
    BY <1>1, SessionAssumption DEF TypeOK
  <2> QED BY <2>1, <2>2 DEF Begun, NextIdentity
<1>5. TurnsBegun'
  <2>1. turn' # NoTurn => Begun(turn)'
    <3>1. CASE Begins
      BY <1>4, <3>1
    <3>2. CASE turn' \in {turn, NoTurn}
      BY <1>1, <3>2, BegunStays DEF TurnsBegun, TypeOK, Begun
    <3> QED BY <3>1, <3>2, TaskMoves DEF Continues
  <2>2. ASSUME NEW i \in 1..Len(mailbox'), mailbox'[i].turn # NoTurn
        PROVE  Begun(mailbox[i].turn)'
    <3>0. PICK t : t = mailbox'[i].turn
      OBVIOUS
    <3>1. t \in Identity
      <4>1. mailbox'[i] \in Message
        BY <1>1 DEF TypeOK
      <4> QED BY <2>2, <3>0, <4>1 DEF Message
    <3>2. Begun(t)
      <4>1. CASE i + s \in 1..Len(mailbox) /\ mailbox'[i] = mailbox[i + s]
        BY <1>1, <2>2, <3>0, <4>1 DEF TurnsBegun
      <4>2. CASE Fresh(mailbox'[i])
        <5>1. t = turn \/ runner[t].st # "off"
          BY <2>2, <3>0, <4>2, TurnHasNoTask DEF Fresh
        <5> QED BY <1>1, <2>2, <3>0, <3>1, <5>1 DEF TurnsBegun
      <4> QED BY <1>2, <4>1, <4>2 DEF Moved
    <3>3. Begun(t)'
      BY <1>1, <3>1, <3>2, BegunStays
    <3> QED BY <3>0, <3>3 DEF Begun
  <2>3. ASSUME NEW c \in Calls, owner'[c] # NoTurn
        PROVE  Begun(owner[c])'
    <3>0. PICK t : t = owner'[c]
      OBVIOUS
    <3>1. t \in Identity
      BY <1>1, <2>3, <3>0 DEF TypeOK
    <3>2. Begun(t)
      BY <1>1, <2>3, <3>0, <3>1, OwnerMoves DEF TurnsBegun
    <3>3. Begun(t)'
      BY <1>1, <3>1, <3>2, BegunStays
    <3> QED BY <3>0, <3>3 DEF Begun
  <2>4. ASSUME NEW t \in Identity, runner'[t].st # "off"
        PROVE  Begun(t)'
    <3>1. Begun(t)
      BY <1>1, <2>4, RunnerMoves, TurnHasNoTask DEF TurnsBegun
    <3> QED BY <1>1, <3>1, BegunStays
  <2> QED BY <2>1, <2>2, <2>3, <2>4 DEF TurnsBegun
<1>6. TaskIsTurns'
  <2>1. CASE task' = NoTask
    BY <2>1 DEF TaskIsTurns
  <2>2. CASE Continues
    <3>1. task # NoTask /\ task' # NoTask /\ task'.turn = turn /\ turn' = turn /\ turn \in Identity
      BY <2>2, TurnHasNoTask DEF Continues
    <3>2. ASSUME NEW i \in 1..Len(mailbox'), mailbox'[i].op \in {"result", "down"}
          PROVE  mailbox'[i].turn # turn
      BY <1>1, <1>2, <3>1, <3>2 DEF Moved, Fresh, TaskIsTurns
    <3>3. ASSUME NEW c \in task'.ran
          PROVE  owner'[c] = turn
      <4>1. c \in Calls /\ owner[c] = turn
        <5>1. CASE c \in task.ran
          BY <1>1, <3>1, <5>1, TurnHasNoTask DEF TaskIsTurns
        <5>2. CASE c \in ToSet(runner[turn].got) /\ runner[turn].st # "off"
          <6>1. runner[turn].got \in Seq(Calls)
            BY <1>1, <3>1, RunnerType DEF TypeOK
          <6>2. PICK i \in 1..Len(runner[turn].got) : c = runner[turn].got[i]
            BY <5>2, <6>1 DEF ToSet
          <6> QED BY <3>1, <5>2, <6>1, <6>2 DEF LedgerInv, Fitting, StreamFits
        <5> QED BY <2>2, <3>3, <5>1, <5>2 DEF Continues
      <4> QED BY <1>1, <3>1, <4>1, OwnerMoves, NoTurnIsNoIdentity
    <3> QED BY <3>1, <3>2, <3>3 DEF TaskIsTurns
  <2>3. CASE Begins
    <3>1. task'.turn = turn' /\ task'.ran = {}
      BY <2>3 DEF Begins, NoTask
    <3>2. \A i \in 1..Len(mailbox') : mailbox'[i].turn # turn' \/ mailbox'[i].op \notin {"result", "down"}
      <4>1. Receive("start_turn") /\ turn' \in Identity
        BY <2>3 DEF Begins, HandleStartTurn
      <4>2. \A i \in 1..Len(mailbox') : i + 1 \in 1..Len(mailbox) /\ mailbox'[i] = mailbox[i + 1]
        BY <1>1, <4>1, ReceiveRest
      <4> QED BY <1>1, <1>4, <2>3, <4>1, <4>2, NoTurnIsNoIdentity DEF TurnsBegun
    <3> QED BY <3>1, <3>2 DEF TaskIsTurns
  <2> QED BY <2>1, <2>2, <2>3, TaskMoves
<1>7. RecordsOwned'
  <2>1. SUFFICES ASSUME NEW i \in 1..Len(mailbox'), mailbox'[i].op = "record",
                        mailbox'[i].type \in {"tool_call", "tool_result"}
                 PROVE  mailbox'[i].call \in Calls /\ owner'[mailbox'[i].call] = mailbox'[i].turn
    BY DEF RecordsOwned
  <2>2. mailbox'[i].call \in Calls /\ owner[mailbox'[i].call] = mailbox'[i].turn
        /\ mailbox'[i].turn \in Identity
    <3>1. CASE i + s \in 1..Len(mailbox) /\ mailbox'[i] = mailbox[i + s]
      BY <1>1, <1>3, <2>1, <3>1 DEF RecordsOwned
    <3>2. CASE Fresh(mailbox'[i])
      <4>1. /\ task # NoTask /\ mailbox'[i].turn = turn /\ turn \in Identity
            /\ task.at \in {"call", "result", "fallback"} /\ mailbox'[i].call = task.todo[1]
            /\ 1 \in 1..Len(task.todo) /\ task.todo \in Seq(Calls)
        BY <2>1, <3>2, TurnHasNoTask DEF Fresh
      <4>2. task.todo[1] \in task.ran /\ task.todo[1] \in Calls
        BY <4>1 DEF LedgerInv, Fitting, TodoFits
      <4> QED BY <1>1, <4>1, <4>2 DEF TaskIsTurns
    <3> QED BY <1>2, <3>1, <3>2 DEF Moved
  <2> QED BY <1>1, <2>2, OwnerMoves, NoTurnIsNoIdentity
<1> QED BY <1>5, <1>6, <1>7 DEF Owning

-----------------------------------------------------------------------------
(* What a record writes, and what the Log has a place for. *)

\* A record of the mailbox was there before.
Carried(s) ==
  \A i \in 1..Len(mailbox') : mailbox'[i].op = "record" =>
    i + s \in 1..Len(mailbox) /\ mailbox'[i] = mailbox[i + s]

LEMMA CarriedCases ==
  ASSUME TypeOK
  PROVE  /\ mailbox' = mailbox => Carried(0)
         /\ mailbox' = <<>> => Carried(0)
         /\ \A op : Receive(op) => Carried(1)
         /\ \A msg : Send(msg) /\ msg.op # "record" => Carried(0)
<1>1. mailbox \in Seq(Message)
  BY DEF TypeOK
<1>2. \A i \in 1..Len(mailbox) : i + 0 = i
  BY <1>1
<1>3. mailbox' = mailbox => Carried(0)
  BY <1>2 DEF Carried
<1>4. mailbox' = <<>> => Carried(0)
  BY DEF Carried
<1>5. ASSUME NEW op, Receive(op) PROVE Carried(1)
  BY <1>5, ReceiveRest DEF Carried
<1>6. ASSUME NEW msg, Send(msg), msg.op # "record" PROVE Carried(0)
  BY <1>2, <1>6, SendRest DEF Carried
<1> QED BY <1>3, <1>4, <1>5, <1>6

\* The event a record/2 call asks for.
Recorded(e) ==
  /\ e \in PlannedEvent
  /\ e.type = m.type /\ e.call = m.call
  /\ e.via = IF m.turn = turn THEN "record" ELSE "late"

LEMMA RecordOutcome ==
  ASSUME TypeOK, HandleRecord
  PROVE  \E e : /\ Recorded(e)
                /\ \/ /\ AppendFirst(<<e>>, 1)
                      /\ committed_calls' = IF m.type = "tool_call" THEN Forget(committed_calls, m.call)
                                                                    ELSE committed_calls
                      /\ ReplyToTask(TRUE)
                   \/ /\ log' = log
                      /\ UNCHANGED committed_calls
                      /\ ReplyToTask(FALSE)
<1>1. m \in Message /\ m.op = "record"
  BY ReceiveFacts DEF HandleRecord
<1>2. m.type \in EventType /\ m.call \in Calls \cup {NoCall}
  BY <1>1 DEF Message
<1>3. PICK e : e = Planned(m.type, m.call, IF FromRunningTurn THEN "record" ELSE "late")
  OBVIOUS
<1>4. Recorded(e)
  BY <1>2, <1>3 DEF Recorded, Planned, PlannedEvent, Via, FromRunningTurn
<1>5. <<e>> \in Seq(PlannedEvent) /\ Len(<<e>>) = 1
  BY <1>4 DEF Recorded
<1>6. CASE /\ AppendAll(<<e>>)
           /\ committed_calls' = IF m.type = "tool_call" THEN Forget(committed_calls, m.call)
                                                         ELSE committed_calls
           /\ ReplyToTask(TRUE)
  <2>1. AppendFirst(<<e>>, 1)
    BY <1>5, <1>6 DEF AppendAll
  <2> QED BY <1>4, <1>6, <2>1
<1>7. CASE AppendFails(<<e>>, 0) /\ UNCHANGED committed_calls /\ ReplyToTask(FALSE)
  <2>1. PICK plan : plan = <<e>>
    OBVIOUS
  <2>2. log' = log \o [i \in 1..0 |-> Stamped(plan[i], seq + i - 1)]
    BY <1>7, <2>1 DEF AppendFails, AppendFirst
  <2>3. [i \in 1..0 |-> Stamped(plan[i], seq + i - 1)] = <<>>
    OBVIOUS
  <2>4. log \in Seq(Event) /\ log' = log \o <<>>
    BY <2>2, <2>3 DEF TypeOK
  <2>5. log' = log
    BY ONLY <2>4
  <2> QED BY <1>4, <1>7, <2>5
<1> QED BY <1>3, <1>6, <1>7 DEF HandleRecord

\* A step that leaves the running Turn alone, and writes at most calls of others.
Aloof(s, C) ==
  /\ turn' = turn /\ task' = task /\ owner' = owner
  /\ \A t \in Identity : runner'[t].got = runner[t].got /\ (runner'[t].st # "off" <=> runner[t].st # "off")
  /\ Carried(s)
  /\ \A c \in C : owner[c] # NoTurn /\ owner[c] # turn
  /\ Known(log') \subseteq Known(log) \cup C
  /\ Pending(log) \ C \subseteq Pending(log')
  /\ LogFits'

LEMMA AloofFits ==
  ASSUME LedgerInv, EvidenceInv', NEW s \in {0, 1}, NEW C \in SUBSET Calls, Aloof(s, C)
  PROVE  Fitting'
<1>1. TypeOK /\ TypeOK' /\ TaskIsTurns /\ RecordsOwned /\ RecordsFit /\ TodoFits /\ StreamFits /\ KnownFits
  BY DEF LedgerInv, EvidenceInv, Owning, Fitting
<1>2. /\ turn' = turn /\ task' = task /\ owner' = owner
      /\ \A t \in Identity : runner'[t].got = runner[t].got /\ (runner'[t].st # "off" <=> runner[t].st # "off")
      /\ \A c \in C : owner[c] # NoTurn /\ owner[c] # turn
      /\ Known(log') \subseteq Known(log) \cup C
      /\ Pending(log) \ C \subseteq Pending(log')
  BY DEF Aloof
<1>3. RecordsFit'
  <2>1. ASSUME NEW i \in 1..Len(mailbox'), Recording(i)'
        PROVE  /\ i + s \in 1..Len(mailbox) /\ mailbox'[i] = mailbox[i + s] /\ Recording(i + s)
    BY <1>2, <2>1 DEF Aloof, Carried, Recording
  <2>2. ASSUME NEW i \in 1..Len(mailbox'), Recording(i)'
        PROVE  /\ mailbox'[i].type = "tool_call" => mailbox'[i].call \notin Known(log')
               /\ mailbox'[i].type = "tool_result" => mailbox'[i].call \in Pending(log')
               /\ task' # NoTask => task'.waiting /\ Awaited(mailbox[i])'
    <3>1. i + s \in 1..Len(mailbox) /\ mailbox'[i] = mailbox[i + s] /\ Recording(i + s)
      BY <2>1, <2>2
    <3>2. PICK msg : msg = mailbox[i + s]
      OBVIOUS
    <3>3. msg.type \in {"tool_call", "tool_result"} => msg.call \in Calls /\ owner[msg.call] = turn
      BY <1>1, <3>1, <3>2 DEF RecordsOwned, Recording
    <3>4. /\ msg.type = "tool_call" => msg.call \notin Known(log)
          /\ msg.type = "tool_result" => msg.call \in Pending(log)
          /\ task # NoTask => task.waiting /\ Awaited(msg)
      BY <1>1, <3>1, <3>2 DEF RecordsFit
    <3>5. task' # NoTask => task'.waiting /\ Awaited(mailbox[i])'
      BY <1>2, <3>1, <3>2, <3>4 DEF Awaited
    <3> QED BY <1>2, <3>1, <3>2, <3>3, <3>4, <3>5
  <2>3. ASSUME NEW i \in 1..Len(mailbox'), Recording(i)', NEW j \in 1..Len(mailbox'), Recording(j)'
        PROVE  i = j
    <3>1. i + s \in 1..Len(mailbox) /\ Recording(i + s) /\ j + s \in 1..Len(mailbox) /\ Recording(j + s)
      BY <2>1, <2>3
    <3>2. i + s = j + s
      BY <1>1, <3>1 DEF RecordsFit
    <3> QED BY <3>2
  <2> QED BY <2>2, <2>3 DEF RecordsFit
<1>4. ASSUME task # NoTask
      PROVE  /\ task.todo \in Seq(Calls) /\ turn \in Identity /\ turn # NoTurn
             /\ task.at \in {"call", "result", "fallback"} => 1 \in 1..Len(task.todo)
  BY <1>4, TurnHasNoTask
<1>5. TodoFits'
  <2>1. SUFFICES ASSUME task.at \in {"call", "result", "fallback"}
                 PROVE  TodoFits'
    BY <1>2 DEF TodoFits
  <2>2. task # NoTask
    BY <2>1, NoTaskIsIdle
  <2>3. \A i \in 1..Len(task.todo) : task.todo[i] \in Calls /\ owner[task.todo[i]] = turn
    BY <1>1, <1>4, <2>1, <2>2 DEF TodoFits, TaskIsTurns
  <2>4. \A i \in 1..Len(task.todo) : task.todo[i] \notin C
    BY <1>2, <2>3
  <2>5. \A i \in 1..Len(task.todo) : task.todo[i] \in Known(log') => i = 1 /\ task.at # "call"
    BY <1>1, <1>2, <2>1, <2>4 DEF TodoFits
  <2>6. task.at # "call" => task.todo[1] \in Pending(log')
    BY <1>1, <1>2, <1>4, <2>1, <2>2, <2>4 DEF TodoFits
  <2> QED BY <1>1, <1>2, <2>1, <2>5, <2>6 DEF TodoFits
<1>6. StreamFits'
  BY <1>1, <1>2, <1>4 DEF StreamFits
<1>7. KnownFits'
  BY <1>1, <1>2 DEF KnownFits
<1> QED BY <1>3, <1>5, <1>6, <1>7 DEF Fitting, Aloof

\* Steps that write nothing and concern no Turn.
LEMMA QuietFits ==
  ASSUME LedgerInv, EvidenceInv',
         \/ HandleDeclaration \/ HandleStartTurnBusy \/ HandleStrayExit
         \/ ClientStartsTurn \/ ClientInterrupts \/ SessionStarts
  PROVE  Fitting'
<1> USE DEF sessionVars, historyVars
<1>1. TypeOK /\ LogFits
  BY DEF LedgerInv, EvidenceInv, Fitting
<1>2. turn' = turn /\ task' = task /\ owner' = owner /\ log' = log /\ (ReplyToRunner \/ runner' = runner)
  BY DEF HandleDeclaration, HandleStartTurnBusy, HandleStrayExit, ClientStartsTurn, ClientInterrupts, SessionStarts
<1>3. Carried(0) \/ Carried(1)
  <2>1. CASE HandleDeclaration \/ HandleStartTurnBusy \/ HandleStrayExit
    BY <1>1, <2>1, CarriedCases DEF HandleDeclaration, HandleStartTurnBusy, HandleStrayExit
  <2>2. CASE ClientStartsTurn \/ ClientInterrupts
    <3>1. \A op \in {"start_turn", "interrupt"} : Request(op, NoTurn, "none", NoCall).op # "record"
      BY DEF Request
    <3> QED BY <1>1, <2>2, <3>1, CarriedCases DEF ClientStartsTurn, ClientInterrupts
  <2>3. CASE SessionStarts
    BY <1>1, <2>3, CarriedCases DEF SessionStarts
  <2> QED BY <2>1, <2>2, <2>3
<1>4. \A t \in Identity : runner'[t].got = runner[t].got /\ (runner'[t].st # "off" <=> runner[t].st # "off")
  BY <1>1, <1>2, ReplyKeepsRunner
<1>5. LogFits'
  BY <1>1, <1>2 DEF LogFits, Repeats, AnswersNothing
<1>6. Aloof(0, {}) \/ Aloof(1, {})
  BY <1>2, <1>3, <1>4, <1>5 DEF Aloof
<1> QED BY <1>6, AloofFits

LEMMA LateRecordFits ==
  ASSUME LedgerInv, EvidenceInv', HandleRecord, m.turn # turn
  PROVE  Fitting'
<1>1. TypeOK /\ LogFits /\ RecordsOwned
  BY DEF LedgerInv, EvidenceInv, Fitting, Owning
<1>2. /\ 1 \in 1..Len(mailbox) /\ m = mailbox[1] /\ m \in Message /\ m.op = "record"
      /\ Carried(1)
  BY <1>1, ReceiveFacts, ReceiveRest, CarriedCases DEF HandleRecord
<1>3. m.turn \in Identity /\ m.type \in EventType
  BY <1>2 DEF Message
<1>4. turn' = turn /\ owner' = owner /\ runner' = runner
  BY DEF HandleRecord, historyVars
<1>5. task' = task
  <2>1. ReplyToTask(TRUE) \/ ReplyToTask(FALSE)
    BY DEF HandleRecord
  <2>2. task.turn # m.turn
    <3>1. CASE task = NoTask
      BY <1>3, <3>1, NoTaskIsIdle, NoTurnIsNoIdentity
    <3>2. CASE task # NoTask
      BY <3>2, TurnHasNoTask
    <3> QED BY <3>1, <3>2
  <2> QED BY <2>1, <2>2 DEF ReplyToTask
<1>6. PICK e : /\ Recorded(e)
               /\ AppendFirst(<<e>>, 1) \/ log' = log
  BY <1>1, RecordOutcome
<1>7. e \in PlannedEvent /\ e.type = m.type /\ e.call = m.call /\ e.via = "late"
  BY <1>6 DEF Recorded
<1>8. CASE log' = log
  <2>1. LogFits'
    BY <1>1, <1>8 DEF LogFits, Repeats, AnswersNothing
  <2>2. Aloof(1, {})
    BY <1>2, <1>4, <1>5, <1>8, <2>1 DEF Aloof
  <2> QED BY <2>2, AloofFits
<1>9. CASE AppendFirst(<<e>>, 1)
  <2>1. LogFits'
    BY <1>1, <1>7, <1>9, LateWritten
  <2>2. CASE m.type \in {"tool_call", "tool_result"}
    <3>1. m.call \in Calls /\ owner[m.call] = m.turn
      BY <1>1, <1>2, <2>2 DEF RecordsOwned
    <3>2. Known(log') \subseteq Known(log) \cup {m.call} /\ Pending(log) \ {m.call} \subseteq Pending(log')
      BY <1>1, <1>7, <1>9, <2>2, <3>1, LateWritten
    <3>3. Aloof(1, {m.call})
      BY <1>2, <1>3, <1>4, <1>5, <2>1, <3>1, <3>2, NoTurnIsNoIdentity DEF Aloof
    <3> QED BY <3>1, <3>3, AloofFits
  <2>3. CASE m.type \notin {"tool_call", "tool_result"}
    <3>1. Known(log') = Known(log) /\ Pending(log') = Pending(log)
      BY <1>1, <1>7, <1>9, <2>3, LateWritten
    <3>2. Aloof(1, {})
      BY <1>2, <1>4, <1>5, <2>1, <3>1 DEF Aloof
    <3> QED BY <3>2, AloofFits
  <2> QED BY <2>2, <2>3
<1> QED BY <1>6, <1>8, <1>9

\* A straggler's call is written unless the Log knows it or fails.
LEMMA StragglerOutcome ==
  ASSUME LedgerInv, HandleStraggler
  PROVE  /\ m.call \in Calls /\ owner[m.call] = m.turn /\ m.turn \in Identity /\ m.turn # turn
         /\ LogFits'
         /\ \/ log' = log
            \/ m.call \notin Known(log) /\ Wrote({m.call}, {})
<1>1. TypeOK /\ LogFits /\ DeclarationsOwned
  BY DEF LedgerInv, EvidenceInv, Fitting
<1>2. 1 \in 1..Len(mailbox) /\ m = mailbox[1] /\ m \in Message /\ m.op = "declare" /\ m.turn # turn
  BY <1>1, ReceiveFacts, ReceiveRest DEF HandleStraggler, FromRunningTurn
<1>3. m.turn \in Identity /\ m.call \in Calls /\ owner[m.call] = m.turn
  BY <1>1, <1>2 DEF Message, DeclarationsOwned
<1>4. PICK via \in {"declared_without_turn", "stale_turn_generation"} :
        LET plan == IF m.call \in Known(log) THEN <<>> ELSE <<Planned("tool_call", m.call, via)>>
        IN AppendAll(plan) \/ AppendFails(plan, 0)
  BY DEF HandleStraggler
<1>5. PICK e : e = Planned("tool_call", m.call, via)
  OBVIOUS
<1>6. e \in PlannedEvent /\ e.type = "tool_call" /\ e.call = m.call /\ e.via # "late"
  BY <1>3, <1>5 DEF Planned, PlannedEvent, Via, EventType
<1>7. ASSUME NEW plan, AppendFirst(plan, 0)
      PROVE  log' = log /\ LogFits'
  BY <1>1, <1>7, NothingWritten DEF Wrote
<1>8. Len(<<>>) = 0 /\ Len(<<e>>) = 1
  OBVIOUS
<1>9. CASE m.call \in Known(log)
  <2>1. AppendFirst(<<>>, 0)
    BY <1>4, <1>8, <1>9 DEF AppendAll, AppendFails
  <2> QED BY <1>2, <1>3, <1>7, <2>1
<1>10. CASE m.call \notin Known(log)
  <2>1. AppendAll(<<e>>) \/ AppendFails(<<e>>, 0)
    BY <1>4, <1>5, <1>10
  <2>2. AppendFirst(<<e>>, 1) \/ AppendFirst(<<e>>, 0)
    BY <1>8, <2>1 DEF AppendAll, AppendFails
  <2>3. CASE AppendFirst(<<e>>, 1)
    <3>1. Wrote(IF e.type = "tool_call" THEN {e.call} ELSE {},
                IF e.type = "tool_result" THEN {e.call} ELSE {})
      BY <1>1, <1>3, <1>6, <1>10, <2>3, OneWritten
    <3>2. Wrote({m.call}, {})
      BY <1>6, <3>1
    <3> QED BY <1>2, <1>3, <1>10, <3>2 DEF Wrote
  <2> QED BY <1>2, <1>3, <1>7, <2>2, <2>3
<1> QED BY <1>9, <1>10

LEMMA StragglerFits ==
  ASSUME LedgerInv, EvidenceInv', HandleStraggler
  PROVE  Fitting'
<1>1. TypeOK
  BY DEF LedgerInv, EvidenceInv
<1>2. turn' = turn /\ task' = task /\ owner' = owner /\ Carried(1)
  BY <1>1, CarriedCases DEF HandleStraggler
<1>3. \A t \in Identity : runner'[t].got = runner[t].got /\ (runner'[t].st # "off" <=> runner[t].st # "off")
  BY <1>1, ReplyKeepsRunner DEF HandleStraggler
<1>4. Aloof(1, {m.call}) /\ m.call \in Calls
  BY <1>2, <1>3, StragglerOutcome, NoTurnIsNoIdentity DEF Aloof, Wrote
<1> QED BY <1>4, AloofFits

\* The running Turn has no record on the way unless its Task waits for it.
LEMMA NoneRecording ==
  ASSUME LedgerInv, task # NoTask,
         ~task.waiting \/ task.at \notin {"call", "result", "fallback", "message"}
  PROVE  \A i \in 1..Len(mailbox) : ~Recording(i)
BY DEF LedgerInv, Fitting, RecordsFit, Awaited

LEMMA CarriesNone ==
  ASSUME NEW s \in {0, 1}, Carried(s), turn' = turn, \A i \in 1..Len(mailbox) : ~Recording(i)
  PROVE  RecordsFit'
<1>1. ASSUME NEW i \in 1..Len(mailbox'), Recording(i)' PROVE FALSE
  <2>1. i + s \in 1..Len(mailbox) /\ Recording(i + s)
    BY <1>1 DEF Carried, Recording
  <2> QED BY <2>1
<1> QED BY <1>1 DEF RecordsFit

\* The Turn's own record: the Log has a place for it, and its Task waits for it.
LEMMA OwnRecord ==
  ASSUME LedgerInv, HandleRecord, m.turn = turn
  PROVE  /\ turn \in Identity /\ turn # NoTurn
         /\ m.type = "tool_call" => m.call \in Calls \ Known(log)
         /\ m.type = "tool_result" => m.call \in Pending(log)
         /\ m.type \in {"tool_call", "tool_result"} => m.call \in Calls /\ owner[m.call] = turn
         /\ task # NoTask => task.waiting /\ Awaited(m)
         /\ RecordsFit'
<1>1. TypeOK /\ RecordsOwned /\ RecordsFit
  BY DEF LedgerInv, EvidenceInv, Owning, Fitting
<1>2. /\ 1 \in 1..Len(mailbox) /\ m = mailbox[1] /\ m \in Message /\ m.op = "record"
      /\ \A i \in 1..Len(mailbox') : i + 1 \in 1..Len(mailbox) /\ mailbox'[i] = mailbox[i + 1]
  BY <1>1, ReceiveFacts, ReceiveRest DEF HandleRecord
<1>3. turn \in Identity
  BY <1>2 DEF Message
<1>4. Recording(1)
  BY <1>2 DEF Recording
<1>5. m.type \in {"tool_call", "tool_result"} => m.call \in Calls /\ owner[m.call] = turn
  BY <1>1, <1>2 DEF RecordsOwned
<1>6. /\ m.type = "tool_call" => m.call \notin Known(log)
      /\ m.type = "tool_result" => m.call \in Pending(log)
      /\ \A j \in 1..Len(mailbox) : Recording(j) => 1 = j
      /\ task # NoTask => task.waiting /\ Awaited(m)
  BY <1>1, <1>2, <1>4 DEF RecordsFit
<1>7. turn' = turn
  BY DEF HandleRecord
<1>8. ASSUME NEW i \in 1..Len(mailbox'), Recording(i)' PROVE FALSE
  <2>1. Recording(i + 1) /\ i + 1 \in 1..Len(mailbox)
    BY <1>2, <1>7, <1>8 DEF Recording
  <2>2. 1 = i + 1
    BY <1>6, <2>1
  <2> QED BY <2>2
<1>9. RecordsFit'
  BY <1>8 DEF RecordsFit
<1> QED BY <1>3, <1>5, <1>6, <1>9, NoTurnIsNoIdentity

\* What is left of the batch is as fit as the batch was.
LEMMA NextCallFits ==
  ASSUME LedgerInv, task # NoTask, task.at \in {"call", "result", "fallback"}, task' = NextCall(task),
         Known(log') \subseteq Known(log) \cup {task.todo[1]}
  PROVE  TodoFits'
<1>1. TodoFits
  BY DEF LedgerInv, Fitting
<1>2. task \in LiveTask /\ task.todo \in Seq(Calls) /\ task.todo # <<>> /\ Len(task.todo) \in Nat \ {0}
  BY TurnHasNoTask
<1>3. /\ Len(Tail(task.todo)) = Len(task.todo) - 1
      /\ \A i \in 1..Len(Tail(task.todo)) : /\ Tail(task.todo)[i] = task.todo[i + 1]
                                            /\ i + 1 \in 1..Len(task.todo) /\ i + 1 # 1
  BY <1>2, HeadTailProperties
<1>4. 1 \in 1..Len(task.todo)
  BY <1>2
<1>5. task' = [task EXCEPT !.at = IF Len(task.todo) = 1 THEN "loop" ELSE "call",
                           !.todo = Tail(task.todo), !.waiting = FALSE]
  BY DEF NextCall
<1>6. task'.at \in {"loop", "call"} /\ task'.todo = Tail(task.todo) /\ task'.ran = task.ran
  BY <1>2, <1>5 DEF LiveTask
<1>7. \A i, j \in 1..Len(Tail(task.todo)) : task.todo[i + 1] = task.todo[j + 1] => i = j
  <2> SUFFICES ASSUME NEW i \in 1..Len(Tail(task.todo)), NEW j \in 1..Len(Tail(task.todo)),
                      task.todo[i + 1] = task.todo[j + 1]
               PROVE  i = j
    OBVIOUS
  <2>1. i + 1 = j + 1
    BY <1>1, <1>3 DEF TodoFits
  <2> QED BY <2>1
<1>8. \A i \in 1..Len(task.todo) : i # 1 => task.todo[i] # task.todo[1]
  BY <1>1, <1>4 DEF TodoFits
<1>9. \A i \in 1..Len(Tail(task.todo)) : task.todo[i + 1] \in task.ran /\ task.todo[i + 1] \notin Known(log')
  BY <1>1, <1>3, <1>8 DEF TodoFits
<1>10. PICK rest : rest = Tail(task.todo)
  OBVIOUS
<1>11. /\ \A i, j \in 1..Len(rest) : rest[i] = rest[j] => i = j
       /\ \A i \in 1..Len(rest) : rest[i] \in task.ran /\ rest[i] \notin Known(log')
  BY <1>3, <1>7, <1>9, <1>10
<1>12. task'.todo = rest
  BY <1>6, <1>10
<1> QED BY <1>6, <1>11, <1>12 DEF TodoFits

LEMMA OwnRecordFits ==
  ASSUME LedgerInv, EvidenceInv', HandleRecord, m.turn = turn
  PROVE  Fitting'
<1>1. TypeOK /\ LogFits /\ TodoFits /\ StreamFits /\ KnownFits
  BY DEF LedgerInv, EvidenceInv, Fitting
<1>2. turn' = turn /\ owner' = owner /\ runner' = runner
  BY DEF HandleRecord, historyVars
<1>3. /\ turn \in Identity /\ turn # NoTurn /\ RecordsFit'
      /\ m.type = "tool_call" => m.call \in Calls \ Known(log)
      /\ m.type = "tool_result" => m.call \in Pending(log)
      /\ m.type \in {"tool_call", "tool_result"} => m.call \in Calls /\ owner[m.call] = turn
      /\ task # NoTask => task.waiting /\ Awaited(m)
  BY OwnRecord
<1>4. PICK e : /\ Recorded(e)
               /\ \/ AppendFirst(<<e>>, 1) /\ ReplyToTask(TRUE)
                  \/ log' = log /\ ReplyToTask(FALSE)
  BY <1>1, RecordOutcome
<1>5. e \in PlannedEvent /\ e.type = m.type /\ e.call = m.call /\ e.via # "late"
  BY <1>4 DEF Recorded
<1>6. PICK ok \in BOOLEAN : \/ ok /\ AppendFirst(<<e>>, 1) /\ ReplyToTask(TRUE)
                            \/ ~ok /\ log' = log /\ ReplyToTask(FALSE)
  BY <1>4
\* What it does to the Log.
<1>7. /\ LogFits'
      /\ ok => /\ Known(log') = Known(log) \cup (IF m.type = "tool_call" THEN {m.call} ELSE {})
               /\ m.type = "tool_call" => m.call \in Pending(log')
      /\ ~ok => log' = log
  <2>1. CASE ok
    <3>1. Wrote(IF e.type = "tool_call" THEN {e.call} ELSE {},
                IF e.type = "tool_result" THEN {e.call} ELSE {})
      BY <1>1, <1>3, <1>5, <1>6, <2>1, OneWritten
    <3> QED BY <1>5, <2>1, <3>1 DEF Wrote
  <2>2. CASE ~ok
    <3>1. log' = log
      BY <1>6, <2>2
    <3>2. LogFits'
      BY <1>1, <3>1 DEF LogFits, Repeats, AnswersNothing
    <3> QED BY <2>2, <3>1, <3>2
  <2> QED BY <2>1, <2>2
<1>8. CASE task = NoTask
  <2>1. task' = NoTask
    BY <1>1, <1>3, <1>6, <1>8, ReplyKeepsTask
  <2>2. KnownFits'
    BY <1>1, <1>2, <1>3, <1>7, <2>1 DEF KnownFits
  <2> QED BY <1>3, <1>7, <2>1, <2>2, NoTaskIsIdle DEF Fitting, TodoFits, StreamFits
<1>9. CASE task # NoTask
  <2>1. /\ task \in LiveTask /\ task.turn = turn /\ task.todo \in Seq(Calls) /\ Awaited(m)
        /\ task.at \in {"call", "result", "fallback"} =>
             Head(task.todo) = task.todo[1] /\ 1 \in 1..Len(task.todo)
    BY <1>3, <1>9, TurnHasNoTask
  <2>2. Replied(ok)
    <3>1. ReplyToTask(TRUE) => Replied(TRUE)
      BY <1>3, <1>9, <2>1 DEF ReplyToTask
    <3>2. ReplyToTask(FALSE) => Replied(FALSE)
      BY <1>3, <1>9, <2>1 DEF ReplyToTask
    <3> QED BY <1>6, <3>1, <3>2
  <2>3. task'.ran = task.ran
    BY <1>1, <1>9, <2>2, RepliedKeeps
  <2>4. KnownFits'
    <3>1. m.type = "tool_call" => m.call \in task.ran
      BY <1>1, <2>1 DEF Awaited, TodoFits
    <3> QED BY <1>1, <1>2, <1>3, <1>7, <1>9, <2>3, <3>1 DEF KnownFits
  <2>5. StreamFits'
    <3>1. runner[turn].st = "off"
      BY <1>1, <1>9, <2>1 DEF StreamFits, Awaited
    <3> QED BY <1>2, <3>1 DEF StreamFits
  <2>6. TodoFits'
    <3>1. CASE task.at = "call" /\ ok /\ task' = GoTo(task, "result")
      <4>1. task'.at = "result" /\ task'.todo = task.todo
        BY <2>1, <3>1 DEF GoTo, LiveTask
      <4>2. m.type = "tool_call" /\ m.call = task.todo[1]
        BY <2>1, <3>1 DEF Awaited
      <4>3. \A i \in 1..Len(task.todo) : task.todo[i] \in Known(log') => i = 1
        BY <1>1, <1>7, <2>1, <3>1, <4>2 DEF TodoFits
      <4> QED BY <1>1, <1>7, <2>3, <3>1, <4>1, <4>2, <4>3 DEF TodoFits
    <3>2. CASE task.at \in {"call", "result", "fallback"} /\ task' = NextCall(task)
      <4>1. Known(log') \subseteq Known(log) \cup {task.todo[1]}
        BY <1>7, <2>1, <3>2 DEF Awaited
      <4> QED BY <1>9, <3>2, <4>1, NextCallFits
    <3>3. CASE task' = Abandon(task)
      BY <2>1, <3>3 DEF Abandon, LiveTask, TodoFits
    <3>4. CASE task.at = "result" /\ ~ok /\ task' = GoTo(task, "fallback")
      <4>1. task'.at = "fallback" /\ task'.todo = task.todo
        BY <2>1, <3>4 DEF GoTo, LiveTask
      <4> QED BY <1>1, <1>7, <2>3, <3>4, <4>1 DEF TodoFits
    <3>5. CASE task' = GoTo(task, "exit")
      BY <2>1, <3>5 DEF GoTo, LiveTask, TodoFits
    <3> QED BY <2>2, <3>1, <3>2, <3>3, <3>4, <3>5 DEF Replied
  <2> QED BY <1>3, <1>7, <2>4, <2>5, <2>6 DEF Fitting
<1> QED BY <1>8, <1>9

LEMMA SameLog ==
  ASSUME LogFits, log' = log
  PROVE  Wrote({}, {})
BY DEF Wrote, LogFits, LateEvents, Repeats, AnswersNothing

\* The steps that leave the Session with no Turn, and their part of the Log.
Rests ==
  \/ HandleInterrupt \/ HandleInterruptNoTurn \/ HandleTurnResult \/ HandleTurnDown \/ SessionStops
  \/ HandleStartTurn /\ ~Begins

LEMMA RestsOutcome ==
  ASSUME LedgerInv, Rests
  PROVE  /\ turn' = NoTurn /\ task' = NoTask /\ owner' = owner /\ ToSet(committed_calls') = {}
         /\ Settles
<1>1. TypeOK /\ LogFits /\ TaskIsTurns /\ HeldByRunningTurn
  BY DEF LedgerInv, EvidenceInv, Owning, Fitting
<1>2. log' = log => Settles
  BY <1>1, SameLog DEF Settles
<1>3. ToSet(<<>>) = {}
  BY DEF ToSet
<1>4. turn = NoTurn => task = NoTask /\ ToSet(committed_calls) = {}
  BY <1>1, TurnHasNoTask DEF HeldByRunningTurn
<1>5. CASE HandleInterrupt
  BY <1>1, <1>3, <1>5, InterruptSettles DEF HandleInterrupt
<1>6. CASE HandleInterruptNoTurn
  <2>1. turn' = turn /\ turn = NoTurn /\ task' = task /\ owner' = owner /\ committed_calls' = committed_calls
    BY <1>6 DEF HandleInterruptNoTurn, historyVars
  <2> QED BY <1>1, <1>4, <1>6, <2>1, IdleInterruptSettles
<1>7. CASE HandleTurnResult
  <2>1. /\ turn' = NoTurn /\ task' = task /\ owner' = owner /\ committed_calls' = <<>> /\ log' = log
        /\ Receive("result") /\ m.turn = turn
    BY <1>7 DEF HandleTurnResult
  <2>2. 1 \in 1..Len(mailbox) /\ m = mailbox[1] /\ m.op = "result"
    BY <1>1, <2>1, ReceiveFacts, ReceiveRest
  <2>3. task = NoTask
    BY <1>1, <2>1, <2>2 DEF TaskIsTurns
  <2> QED BY <1>2, <1>3, <2>1, <2>3
<1>8. CASE HandleTurnDown
  <2>1. /\ turn' = NoTurn /\ task' = task /\ owner' = owner /\ committed_calls' = <<>>
        /\ Receive("down") /\ m.turn = turn
    BY <1>8 DEF HandleTurnDown
  <2>2. 1 \in 1..Len(mailbox) /\ m = mailbox[1] /\ m.op = "down"
    BY <1>1, <2>1, ReceiveFacts, ReceiveRest
  <2>3. task = NoTask
    BY <1>1, <2>1, <2>2 DEF TaskIsTurns
  <2> QED BY <1>1, <1>3, <1>8, <2>1, <2>3, DownSettles
<1>9. CASE SessionStops
  BY <1>2, <1>3, <1>9 DEF SessionStops
<1>10. CASE HandleStartTurn /\ ~Begins
  <2>1. turn = NoTurn /\ owner' = owner /\ committed_calls' = <<>>
    BY <1>10 DEF HandleStartTurn
  <2>2. turn' = turn /\ task' = task
    BY <1>10, StartOutcome
  <2> QED BY <1>1, <1>3, <1>4, <1>10, <2>1, <2>2, StartSettles
<1> QED BY <1>5, <1>6, <1>7, <1>8, <1>9, <1>10 DEF Rests

LEMMA RestsFits ==
  ASSUME LedgerInv, EvidenceInv', Rests
  PROVE  Fitting'
<1>1. TypeOK /\ TypeOK' /\ KnownFits /\ HeldByRunningTurn
  BY DEF LedgerInv, EvidenceInv, Fitting
<1>2. turn' = NoTurn /\ task' = NoTask /\ owner' = owner /\ Settles
  BY RestsOutcome
<1>3. RecordsFit'
  <2> SUFFICES ASSUME NEW i \in 1..Len(mailbox'), Recording(i)' PROVE FALSE
    BY DEF RecordsFit
  <2>1. mailbox'[i] \in Message /\ mailbox'[i].op = "record" /\ mailbox'[i].turn = NoTurn
    BY <1>1, <1>2 DEF TypeOK, Recording
  <2> QED BY <2>1, NoTurnIsNoIdentity DEF Message
<1>4. KnownFits' /\ LogFits'
  <2>1. PICK D \in SUBSET (ToSet(committed_calls) \ Known(log)) :
          Known(log') = Known(log) \cup D /\ LogFits'
    BY <1>2 DEF Settles, Wrote
  <2> QED BY <1>1, <1>2, <2>1 DEF KnownFits, HeldByRunningTurn
<1>5. TodoFits' /\ StreamFits'
  BY <1>2, NoTaskIsIdle DEF TodoFits, StreamFits
<1> QED BY <1>3, <1>4, <1>5 DEF Fitting

LEMMA BeginsFits ==
  ASSUME LedgerInv, EvidenceInv', Begins
  PROVE  Fitting'
<1>1. TypeOK /\ LogFits /\ KnownFits /\ HeldByRunningTurn /\ TurnsBegun
  BY DEF LedgerInv, EvidenceInv, Owning, Fitting
<1>2. PICK t \in Identity : t = NextIdentity
  BY DEF Begins
<1>3. /\ turn = NoTurn /\ turn' = t /\ t # NoTurn /\ ~Begun(t)
      /\ task' = [NoTask EXCEPT !.turn = t, !.at = "loop"]
      /\ owner' = owner /\ runner' = runner /\ Receive("start_turn")
  BY <1>2, NextIsNew, NoTurnIsNoIdentity DEF Begins, HandleStartTurn
<1>4. ToSet(committed_calls) = {}
  BY <1>1, <1>3 DEF HeldByRunningTurn
<1>5. Known(log') = Known(log) /\ LogFits'
  <2>1. Settles
    BY <1>1, StartSettles DEF Begins
  <2> QED BY <1>4, <2>1 DEF Settles, Wrote
<1>6. RecordsFit'
  <2> SUFFICES ASSUME NEW i \in 1..Len(mailbox'), Recording(i)' PROVE FALSE
    BY DEF RecordsFit
  <2>1. i + 1 \in 1..Len(mailbox) /\ mailbox'[i] = mailbox[i + 1] /\ mailbox'[i].turn = t
    BY <1>1, <1>3, ReceiveRest DEF Recording
  <2> QED BY <1>1, <1>3, <2>1 DEF TurnsBegun
<1>7. TodoFits'
  BY <1>3 DEF NoTask, TodoFits
<1>8. StreamFits'
  BY <1>1, <1>3 DEF StreamFits, TurnsBegun
<1>9. KnownFits'
  BY <1>1, <1>3, <1>5 DEF KnownFits, TurnsBegun, Known
<1> QED BY <1>5, <1>6, <1>7, <1>8, <1>9 DEF Fitting

\* The steps of the Turn Task.
LEMMA TaskFits ==
  ASSUME LedgerInv, EvidenceInv', TaskStep \/ TaskCrashes
  PROVE  Fitting'
<1> USE DEF sessionVars, historyVars
<1>1. /\ TypeOK /\ TypeOK' /\ LogFits /\ TodoFits /\ StreamFits /\ KnownFits /\ RecordsFit
      /\ RecordsOwned /\ TaskIsTurns
  BY DEF LedgerInv, EvidenceInv, Owning, Fitting
<1>2. task # NoTask
  BY NoTaskIsIdle DEF TaskStep, TaskOpensStream, TaskRecords, TaskReturns, TaskCrashes
<1>3. /\ task \in LiveTask /\ task.turn = turn /\ turn \in Identity /\ task.todo \in Seq(Calls)
      /\ task.at \in {"call", "result", "fallback"} => Head(task.todo) = task.todo[1] /\ 1 \in 1..Len(task.todo)
  BY <1>2, TurnHasNoTask
<1>4. turn' = turn /\ log' = log /\ owner' = owner
  BY DEF TaskStep, TaskOpensStream, TaskRecords, TaskReturns, TaskCrashes
<1>5. LogFits'
  BY <1>1, <1>4 DEF LogFits, Repeats, AnswersNothing
<1>6. CASE TaskOpensStream
  <2>1. task.at = "loop" /\ mailbox' = mailbox /\ task' = [task EXCEPT !.at = "stream"]
        /\ runner' = [runner EXCEPT ![turn] = [st |-> "run", got |-> <<>>]]
    BY <1>3, <1>6 DEF TaskOpensStream
  <2>2. task'.at = "stream" /\ task'.ran = task.ran
    BY <1>3, <2>1 DEF LiveTask
  <2>3. RecordsFit'
    <3>1. Carried(0)
      BY <1>1, <2>1, CarriedCases
    <3>2. \A i \in 1..Len(mailbox) : ~Recording(i)
      BY <1>2, <2>1, NoneRecording
    <3> QED BY <1>4, <3>1, <3>2, CarriesNone
  <2>4. runner'[turn].got = <<>>
    BY <1>1, <1>3, <2>1 DEF TypeOK
  <2>5. StreamFits'
    BY <1>4, <2>2, <2>4 DEF StreamFits
  <2> QED BY <1>1, <1>2, <1>4, <1>5, <2>2, <2>3, <2>5 DEF Fitting, TodoFits, KnownFits
<1>7. CASE TaskRecords
  <2>1. /\ ~task.waiting /\ task' = [task EXCEPT !.waiting = TRUE] /\ runner' = runner
        /\ \E type, call : Send(Request("record", turn, type, call)) /\
             \/ task.at = "call" /\ type = "tool_call" /\ call = Head(task.todo)
             \/ task.at \in {"result", "fallback"} /\ type = "tool_result" /\ call = Head(task.todo)
             \/ task.at = "message" /\ type = "message"
    BY <1>3, <1>7 DEF TaskRecords
  <2>2. PICK type : \E call : Send(Request("record", turn, type, call)) /\
             \/ task.at = "call" /\ type = "tool_call" /\ call = Head(task.todo)
             \/ task.at \in {"result", "fallback"} /\ type = "tool_result" /\ call = Head(task.todo)
             \/ task.at = "message" /\ type = "message"
    BY <2>1
  <2>3. PICK call : Send(Request("record", turn, type, call)) /\
             \/ task.at = "call" /\ type = "tool_call" /\ call = Head(task.todo)
             \/ task.at \in {"result", "fallback"} /\ type = "tool_result" /\ call = Head(task.todo)
             \/ task.at = "message" /\ type = "message"
    BY <2>2
  <2>4. PICK msg : msg = Request("record", turn, type, call)
    OBVIOUS
  <2>5. msg.op = "record" /\ msg.turn = turn /\ msg.type = type /\ msg.call = call /\ Send(msg)
    BY <2>3, <2>4 DEF Request
  <2>6. /\ task'.at = task.at /\ task'.todo = task.todo /\ task'.ran = task.ran /\ task'.waiting = TRUE
        /\ task'.turn = task.turn
    BY <1>3, <2>1 DEF LiveTask
  <2>7. \A i \in 1..Len(mailbox) : ~Recording(i)
    BY <1>2, <2>1, NoneRecording
  <2>8. ASSUME NEW i \in 1..Len(mailbox'), Recording(i)'
        PROVE  i = Len(mailbox) + 1 /\ mailbox'[i] = msg
    <3>1. /\ mailbox \in Seq(Message) /\ mailbox' = Append(mailbox, msg)
      BY <1>1, <2>5 DEF TypeOK, Send
    <3>2. /\ Len(mailbox') = Len(mailbox) + 1 /\ Len(mailbox) \in Nat
          /\ mailbox'[Len(mailbox) + 1] = msg
          /\ \A j \in 1..Len(mailbox) : mailbox'[j] = mailbox[j]
      BY <3>1
    <3>3. i \notin 1..Len(mailbox)
      BY <1>4, <2>7, <2>8, <3>2 DEF Recording
    <3> QED BY <3>2, <3>3
  <2>9. /\ type = "tool_call" => call \notin Known(log)
        /\ type = "tool_result" => call \in Pending(log)
    BY <1>1, <1>3, <2>3 DEF TodoFits
  <2>10. RecordsFit'
    <3>1. ASSUME NEW i \in 1..Len(mailbox'), Recording(i)'
          PROVE  /\ mailbox'[i].type = "tool_call" => mailbox'[i].call \notin Known(log')
                 /\ mailbox'[i].type = "tool_result" => mailbox'[i].call \in Pending(log')
                 /\ task'.waiting /\ Awaited(mailbox[i])'
      <4>1. mailbox'[i] = msg
        BY <2>8, <3>1
      <4> QED BY <1>4, <2>3, <2>5, <2>6, <2>9, <4>1 DEF Awaited
    <3>2. ASSUME NEW i \in 1..Len(mailbox'), Recording(i)', NEW j \in 1..Len(mailbox'), Recording(j)'
          PROVE  i = j
      BY <2>8, <3>2
    <3> QED BY <3>1, <3>2 DEF RecordsFit
  <2>11. TodoFits'
    BY <1>1, <1>4, <2>6 DEF TodoFits
  <2>12. StreamFits'
    BY <1>1, <1>2, <1>4, <2>1, <2>6 DEF StreamFits
  <2>13. KnownFits'
    BY <1>1, <1>2, <1>4, <2>6 DEF KnownFits
  <2> QED BY <1>5, <2>10, <2>11, <2>12, <2>13 DEF Fitting
<1>8. CASE TaskReturns \/ TaskCrashes
  <2>1. task' = NoTask
    BY <1>8 DEF TaskReturns, TaskCrashes
  <2>2. PICK msg : Send(msg) /\ msg.op # "record"
    BY <1>8 DEF TaskReturns, TaskCrashes, Request
  <2>3. Carried(0)
    BY <1>1, <2>2, CarriedCases
  <2>4. ASSUME NEW i \in 1..Len(mailbox'), Recording(i)'
        PROVE  i \in 1..Len(mailbox) /\ mailbox'[i] = mailbox[i] /\ Recording(i)
    <3>1. i + 0 = i
      BY <1>1 DEF TypeOK
    <3> QED BY <1>4, <2>3, <2>4, <3>1 DEF Carried, Recording
  <2>5. RecordsFit'
    BY <1>1, <1>4, <2>1, <2>4 DEF RecordsFit
  <2>6. KnownFits'
    BY <1>1, <1>4, <2>1 DEF KnownFits
  <2> QED BY <1>5, <2>1, <2>5, <2>6, NoTaskIsIdle DEF Fitting, TodoFits, StreamFits
<1> QED BY <1>6, <1>7, <1>8 DEF TaskStep

\* The Provider commits a call.
LEMMA CommitFits ==
  ASSUME LedgerInv, EvidenceInv', NEW t \in Identity, NEW c \in Calls, RunnerCommits(t, c)
  PROVE  Fitting'
<1> USE DEF sessionVars
<1>1. /\ TypeOK /\ LogFits /\ TodoFits /\ StreamFits /\ KnownFits /\ RecordsFit /\ TaskIsTurns
  BY DEF LedgerInv, EvidenceInv, Owning, Fitting
<1>2. /\ turn' = turn /\ log' = log /\ task' = task /\ runner[t].st = "run"
      /\ owner' = [owner EXCEPT ![c] = t]
      /\ \/ owner[c] = NoTurn
         \/ owner[c] = t /\ task.turn = t /\ c \notin task.ran \cup ToSet(runner[t].got)
  BY DEF RunnerCommits
<1>3. \A e \in Calls : owner'[e] = owner[e] \/ (e = c /\ owner[c] = NoTurn /\ owner'[c] = t)
  BY <1>1, <1>2 DEF TypeOK
<1>4. LogFits' /\ TodoFits'
  BY <1>1, <1>2 DEF LogFits, Repeats, AnswersNothing, TodoFits
<1>5. KnownFits'
  BY <1>1, <1>2, <1>3 DEF KnownFits, Known
<1>6. RecordsFit'
  <2>1. Carried(0)
    <3>1. Request("declare", t, "none", c).op # "record"
      BY DEF Request
    <3> QED BY <1>1, <3>1, CarriedCases DEF RunnerCommits
  <2>2. ASSUME NEW i \in 1..Len(mailbox'), Recording(i)'
        PROVE  i \in 1..Len(mailbox) /\ mailbox'[i] = mailbox[i] /\ Recording(i)
    <3>1. i + 0 = i
      BY <1>1 DEF TypeOK
    <3> QED BY <1>2, <2>1, <2>2, <3>1 DEF Carried, Recording
  <2> QED BY <1>1, <1>2, <2>2 DEF RecordsFit, Awaited
<1>7. StreamFits'
  <2>1. SUFFICES ASSUME task # NoTask, runner'[turn].st # "off"
                 PROVE  /\ task.at = "stream"
                        /\ \A i, j \in 1..Len(runner'[turn].got) :
                              runner'[turn].got[i] = runner'[turn].got[j] => i = j
                        /\ \A i \in 1..Len(runner'[turn].got) :
                              owner'[runner'[turn].got[i]] = turn /\ runner'[turn].got[i] \notin task.ran
    BY <1>2 DEF StreamFits
  <2>2. turn \in Identity /\ turn # NoTurn /\ task.turn = turn
    BY <2>1, TurnHasNoTask
  <2>3. PICK got \in Seq(Calls) : got = runner[turn].got
    BY <1>1, <2>2, RunnerType DEF TypeOK
  <2>4. \A i \in 1..Len(got) : got[i] \in Calls /\ got[i] \in ToSet(got)
    BY <2>3 DEF ToSet
  <2>5. CASE t # turn
    <3>1. runner'[turn] = runner[turn]
      BY <1>1, <2>2, <2>5 DEF RunnerCommits, TypeOK
    <3>2. /\ task.at = "stream"
          /\ \A i, j \in 1..Len(got) : got[i] = got[j] => i = j
          /\ \A i \in 1..Len(got) : owner[got[i]] = turn /\ got[i] \notin task.ran
      BY <1>1, <2>1, <2>3, <3>1 DEF StreamFits
    <3>3. \A i \in 1..Len(got) : owner'[got[i]] = turn
      BY <1>3, <2>2, <2>4, <3>2
    <3> QED BY <2>3, <3>1, <3>2, <3>3
  <2>6. CASE t = turn
    <3>1. /\ task.at = "stream"
          /\ \A i, j \in 1..Len(got) : got[i] = got[j] => i = j
          /\ \A i \in 1..Len(got) : owner[got[i]] = turn /\ got[i] \notin task.ran
      BY <1>1, <1>2, <2>1, <2>3, <2>6 DEF StreamFits
    <3>2. runner'[turn].got = Append(got, c)
      BY <1>1, <2>2, <2>3, <2>6 DEF RunnerCommits, TypeOK
    <3>3. c \notin task.ran /\ (\A i \in 1..Len(got) : got[i] # c) /\ owner'[c] = turn
      <4>1. CASE owner[c] = NoTurn
        BY <1>1, <1>2, <2>1, <2>2, <2>6, <3>1, <4>1 DEF TaskIsTurns, TypeOK
      <4>2. CASE owner[c] = t /\ c \notin task.ran \cup ToSet(runner[t].got)
        BY <1>3, <2>3, <2>4, <2>6, <4>2
      <4> QED BY <1>2, <4>1, <4>2
    <3>4. \A i \in 1..Len(got) : owner'[got[i]] = turn
      BY <1>3, <2>4, <3>1, <3>3
    <3>5. PICK new : new = Append(got, c)
      OBVIOUS
    <3>6. /\ Len(new) = Len(got) + 1 /\ Len(got) \in Nat
          /\ \A i \in 1..Len(new) : \/ i \in 1..Len(got) /\ new[i] = got[i]
                                    \/ i = Len(got) + 1 /\ new[i] = c
      BY <2>3, <3>5
    <3>7. /\ \A i, j \in 1..Len(new) : new[i] = new[j] => i = j
          /\ \A i \in 1..Len(new) : owner'[new[i]] = turn /\ new[i] \notin task.ran
      BY <3>1, <3>3, <3>4, <3>6
    <3> QED BY <3>1, <3>2, <3>5, <3>7
  <2> QED BY <2>5, <2>6
<1> QED BY <1>4, <1>5, <1>6, <1>7 DEF Fitting

\* The stream ends, fails or is cut.
LEMMA StreamEndFits ==
  ASSUME LedgerInv, EvidenceInv', NEW t \in Identity,
         RunnerCompletes(t) \/ StreamFails(t) \/ StreamIdleCut(t)
  PROVE  Fitting'
<1> USE DEF sessionVars, historyVars
<1>1. /\ TypeOK /\ LogFits /\ TodoFits /\ StreamFits /\ KnownFits /\ RecordsFit
  BY DEF LedgerInv, EvidenceInv, Fitting
<1>2. turn' = turn /\ log' = log /\ owner' = owner /\ mailbox' = mailbox /\ runner[t].st # "off"
  BY DEF RunnerCompletes, StreamFails, StreamIdleCut
<1>3. LogFits'
  BY <1>1, <1>2 DEF LogFits, Repeats, AnswersNothing
<1>4. CASE ~Streaming(t)
  <2>1. task' = task /\ runner' = [runner EXCEPT ![t] = Idle]
    BY <1>4 DEF RunnerCompletes, StreamFails, StreamIdleCut
  <2>2. turn \in Identity => runner'[turn] = Idle \/ runner'[turn] = runner[turn]
    BY <1>1, <2>1 DEF TypeOK
  <2>3. StreamFits'
    BY <1>1, <1>2, <2>1, <2>2, TurnHasNoTask DEF StreamFits, Idle
  <2> QED BY <1>1, <1>2, <1>3, <2>1, <2>3 DEF Fitting, RecordsFit, Recording, Awaited, TodoFits, KnownFits
<1>5. CASE Streaming(t)
  <2>1. task # NoTask /\ task \in LiveTask /\ t = turn /\ turn \in Identity /\ task.at = "stream"
    BY <1>5, NoTaskIsIdle, TurnHasNoTask DEF Streaming
  <2>2. RecordsFit'
    <3>1. Carried(0) /\ \A i \in 1..Len(mailbox) : ~Recording(i)
      BY <1>1, <1>2, <2>1, CarriedCases, NoneRecording
    <3> QED BY <1>2, <3>1, CarriesNone
  <2>3. PICK got \in Seq(Calls) : got = runner[turn].got
    BY <1>1, <2>1, RunnerType DEF TypeOK
  <2>4. /\ \A i, j \in 1..Len(got) : got[i] = got[j] => i = j
        /\ \A i \in 1..Len(got) : owner[got[i]] = turn /\ got[i] \notin task.ran
    BY <1>1, <1>2, <2>1, <2>3 DEF StreamFits
  <2>5. \/ /\ got # <<>> /\ runner'[turn] = Idle
           /\ task' = [task EXCEPT !.at = "call", !.todo = got, !.ran = @ \cup ToSet(got)]
        \/ task' = [task EXCEPT !.at = "message"] /\ runner'[turn] = Idle
        \/ task' = [task EXCEPT !.retries = @ + 1] /\ runner'[turn].got = <<>>
    BY <1>1, <1>5, <2>1, <2>3 DEF RunnerCompletes, StreamFails, StreamIdleCut, TypeOK, Runner
  <2>6. CASE /\ got # <<>> /\ runner'[turn] = Idle
             /\ task' = [task EXCEPT !.at = "call", !.todo = got, !.ran = @ \cup ToSet(got)]
    <3>1. task'.at = "call" /\ task'.todo = got /\ task'.ran = task.ran \cup ToSet(got)
      BY <2>1, <2>6 DEF LiveTask
    <3>2. \A i \in 1..Len(got) : got[i] \in ToSet(got) /\ got[i] \notin Known(log)
      <4>1. \A i \in 1..Len(got) : got[i] \in ToSet(got)
        BY <2>3 DEF ToSet
      <4> QED BY <1>1, <2>1, <2>4, <4>1 DEF KnownFits
    <3>3. TodoFits'
      BY <1>2, <2>4, <3>1, <3>2 DEF TodoFits
    <3>4. StreamFits'
      BY <1>2, <2>6 DEF StreamFits, Idle
    <3>5. KnownFits'
      BY <1>1, <1>2, <2>1, <3>1 DEF KnownFits
    <3> QED BY <1>3, <2>2, <3>3, <3>4, <3>5 DEF Fitting
  <2>7. CASE \/ task' = [task EXCEPT !.at = "message"] /\ runner'[turn] = Idle
             \/ task' = [task EXCEPT !.retries = @ + 1] /\ runner'[turn].got = <<>>
    <3>1. task'.at \in {"message", "stream"} /\ task'.ran = task.ran
      BY <2>1, <2>7 DEF LiveTask
    <3>2. \/ runner'[turn].st = "off"
          \/ task'.at = "stream" /\ runner'[turn].got = <<>>
      BY <2>1, <2>7 DEF LiveTask, Idle
    <3>3. StreamFits'
      BY <1>2, <3>2 DEF StreamFits
    <3>4. TodoFits'
      BY <3>1 DEF TodoFits
    <3>5. KnownFits'
      BY <1>1, <1>2, <2>1, <3>1 DEF KnownFits
    <3> QED BY <1>3, <2>2, <3>3, <3>4, <3>5 DEF Fitting
  <2> QED BY <2>5, <2>6, <2>7
<1> QED BY <1>4, <1>5

LEMMA FittingStep ==
  ASSUME LedgerInv, EvidenceInv', Next
  PROVE  Fitting'
<1>1. CASE HandleRecord
  BY <1>1, LateRecordFits, OwnRecordFits
<1>2. CASE HandleStartTurn
  BY <1>2, BeginsFits, RestsFits DEF Rests
<1>3. ASSUME NEW t \in Identity, \/ \E c \in Calls : RunnerCommits(t, c)
                                 \/ RunnerCompletes(t) \/ StreamFails(t) \/ StreamIdleCut(t)
      PROVE  Fitting'
  BY <1>3, CommitFits, StreamEndFits
<1> QED BY <1>1, <1>2, <1>3, QuietFits, StragglerFits, RestsFits, TaskFits DEF Next, Handle, Rests

LEMMA LedgerInvariant == Spec => []LedgerInv
<1>1. Init => Owning /\ Fitting
  <2> SUFFICES ASSUME Init PROVE Owning /\ Fitting
    OBVIOUS
  <2>1. /\ turn = NoTurn /\ log = <<>> /\ mailbox = <<>> /\ task = NoTask
        /\ \A c \in Calls : owner[c] = NoTurn
        /\ \A t \in Identity : runner[t].st = "off"
    BY DEF Init, Idle
  <2>2. Len(mailbox) = 0 /\ Len(log) = 0 /\ Known(log) = {}
    BY <2>1 DEF Known, Mentions
  <2> QED BY <2>1, <2>2, NoTaskIsIdle DEF Owning, TurnsBegun, TaskIsTurns, RecordsOwned, Fitting,
          RecordsFit, TodoFits, StreamFits, KnownFits, LogFits
<1>2. LedgerInv /\ EvidenceInv' /\ [Next]_vars => (Owning /\ Fitting)'
  <2> SUFFICES ASSUME LedgerInv, EvidenceInv', [Next]_vars PROVE (Owning /\ Fitting)'
    OBVIOUS
  <2>1. CASE Next
    BY <2>1, OwningStep, FittingStep
  <2>2. CASE UNCHANGED vars
    BY <2>2 DEF vars, sessionVars, historyVars, LedgerInv, Owning, TurnsBegun, Begun, TaskIsTurns,
       RecordsOwned, Fitting, RecordsFit, Recording, Awaited, TodoFits, StreamFits, KnownFits, LogFits,
       Repeats, AnswersNothing
  <2> QED BY <2>1, <2>2
<1>3. LedgerInv <=> EvidenceInv /\ Owning /\ Fitting
  BY DEF LedgerInv
<1> HIDE DEF LedgerInv, EvidenceInv, Owning, Fitting
<1> QED BY <1>1, <1>2, <1>3, EvidenceInvariant, PTL DEF Spec

-----------------------------------------------------------------------------
(* The refinement. *)

\* Where a call stands, when the Log has only events it has a place for.
LEMMA StandingCases ==
  ASSUME LogFits
  PROVE  /\ Standings \in [Calls -> Ledger!Standing]
         /\ \A c \in Calls : Standings[c] = IF c \in Pending(log) THEN "open"
                                            ELSE IF c \in Known(log) THEN "closed"
                                            ELSE IF c \in ToSet(committed_calls) THEN "held"
                                            ELSE "unknown"
<1>1. Corrupt = {}
  BY DEF LogFits, Corrupt
<1>2. Standings = [c \in Calls |-> IF c \in Pending(log) THEN "open"
                                   ELSE IF c \in Known(log) THEN "closed"
                                   ELSE IF c \in ToSet(committed_calls) THEN "held"
                                   ELSE "unknown"]
  BY <1>1 DEF Standings
<1> QED BY <1>2 DEF Ledger!Standing

LEMMA NextStandingCases ==
  ASSUME LogFits'
  PROVE  /\ Standings' \in [Calls -> Ledger!Standing]
         /\ \A c \in Calls : Standings'[c] = IF c \in Pending(log') THEN "open"
                                             ELSE IF c \in Known(log') THEN "closed"
                                             ELSE IF c \in ToSet(committed_calls') THEN "held"
                                             ELSE "unknown"
<1>1. Corrupt' = {}
  BY DEF LogFits, Corrupt
<1>2. Standings' = [c \in Calls |-> IF c \in Pending(log') THEN "open"
                                    ELSE IF c \in Known(log') THEN "closed"
                                    ELSE IF c \in ToSet(committed_calls') THEN "held"
                                    ELSE "unknown"]
  BY <1>1 DEF Standings
<1> QED BY <1>2 DEF Ledger!Standing

LEMMA SameStandings ==
  ASSUME LogFits, LogFits', \A c \in Calls : Standings'[c] = Standings[c]
  PROVE  Standings' = Standings
BY StandingCases, NextStandingCases

LEMMA OneCall ==
  ASSUME LogFits, LogFits', turn' = turn, LateEvents' = LateEvents,
         NEW c \in Calls, <<Standings[c], Standings'[c]>> \in Ledger!CallSteps,
         \A e \in Calls : e # c => Standings'[e] = Standings[e]
  PROVE  Ledger!OneCallMoves
<1>1. PICK a : a = Standings
  OBVIOUS
<1>2. PICK b : b = Standings'
  OBVIOUS
<1>3. a \in [Calls -> Ledger!Standing] /\ b \in [Calls -> Ledger!Standing]
  BY <1>1, <1>2, StandingCases, NextStandingCases
<1>4. \A e \in Calls : e # c => b[e] = a[e]
  BY <1>1, <1>2
<1>5. b = [a EXCEPT ![c] = b[c]]
  BY <1>3, <1>4
<1>6. PICK step : step = <<a[c], b[c]>>
  OBVIOUS
<1>7. step \in Ledger!CallSteps /\ a[c] = step[1] /\ b = [a EXCEPT ![c] = step[2]]
  BY <1>1, <1>2, <1>5, <1>6
<1>8. UNCHANGED <<turn # NoTurn, Cardinality(LateEvents)>>
  OBVIOUS
<1> QED BY <1>1, <1>2, <1>7, <1>8 DEF Ledger!OneCallMoves

LEMMA RecordSteps ==
  ASSUME LedgerInv, LedgerInv', HandleRecord
  PROVE  Ledger!Next \/ UNCHANGED Ledger!vars
<1>1. /\ TypeOK /\ LogFits /\ LogFits' /\ HeldByRunningTurn /\ RecordsOwned
      /\ committed_calls \in Seq(Calls)
  BY DEF LedgerInv, EvidenceInv, Fitting, Owning, TypeOK
<1>2. turn' = turn
  BY DEF HandleRecord
<1>3. PICK e : /\ Recorded(e)
               /\ \/ /\ AppendFirst(<<e>>, 1)
                     /\ committed_calls' = IF m.type = "tool_call" THEN Forget(committed_calls, m.call)
                                                                   ELSE committed_calls
                  \/ log' = log /\ committed_calls' = committed_calls
  BY <1>1, RecordOutcome
<1>4. e \in PlannedEvent /\ e.type = m.type /\ e.call = m.call
  BY <1>3 DEF Recorded
<1>5. CASE log' = log /\ committed_calls' = committed_calls
  <2>1. Standings' = Standings /\ LateEvents' = LateEvents
    BY <1>5 DEF Standings, Corrupt, LateEvents, Repeats, AnswersNothing
  <2> QED BY <1>2, <2>1 DEF Ledger!vars
<1>6. CASE /\ AppendFirst(<<e>>, 1)
           /\ committed_calls' = IF m.type = "tool_call" THEN Forget(committed_calls, m.call)
                                                         ELSE committed_calls
  <2>1. \A c \in Calls : (m.type # "tool_call" \/ c # m.call) =>
           (c \in ToSet(committed_calls') <=> c \in ToSet(committed_calls))
    BY <1>1, <1>6, ForgetKeeps
  <2>2. Pending(log) \subseteq Known(log)
    BY PendingKnown
  <2>3. CASE m.turn = turn
    <3>1. /\ turn \in Identity /\ turn # NoTurn
          /\ m.type = "tool_call" => m.call \in Calls \ Known(log)
          /\ m.type = "tool_result" => m.call \in Pending(log) /\ m.call \in Calls
      BY <2>3, OwnRecord
    <3>2. e.via # "late"
      BY <1>3, <2>3 DEF Recorded
    <3>3. Wrote(IF e.type = "tool_call" THEN {e.call} ELSE {},
                IF e.type = "tool_result" THEN {e.call} ELSE {})
      BY <1>1, <1>4, <1>6, <3>1, <3>2, OneWritten
    <3>4. /\ LateEvents' = LateEvents
          /\ Known(log') = Known(log) \cup (IF m.type = "tool_call" THEN {m.call} ELSE {})
          /\ Pending(log') = (Pending(log) \cup (IF m.type = "tool_call" THEN {m.call} ELSE {}))
                                \ (IF m.type = "tool_result" THEN {m.call} ELSE {})
      BY <1>4, <3>3 DEF Wrote
    <3>5. CASE m.type = "tool_call"
      <4>1. Standings[m.call] \in {"unknown", "held"} /\ Standings'[m.call] = "open"
        BY <1>1, <2>2, <3>1, <3>4, <3>5, StandingCases, NextStandingCases
      <4>2. \A c \in Calls : c # m.call => Standings'[c] = Standings[c]
        BY <1>1, <2>1, <3>4, <3>5, StandingCases, NextStandingCases
      <4>3. <<Standings[m.call], Standings'[m.call]>> \in Ledger!CallSteps
        BY <3>1, <4>1 DEF Ledger!CallSteps
      <4>4. Ledger!OneCallMoves
        BY <1>1, <1>2, <3>1, <3>4, <3>5, <4>2, <4>3, OneCall
      <4> QED BY <4>4 DEF Ledger!Next
    <3>6. CASE m.type = "tool_result"
      <4>1. Standings[m.call] = "open" /\ Standings'[m.call] = "closed"
        BY <1>1, <2>2, <3>1, <3>4, <3>6, StandingCases, NextStandingCases
      <4>2. \A c \in Calls : c # m.call => Standings'[c] = Standings[c]
        BY <1>1, <2>1, <3>4, <3>6, StandingCases, NextStandingCases
      <4>3. <<Standings[m.call], Standings'[m.call]>> \in Ledger!CallSteps
        BY <3>1, <4>1 DEF Ledger!CallSteps
      <4>4. Ledger!OneCallMoves
        BY <1>1, <1>2, <3>1, <3>4, <3>6, <4>2, <4>3, OneCall
      <4> QED BY <4>4 DEF Ledger!Next
    <3>7. CASE m.type \notin {"tool_call", "tool_result"}
      <4>1. \A c \in Calls : Standings'[c] = Standings[c]
        BY <1>1, <2>1, <3>4, <3>7, StandingCases, NextStandingCases
      <4>2. Standings' = Standings
        BY <1>1, <4>1, SameStandings
      <4> QED BY <1>2, <3>4, <4>2 DEF Ledger!vars
    <3> QED BY <3>5, <3>6, <3>7
  <2>4. CASE m.turn # turn
    <3>1. e.via = "late"
      BY <1>3, <2>4 DEF Recorded
    <3>2. Cardinality(LateEvents') = Cardinality(LateEvents) + 1
      BY <1>1, <1>4, <1>6, <3>1, LateWritten
    <3>3. 1 \in 1..Len(mailbox) /\ m = mailbox[1] /\ m.op = "record"
      BY <1>1, ReceiveFacts, ReceiveRest DEF HandleRecord
    <3>4. CASE m.type \in {"tool_call", "tool_result"}
      <4>1. m.call \in Calls /\ owner[m.call] # turn
        BY <1>1, <2>4, <3>3, <3>4 DEF RecordsOwned
      <4>2. /\ Known(log') = Known(log) \cup {m.call}
            /\ m.type = "tool_call" => Pending(log') = Pending(log) \cup {m.call}
            /\ m.type = "tool_result" => Pending(log') = Pending(log) \ {m.call}
        BY <1>1, <1>4, <1>6, <3>1, <3>4, <4>1, LateWritten
      <4>3. Standings'[m.call] \in {"open", "closed"}
        BY <1>1, <4>1, <4>2, NextStandingCases
      <4>4. \A c \in Calls : c # m.call => Standings'[c] = Standings[c]
        BY <1>1, <2>1, <3>4, <4>2, StandingCases, NextStandingCases
      <4>5. PICK a : a = Standings
        OBVIOUS
      <4>6. PICK b : b = Standings'
        OBVIOUS
      <4>7. a \in [Calls -> Ledger!Standing] /\ b \in [Calls -> Ledger!Standing]
        BY <1>1, <4>5, <4>6, StandingCases, NextStandingCases
      <4>8. b = [a EXCEPT ![m.call] = b[m.call]]
        BY <4>4, <4>5, <4>6, <4>7
      <4>9. Ledger!Stray
        BY <1>2, <3>2, <4>1, <4>3, <4>5, <4>6, <4>8 DEF Ledger!Stray
      <4> QED BY <4>9 DEF Ledger!Next
    <3>5. CASE m.type \notin {"tool_call", "tool_result"}
      <4>1. Known(log') = Known(log) /\ Pending(log') = Pending(log)
        BY <1>1, <1>4, <1>6, <3>1, <3>5, LateWritten
      <4>2. \A c \in Calls : Standings'[c] = Standings[c]
        BY <1>1, <2>1, <3>5, <4>1, StandingCases, NextStandingCases
      <4>3. Standings' = Standings
        BY <1>1, <4>2, SameStandings
      <4>4. Ledger!Stray
        BY <1>2, <3>2, <4>3 DEF Ledger!Stray
      <4> QED BY <4>4 DEF Ledger!Next
    <3> QED BY <3>4, <3>5
  <2> QED BY <2>3, <2>4
<1> QED BY <1>3, <1>5, <1>6

LEMMA DeclarationSteps ==
  ASSUME LedgerInv, LedgerInv', HandleDeclaration
  PROVE  Ledger!Next \/ UNCHANGED Ledger!vars
<1>1. TypeOK /\ LogFits /\ LogFits'
  BY DEF LedgerInv, EvidenceInv, Fitting
<1>2. m \in Message /\ m.op = "declare" /\ m.turn = turn
  BY <1>1, ReceiveFacts DEF HandleDeclaration, FromRunningTurn
<1>3. m.call \in Calls /\ turn # NoTurn
  BY <1>2, NoTurnIsNoIdentity DEF Message
<1>4. turn' = turn /\ log' = log /\ LateEvents' = LateEvents
  BY DEF HandleDeclaration, LateEvents
<1>5. committed_calls \in Seq(Calls)
  BY <1>1 DEF TypeOK
<1>6. ToSet(committed_calls') = ToSet(committed_calls) \cup {m.call}
  <2>1. CASE m.call \in ToSet(committed_calls)
    BY <2>1 DEF HandleDeclaration
  <2>2. CASE m.call \notin ToSet(committed_calls)
    <3>1. committed_calls' = Append(committed_calls, m.call)
      BY <2>2 DEF HandleDeclaration
    <3>2. PICK new : new = Append(committed_calls, m.call)
      OBVIOUS
    <3>3. /\ DOMAIN new = 1..Len(committed_calls) + 1 /\ Len(committed_calls) \in Nat
          /\ new[Len(committed_calls) + 1] = m.call
          /\ \A i \in 1..Len(committed_calls) : new[i] = committed_calls[i]
          /\ DOMAIN committed_calls = 1..Len(committed_calls)
      BY <1>3, <1>5, <3>2
    <3>4. Len(committed_calls) + 1 \in DOMAIN new /\ \A i \in DOMAIN committed_calls : i \in DOMAIN new
      BY <3>3
    <3>5. \A i \in DOMAIN new : i \in DOMAIN committed_calls \/ i = Len(committed_calls) + 1
      BY <3>3
    <3>6. ToSet(new) = ToSet(committed_calls) \cup {m.call}
      BY <3>3, <3>4, <3>5 DEF ToSet
    <3> QED BY <3>1, <3>2, <3>6
  <2> QED BY <2>1, <2>2
<1>7. \A c \in Calls : c # m.call => Standings'[c] = Standings[c]
  BY <1>1, <1>4, <1>6, StandingCases, NextStandingCases
<1>8. \/ Standings'[m.call] = Standings[m.call]
      \/ Standings[m.call] = "unknown" /\ Standings'[m.call] = "held"
  BY <1>1, <1>3, <1>4, <1>6, StandingCases, NextStandingCases
<1>9. CASE Standings'[m.call] = Standings[m.call]
  <2>1. Standings' = Standings
    BY <1>1, <1>7, <1>9, SameStandings
  <2> QED BY <1>4, <2>1 DEF Ledger!vars
<1>10. CASE Standings[m.call] = "unknown" /\ Standings'[m.call] = "held"
  <2>1. <<Standings[m.call], Standings'[m.call]>> \in Ledger!CallSteps
    BY <1>3, <1>10 DEF Ledger!CallSteps
  <2>2. Ledger!OneCallMoves
    BY <1>1, <1>3, <1>4, <1>7, <2>1, OneCall
  <2> QED BY <2>2 DEF Ledger!Next
<1> QED BY <1>8, <1>9, <1>10

LEMMA StragglerSteps ==
  ASSUME LedgerInv, LedgerInv', HandleStraggler
  PROVE  Ledger!Next \/ UNCHANGED Ledger!vars
<1>1. TypeOK /\ LogFits /\ LogFits' /\ HeldByRunningTurn
  BY DEF LedgerInv, EvidenceInv, Fitting
<1>2. turn' = turn /\ committed_calls' = committed_calls
  BY DEF HandleStraggler
<1>3. m.call \in Calls /\ m.call \notin ToSet(committed_calls)
  BY <1>1, StragglerOutcome DEF HeldByRunningTurn
<1>4. CASE log' = log
  <2>1. Standings' = Standings /\ LateEvents' = LateEvents
    BY <1>2, <1>4 DEF Standings, Corrupt, LateEvents, Repeats, AnswersNothing
  <2> QED BY <1>2, <2>1 DEF Ledger!vars
<1>5. CASE m.call \notin Known(log) /\ Wrote({m.call}, {})
  <2>1. /\ Known(log') = Known(log) \cup {m.call} /\ Pending(log') = Pending(log) \cup {m.call}
        /\ LateEvents' = LateEvents
    BY <1>5 DEF Wrote
  <2>2. Standings[m.call] = "unknown" /\ Standings'[m.call] = "open"
    BY <1>1, <1>3, <1>5, <2>1, PendingKnown, StandingCases, NextStandingCases
  <2>3. \A c \in Calls : c # m.call => Standings'[c] = Standings[c]
    BY <1>1, <1>2, <2>1, StandingCases, NextStandingCases
  <2>4. <<Standings[m.call], Standings'[m.call]>> \in Ledger!CallSteps
    BY <2>2 DEF Ledger!CallSteps
  <2>5. Ledger!OneCallMoves
    BY <1>1, <1>2, <1>3, <2>1, <2>3, <2>4, OneCall
  <2> QED BY <2>5 DEF Ledger!Next
<1> QED BY <1>4, <1>5, StragglerOutcome

\* Ending a Turn, or resting without one, settles each call by itself.
LEMMA SettledStandings ==
  ASSUME LogFits, LogFits', ToSet(committed_calls') = {}, Settles
  PROVE  /\ LateEvents' = LateEvents
         /\ \A c \in Calls :
              /\ Standings'[c] # "held"
              /\ Standings[c] = "unknown" => Standings'[c] = "unknown"
              /\ Standings[c] = "open" => Standings'[c] \in {"open", "closed"}
              /\ Standings[c] = "closed" => Standings'[c] = "closed"
<1>1. PICK D \in SUBSET (ToSet(committed_calls) \ Known(log)) :
        \E R \in SUBSET (Pending(log) \cup D) : Wrote(D, R)
  BY DEF Settles
<1>2. PICK R \in SUBSET (Pending(log) \cup D) : Wrote(D, R)
  BY <1>1
<1>3. /\ Known(log') = Known(log) \cup D /\ Pending(log') = (Pending(log) \cup D) \ R
      /\ LateEvents' = LateEvents
  BY <1>2 DEF Wrote
<1> QED BY <1>3, PendingKnown, StandingCases, NextStandingCases

LEMMA RestSteps ==
  ASSUME LedgerInv, LedgerInv', Rests
  PROVE  Ledger!Next
<1>1. LogFits /\ LogFits' /\ HeldByRunningTurn
  BY DEF LedgerInv, EvidenceInv, Fitting
<1>2. turn' = NoTurn /\ ToSet(committed_calls') = {} /\ Settles
  BY RestsOutcome
<1>3. PICK a : a = Standings
  OBVIOUS
<1>4. PICK b : b = Standings'
  OBVIOUS
<1>5. a \in [Calls -> Ledger!Standing] /\ b \in [Calls -> Ledger!Standing]
  BY <1>1, <1>3, <1>4, StandingCases, NextStandingCases
<1>6. /\ LateEvents' = LateEvents
      /\ \A c \in Calls : /\ b[c] # "held"
                          /\ a[c] = "unknown" => b[c] = "unknown"
                          /\ a[c] = "open" => b[c] \in {"open", "closed"}
                          /\ a[c] = "closed" => b[c] = "closed"
  BY <1>1, <1>2, <1>3, <1>4, SettledStandings
<1>7. CASE turn = NoTurn
  <2>1. \A c \in Calls : a[c] # "held"
    BY <1>1, <1>3, <1>7, StandingCases DEF HeldByRunningTurn
  <2>2. \A c \in Calls : <<a[c], b[c]>> \in {<<"open", "closed">>} \cup {<<s, s>> : s \in Ledger!Standing}
    BY <1>5, <1>6, <2>1 DEF Ledger!Standing
  <2>3. Ledger!AllMove({<<"open", "closed">>})
    BY <1>3, <1>4, <1>5, <2>2 DEF Ledger!AllMove
  <2>4. Ledger!Reconcile
    BY <1>2, <1>6, <1>7, <2>3 DEF Ledger!Reconcile
  <2> QED BY <2>4 DEF Ledger!Next
<1>8. CASE turn # NoTurn
  <2>1. \A c \in Calls : <<a[c], b[c]>> \in {<<"held", "unknown">>, <<"held", "open">>,
           <<"held", "closed">>, <<"open", "closed">>} \cup {<<s, s>> : s \in Ledger!Standing}
    BY <1>5, <1>6 DEF Ledger!Standing
  <2>2. Ledger!AllMove({<<"held", "unknown">>, <<"held", "open">>, <<"held", "closed">>,
                        <<"open", "closed">>})
    BY <1>3, <1>4, <1>5, <2>1 DEF Ledger!AllMove
  <2>3. Ledger!EndTurn
    BY <1>2, <1>4, <1>6, <1>8, <2>2 DEF Ledger!EndTurn
  <2> QED BY <2>3 DEF Ledger!Next
<1> QED BY <1>7, <1>8

LEMMA BeginSteps ==
  ASSUME LedgerInv, LedgerInv', Begins
  PROVE  Ledger!Next
<1>1. TypeOK /\ LogFits /\ LogFits' /\ HeldByRunningTurn
  BY DEF LedgerInv, EvidenceInv, Fitting
<1>2. /\ turn = NoTurn /\ turn' # NoTurn /\ Pending(log') = {} /\ ToSet(committed_calls') = {}
      /\ Settles
  BY <1>1, StartSettles, NoTurnIsNoIdentity DEF Begins, HandleStartTurn, ToSet
<1>3. PICK a : a = Standings
  OBVIOUS
<1>4. PICK b : b = Standings'
  OBVIOUS
<1>5. a \in [Calls -> Ledger!Standing] /\ b \in [Calls -> Ledger!Standing]
  BY <1>1, <1>3, <1>4, StandingCases, NextStandingCases
<1>6. /\ LateEvents' = LateEvents
      /\ \A c \in Calls : /\ a[c] = "unknown" => b[c] = "unknown"
                          /\ a[c] = "open" => b[c] \in {"open", "closed"}
                          /\ a[c] = "closed" => b[c] = "closed"
  BY <1>1, <1>2, <1>3, <1>4, SettledStandings
<1>7. \A c \in Calls : a[c] # "held" /\ b[c] \in {"unknown", "closed"}
  BY <1>1, <1>2, <1>3, <1>4, StandingCases, NextStandingCases DEF HeldByRunningTurn
<1>8. \A c \in Calls : <<a[c], b[c]>> \in {<<"open", "closed">>} \cup {<<s, s>> : s \in Ledger!Standing}
  BY <1>5, <1>6, <1>7 DEF Ledger!Standing
<1>9. Ledger!AllMove({<<"open", "closed">>})
  BY <1>3, <1>4, <1>5, <1>8 DEF Ledger!AllMove
<1>10. Ledger!BeginTurn
  BY <1>2, <1>4, <1>6, <1>7, <1>9 DEF Ledger!BeginTurn
<1> QED BY <1>10 DEF Ledger!Next

LEMMA LedgerStep ==
  ASSUME LedgerInv, LedgerInv', [Next]_vars
  PROVE  Ledger!Next \/ UNCHANGED Ledger!vars
<1> USE DEF sessionVars, historyVars
<1>1. ASSUME turn' = turn, log' = log, committed_calls' = committed_calls
      PROVE  UNCHANGED Ledger!vars
  <2>1. Standings' = Standings /\ LateEvents' = LateEvents
    BY <1>1 DEF Standings, Corrupt, LateEvents, Repeats, AnswersNothing
  <2> QED BY <1>1, <2>1 DEF Ledger!vars
<1>2. CASE HandleRecord \/ HandleDeclaration \/ HandleStraggler
  BY <1>2, RecordSteps, DeclarationSteps, StragglerSteps
<1>3. CASE Begins \/ Rests
  BY <1>3, BeginSteps, RestSteps
<1>4. CASE HandleStartTurnBusy \/ HandleStrayExit \/ TaskStep \/ TaskCrashes
             \/ ClientStartsTurn \/ ClientInterrupts \/ SessionStarts
  BY <1>1, <1>4 DEF HandleStartTurnBusy, HandleStrayExit, TaskStep, TaskOpensStream, TaskRecords,
     TaskReturns, TaskCrashes, ClientStartsTurn, ClientInterrupts, SessionStarts
<1>5. ASSUME NEW t \in Identity, \/ \E c \in Calls : RunnerCommits(t, c)
                                 \/ RunnerCompletes(t) \/ StreamFails(t) \/ StreamIdleCut(t)
      PROVE  UNCHANGED Ledger!vars
  BY <1>1, <1>5 DEF RunnerCommits, RunnerCompletes, StreamFails, StreamIdleCut
<1>6. CASE UNCHANGED vars
  BY <1>1, <1>6 DEF vars
<1> QED BY <1>2, <1>3, <1>4, <1>5, <1>6 DEF Next, Handle, Rests

\* The Session implements the call ledger: whatever the interleaving of Turns,
\* stream runners, interrupts, failed appends and restarts, and for any number
\* of calls, Turns and processes, every call is recorded once and answered once,
\* none is held past its Turn, and no Turn begins over an open one.
THEOREM ImplementsLedgerCorrect == Spec => ImplementsLedger
<1>1. Init => Ledger!Init
  <2> SUFFICES ASSUME Init PROVE Ledger!Init
    OBVIOUS
  <2>1. log = <<>> /\ committed_calls = <<>> /\ turn = NoTurn /\ Len(log) = 0
    BY DEF Init
  <2>2. Corrupt = {} /\ LateEvents = {} /\ ToSet(committed_calls) = {}
    BY <2>1 DEF Corrupt, LateEvents, ToSet
  <2>3. Pending(log) = {} /\ Known(log) = {}
    BY <2>1 DEF Pending, Known, Mentions
  <2>4. Standings = [c \in Calls |-> "unknown"]
    BY <2>2, <2>3 DEF Standings
  <2> QED BY <2>1, <2>2, <2>4, FS_EmptySet DEF Ledger!Init
<1>2. LedgerInv /\ LedgerInv' /\ [Next]_vars => [Ledger!Next]_(Ledger!vars)
  BY LedgerStep
<1> HIDE DEF LedgerInv
<1> QED BY <1>1, <1>2, LedgerInvariant, PTL DEF Spec, ImplementsLedger, Ledger!Spec
=============================================================================
