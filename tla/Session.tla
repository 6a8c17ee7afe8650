------------------------------- MODULE Session -------------------------------
(***************************************************************************)
(* Pixir.Session: the process that owns one conversation.  It serializes   *)
(* every append to the Log, runs one Turn at a time in an unlinked Task,   *)
(* and holds the tool calls the Provider has committed but the Turn has    *)
(* not yet persisted, so that killing the Turn does not lose them.         *)
(*                                                                         *)
(* Beside the Session process the module has its callers, because every    *)
(* hard case is an order of their messages:                                *)
(*   - the Turn Task, which records one event at a time and waits for the  *)
(*     reply;                                                              *)
(*   - the stream runner of each Turn, a process of its own that declares  *)
(*     committed calls and outlives a killed Turn;                         *)
(*   - clients that start and interrupt Turns.                             *)
(* A request stays in the mailbox when its sender dies: GenServer does not *)
(* take it back.                                                           *)
(*                                                                         *)
(* A Turn is identified by its runtime identity: the Session incarnation   *)
(* and a generation counted from one within it.                            *)
(***************************************************************************)
EXTENDS Integers, FiniteSets, SequencesExt

CONSTANTS
  Calls,            \* Provider function-call ids
  NoCall,           \* the call of an event that has none
  NoTurn,           \* the identity claimed when no Turn runs
  MaxIncarnations,  \* bound: Session processes started for this session_id
  MaxGenerations,   \* bound: Turns started by one Session process
  MaxSpan,          \* bound: a process number and its Turns, added up
  MaxRetries,       \* Provider.attempt/5: transport retries of one stream
  MaxFaults         \* bound: failed reads and appends of the Log

ASSUME SessionAssumption ==
  /\ IsFiniteSet(Calls)
  /\ NoCall \notin Calls
  /\ MaxIncarnations \in Nat \ {0}
  /\ MaxGenerations \in Nat
  /\ MaxSpan \in Nat
  /\ MaxRetries \in Nat
  /\ MaxFaults \in Nat
  /\ NoTurn \notin [inc : 1..MaxIncarnations, gen : 1..MaxGenerations]

VARIABLES
  up,               \* a Session process is registered for the session_id
  incarnation,      \* session_incarnation of that process (or of the last)
  turn_generation,  \* Turns this process has started
  turn,             \* identity of the running Turn, or NoTurn
  committed_calls,  \* declared by the running Turn, not yet recorded
  seq,              \* seq the next canonical event gets
  log,              \* the Log: the events appended, in append order
  mailbox,          \* the Session's messages, oldest first
  task,             \* the Turn Task
  runner,           \* the stream runner of every Turn
  owner,            \* history: the Turn whose stream committed a call
  declared,         \* history: calls whose declaration was answered :ok
  excused,          \* history: declared calls whose loss the code accepts
  faults            \* Log operations that have failed so far

sessionVars == <<up, incarnation, turn_generation, turn, committed_calls, seq>>
historyVars == <<owner, declared, excused>>
vars == <<sessionVars, log, mailbox, task, runner, historyVars, faults>>

(***************************************************************************)
(* Data.                                                                   *)
(***************************************************************************)
Identity == [inc : 1..MaxIncarnations, gen : 1..MaxGenerations]

\* "message" is any canonical event of a Turn that names no call: its
\* assistant_message, its own turn_failed, a provider_usage.
EventType == {"tool_call", "tool_result", "message", "turn_failed"}

\* How an event came to be appended.  "record" is record/2 for the running
\* Turn and "late" record/2 for a Turn that no longer runs (a distinction the
\* code does not draw); the others are the reasons written by drains and
\* reconciliations.
Via == {"record", "late", "interrupt", "interrupt_no_turn", "turn_crashed",
        "before_start_turn", "declared_without_turn", "stale_turn_generation"}

Event == [seq : Nat, type : EventType, call : Calls \cup {NoCall}, via : Via]

Message ==
  [op : {"start_turn", "interrupt"}, turn : {NoTurn}, type : {"none"}, call : {NoCall}]
    \cup [op : {"record"}, turn : Identity, type : EventType, call : Calls \cup {NoCall}]
    \cup [op : {"declare"}, turn : Identity, type : {"none"}, call : Calls]
    \cup [op : {"result", "down"}, turn : Identity, type : {"none"}, call : {NoCall}]

LiveTask ==
  {t \in [turn    : Identity,
          at      : {"loop", "stream", "call", "result", "fallback", "message", "exit"},
          todo    : Seq(Calls),   \* calls of this iteration still to run
          ran     : SUBSET Calls, \* calls handed to the Executor so far
          waiting : BOOLEAN,      \* a record is in the Session's mailbox
          retries : Nat] :
     t.at \in {"call", "result", "fallback"} => t.todo # <<>>}

NoTask == [turn |-> NoTurn, at |-> "none", todo |-> <<>>, ran |-> {},
           waiting |-> FALSE, retries |-> 0]

Runner == [st : {"off", "run", "wait"}, got : Seq(Calls)]

Idle == [st |-> "off", got |-> <<>>]

TypeOK ==
  /\ up \in BOOLEAN
  /\ incarnation \in 1..MaxIncarnations
  /\ turn_generation \in 0..MaxGenerations
  /\ turn \in Identity \cup {NoTurn}
  /\ committed_calls \in Seq(Calls)
  /\ seq \in Nat
  /\ log \in Seq(Event)
  /\ mailbox \in Seq(Message)
  /\ task \in LiveTask \cup {NoTask}
  /\ runner \in [Identity -> Runner]
  /\ owner \in [Calls -> Identity \cup {NoTurn}]
  /\ declared \in SUBSET Calls
  /\ excused \in SUBSET Calls
  /\ faults \in 0..MaxFaults

Init ==
  /\ up = TRUE
  /\ incarnation = 1
  /\ turn_generation = 0
  /\ turn = NoTurn
  /\ committed_calls = <<>>
  /\ seq = 0
  /\ log = <<>>
  /\ mailbox = <<>>
  /\ task = NoTask
  /\ runner = [t \in Identity |-> Idle]
  /\ owner = [c \in Calls |-> NoTurn]
  /\ declared = {}
  /\ excused = {}
  /\ faults = 0

(***************************************************************************)
(* Folding the Log.                                                        *)
(***************************************************************************)
Mentions(l, types, c) == \E i \in 1..Len(l) : l[i].type \in types /\ l[i].call = c

\* Mutant: a call counts as known only once it has a result.
KnownClosedOnly(l) == {c \in Calls : Mentions(l, {"tool_result"}, c)}

\* known_call_ids: every id the Log mentions, closed or not.
Known(l) == {c \in Calls : Mentions(l, {"tool_call", "tool_result"}, c)}

\* pending_tool_calls: recorded calls with no tool_result after them.
Pending(l) ==
  {c \in Calls : \E i \in 1..Len(l) :
      /\ l[i].type = "tool_call" /\ l[i].call = c
      /\ \A j \in i+1..Len(l) : ~(l[j].type = "tool_result" /\ l[j].call = c)}

\* Mutant: the restarted counter reuses the last seq of the Log.
NextSeqReused(l) == IF l = <<>> THEN 0 ELSE l[Len(l)].seq

\* next_seq: where a new Session process continues.
NextSeq(l) == IF l = <<>> THEN 0 ELSE l[Len(l)].seq + 1

(***************************************************************************)
(* Writing the Log.  A handler's plan is the events it means to append;    *)
(* it stops at the first append that fails.                                *)
(***************************************************************************)
Planned(type, call, via) == [type |-> type, call |-> call, via |-> via]

PlanFor(calls, type, via) == [i \in 1..Len(calls) |-> Planned(type, calls[i], via)]

\* The sequences that list each member of S once.
Listings(S) ==
  {s \in BoundedSeq(S, Cardinality(Calls)) :
      /\ \A i, j \in 1..Len(s) : s[i] = s[j] => i = j
      /\ \A c \in S : \E i \in 1..Len(s) : s[i] = c}

\* Mutant: the killed Turn's declarations are thrown away.
DrainNothing(calls) == {<<>>}

\* drain_committed_calls: the calls the Log does not know, in the order they
\* were declared.
DrainLists(calls) ==
  {s \in Listings(ToSet(calls) \ Known(log)) :
      \A i, j \in 1..Len(s) : i < j =>
          \E m, n \in 1..Len(calls) : m < n /\ calls[m] = s[i] /\ calls[n] = s[j]}

\* Mutants: reconciliation that ignores what the drain wrote, that sees only
\* what the drain wrote, and that answers calls already answered.
ReconcileBeforeDrain(drained) == Listings(Pending(log))
ReconcileDrainedOnly(drained) == Listings(ToSet(drained))
ReconcileEveryCall(drained) == Listings(Known(log) \cup ToSet(drained))

\* reconcile_pending_tool_calls, run on the Log the drain leaves: one
\* tool_result for every pending call.  The code sorts them by call id; which
\* id sorts first is left open.
ReconcileLists(drained) == Listings(Pending(log) \cup ToSet(drained))

Stamped(e, n) == [seq |-> n, type |-> e.type, call |-> e.call, via |-> e.via]

\* The first k events of the plan are appended, each at the next seq.
AppendFirst(plan, k) ==
  /\ log' = log \o [i \in 1..k |-> Stamped(plan[i], seq + i - 1)]
  /\ seq' = seq + k

AppendAll(plan) == AppendFirst(plan, Len(plan)) /\ UNCHANGED faults

\* An append, or the fold a handler begins with, fails.
AppendFails(plan, k) ==
  /\ faults < MaxFaults
  /\ faults' = faults + 1
  /\ k \in 0..Len(plan)
  /\ k < Len(plan) \/ plan = <<>>
  /\ AppendFirst(plan, k)

(***************************************************************************)
(* The Turn Task.                                                          *)
(***************************************************************************)
GoTo(t, at) == [t EXCEPT !.at = at, !.waiting = FALSE]

NextCall(t) == [t EXCEPT !.at = IF Len(t.todo) = 1 THEN "loop" ELSE "call",
                         !.todo = Tail(t.todo), !.waiting = FALSE]

\* The second write-policy denial of a Turn is fatal: the rest of the batch
\* is abandoned and the Turn records its turn_failed.
Abandon(t) == [t EXCEPT !.at = "message", !.todo = <<>>, !.waiting = FALSE]

\* What the Task does with the reply to its record: Executor.run/2 skips a
\* call it could not record, and tries a fallback result once.
Replied(ok) ==
  \/ task.at = "call" /\ ok /\ task' = GoTo(task, "result")
  \/ task.at = "call" /\ ~ok /\ task' = NextCall(task)
  \/ task.at = "result" /\ ok /\ task' \in {NextCall(task), Abandon(task)}
  \/ task.at = "result" /\ ~ok /\ task' = GoTo(task, "fallback")
  \/ task.at = "fallback" /\ task' = NextCall(task)
  \/ task.at = "message" /\ task' = GoTo(task, "exit")

Request(op, t, type, call) == [op |-> op, turn |-> t, type |-> type, call |-> call]

Send(msg) == mailbox' = Append(mailbox, msg)

\* loop/3 opens a Provider stream behind a fresh runner.
TaskOpensStream ==
  /\ task.at = "loop"
  /\ task' = [task EXCEPT !.at = "stream"]
  /\ runner' = [runner EXCEPT ![task.turn] = [st |-> "run", got |-> <<>>]]
  /\ UNCHANGED <<sessionVars, log, mailbox, historyVars, faults>>

\* Session.record/2 from the Turn: the Task blocks until the reply.
TaskRecords ==
  /\ ~task.waiting
  /\ \/ /\ task.at = "call"
        /\ Send(Request("record", task.turn, "tool_call", Head(task.todo)))
     \/ /\ task.at \in {"result", "fallback"}
        /\ Send(Request("record", task.turn, "tool_result", Head(task.todo)))
     \/ /\ task.at = "message"
        /\ Send(Request("record", task.turn, "message", NoCall))
  /\ task' = [task EXCEPT !.waiting = TRUE]
  /\ UNCHANGED <<sessionVars, log, runner, historyVars, faults>>

\* The Turn function returns: the Task sends its result and exits.
TaskReturns ==
  /\ task.at = "exit"
  /\ Send(Request("result", task.turn, "none", NoCall))
  /\ task' = NoTask
  /\ UNCHANGED <<sessionVars, log, runner, historyVars, faults>>

\* The Task dies by itself, between two calls or in the middle of one.  Its
\* :DOWN arrives after everything it sent.
TaskCrashes ==
  /\ task # NoTask
  /\ Send(Request("down", task.turn, "none", NoCall))
  /\ task' = NoTask
  /\ UNCHANGED <<sessionVars, log, runner, historyVars, faults>>

(***************************************************************************)
(* The stream runner of Turn t.                                            *)
(***************************************************************************)
\* The Provider commits call c.  A retried request may commit again a call an
\* earlier attempt of the same stream committed.  The declaration is a
\* synchronous call to the Session; with no Session it is given up.
RunnerCommits(t, c) ==
  /\ runner[t].st = "run"
  /\ \/ owner[c] = NoTurn
     \/ owner[c] = t /\ task.turn = t /\ c \notin task.ran \cup ToSet(runner[t].got)
  /\ owner' = [owner EXCEPT ![c] = t]
  /\ runner' = [runner EXCEPT ![t] = [st  |-> IF up THEN "wait" ELSE "run",
                                      got |-> Append(@.got, c)]]
  /\ IF up THEN Send(Request("declare", t, "none", c)) ELSE UNCHANGED mailbox
  /\ UNCHANGED <<sessionVars, log, task, declared, excused, faults>>

Streaming(t) == task.turn = t /\ task.at = "stream"

\* The stream completes.  A living Turn runs the calls it returned, or stops:
\* it has none, or the iteration cap is reached.  A dead Turn gets nothing.
RunnerCompletes(t) ==
  /\ runner[t].st = "run"
  /\ runner' = [runner EXCEPT ![t] = Idle]
  /\ \/ /\ Streaming(t)
        /\ runner[t].got # <<>>
        /\ task' = [task EXCEPT !.at = "call", !.todo = runner[t].got,
                                !.ran = @ \cup ToSet(runner[t].got)]
     \/ Streaming(t) /\ task' = [task EXCEPT !.at = "message"]
     \/ ~Streaming(t) /\ UNCHANGED task
  /\ UNCHANGED <<sessionVars, log, mailbox, historyVars, faults>>

\* The transport fails.  Provider.attempt/5 streams the request again, with
\* the same hand-off, or gives up and the Turn records its failure.
StreamFails(t) ==
  /\ runner[t].st = "run"
  /\ Streaming(t)
  /\ \/ /\ task.retries < MaxRetries
        /\ task' = [task EXCEPT !.retries = @ + 1]
        /\ runner' = [runner EXCEPT ![t].got = <<>>]
     \/ /\ task' = [task EXCEPT !.at = "message"]
        /\ runner' = [runner EXCEPT ![t] = Idle]
  /\ UNCHANGED <<sessionVars, log, mailbox, historyVars, faults>>

\* StreamIdle: no activity in the window.  The runner is killed wherever it
\* is, also while its declaration waits in the mailbox.
StreamIdleCut(t) ==
  /\ runner[t].st # "off"
  /\ Streaming(t)
  /\ task' = [task EXCEPT !.at = "message"]
  /\ runner' = [runner EXCEPT ![t] = Idle]
  /\ UNCHANGED <<sessionVars, log, mailbox, historyVars, faults>>

(***************************************************************************)
(* Clients.  At most one request of each kind is outstanding.              *)
(***************************************************************************)
NoneWaiting(op) == \A i \in 1..Len(mailbox) : mailbox[i].op # op

ClientStartsTurn ==
  /\ up /\ NoneWaiting("start_turn")
  /\ turn_generation < MaxGenerations /\ incarnation + turn_generation < MaxSpan
  /\ Send(Request("start_turn", NoTurn, "none", NoCall))
  /\ UNCHANGED <<sessionVars, log, task, runner, historyVars, faults>>

ClientInterrupts ==
  /\ up /\ NoneWaiting("interrupt")
  /\ Send(Request("interrupt", NoTurn, "none", NoCall))
  /\ UNCHANGED <<sessionVars, log, task, runner, historyVars, faults>>

(***************************************************************************)
(* The Session's handlers: each takes the oldest message and runs to its   *)
(* reply.                                                                  *)
(***************************************************************************)
m == Head(mailbox)

Receive(op) == up /\ mailbox # <<>> /\ m.op = op /\ mailbox' = Tail(mailbox)

\* Mutants: any Turn running will do; the generation alone decides.
SomeTurnRuns == turn # NoTurn
SameGeneration == turn # NoTurn /\ m.turn.gen = turn.gen

\* The sender's Turn is the one that runs: its whole identity matches.
FromRunningTurn == m.turn = turn

\* Mutant: a failed append is not answered.
ReplyOnSuccessOnly(ok) ==
  IF task.turn = m.turn /\ task.waiting /\ ok THEN Replied(ok)
                                               ELSE UNCHANGED task

\* The reply reaches the Task only if it still waits for it.
ReplyToTask(ok) ==
  IF task.turn = m.turn /\ task.waiting THEN Replied(ok)
                                        ELSE UNCHANGED task

\* Mutant: the entry of a recorded call is blanked instead of removed.
ForgetInPlace(calls, c) == [i \in 1..Len(calls) |-> IF calls[i] = c THEN NoCall ELSE calls[i]]

\* forget_committed_call: a recorded call is no longer drained.
Forget(calls, c) ==
  IF c \in ToSet(calls) THEN RemoveAt(calls, CHOOSE i \in 1..Len(calls) : calls[i] = c)
                        ELSE calls

\* record/2.  Nothing in the handler asks whether the sender's Turn still
\* runs; Via only notes it.
HandleRecord ==
  /\ Receive("record")
  /\ LET e == Planned(m.type, m.call, IF FromRunningTurn THEN "record" ELSE "late")
     IN \/ /\ AppendAll(<<e>>)
           /\ committed_calls' = IF m.type = "tool_call" THEN Forget(committed_calls, m.call)
                                                         ELSE committed_calls
           /\ ReplyToTask(TRUE)
        \/ /\ AppendFails(<<e>>, 0)
           /\ UNCHANGED committed_calls
           /\ ReplyToTask(FALSE)
  /\ UNCHANGED <<up, incarnation, turn_generation, turn, runner, historyVars>>

ReplyToRunner ==
  runner' = [runner EXCEPT ![m.turn].st = IF @ = "wait" THEN "run" ELSE @]

\* A declaration of the running Turn is held; an id already held is ignored.
HandleDeclaration ==
  /\ Receive("declare")
  /\ FromRunningTurn
  /\ committed_calls' = IF m.call \in ToSet(committed_calls)
                        THEN committed_calls
                        ELSE Append(committed_calls, m.call)
  /\ declared' = declared \cup {m.call}
  /\ ReplyToRunner
  /\ UNCHANGED <<up, incarnation, turn_generation, turn, seq, log, task, owner, excused, faults>>

\* A declaration of any other Turn is drained at once and what the running
\* Turn has declared is left alone.  If the Log fails the call is dropped.
HandleStraggler ==
  /\ Receive("declare")
  /\ ~FromRunningTurn
  /\ LET via  == IF turn = NoTurn THEN "declared_without_turn" ELSE "stale_turn_generation"
         lost == {m.call} \ Known(log)
         plan == IF m.call \in Known(log) THEN <<>> ELSE <<Planned("tool_call", m.call, via)>>
     IN \/ AppendAll(plan) /\ UNCHANGED excused
        \/ AppendFails(plan, 0) /\ excused' = excused \cup lost
  /\ declared' = declared \cup {m.call}
  /\ ReplyToRunner
  /\ UNCHANGED <<up, incarnation, turn_generation, turn, committed_calls, task, owner>>

\* Drain the calls of d, then close those of r.
ClosePlan(d, r, via) == PlanFor(d, "tool_call", via) \o PlanFor(r, "tool_result", via)

\* What a drain did not get to write.
Undrained(d, k) == {d[i] : i \in k+1..Len(d)}

\* A plan that begins by draining d is written, or stops part of the way.
Drains(plan) == AppendAll(plan) /\ UNCHANGED excused

DrainFails(plan, d) ==
  \E k \in 0..Len(plan) : AppendFails(plan, k) /\ excused' = excused \cup Undrained(d, k)

\* start_turn/2 with no Turn: leftovers are drained and every pending call is
\* closed before the new Turn exists.
HandleStartTurn ==
  /\ Receive("start_turn")
  /\ turn = NoTurn
  /\ turn_generation < MaxGenerations
  /\ \E d \in DrainLists(committed_calls) : \E r \in ReconcileLists(d) :
       LET plan == ClosePlan(d, r, "before_start_turn")
           next == [inc |-> incarnation, gen |-> turn_generation + 1]
       IN \/ /\ Drains(plan)
             /\ turn_generation' = turn_generation + 1
             /\ turn' = next
             /\ task' = [NoTask EXCEPT !.turn = next, !.at = "loop"]
          \/ /\ DrainFails(plan, d)
             /\ UNCHANGED <<turn_generation, turn, task>>
  /\ committed_calls' = <<>>
  /\ UNCHANGED <<up, incarnation, runner, owner, declared>>

HandleStartTurnBusy ==
  /\ Receive("start_turn")
  /\ turn # NoTurn
  /\ UNCHANGED <<sessionVars, log, task, runner, historyVars, faults>>

\* interrupt/1 with a Turn: its Task is killed, what it declared is drained,
\* pending calls are closed and the interruption is recorded.  The reply is
\* :ok only if all of it was written.
HandleInterrupt ==
  /\ Receive("interrupt")
  /\ turn # NoTurn
  /\ turn' = NoTurn
  /\ task' = NoTask
  /\ committed_calls' = <<>>
  /\ \E d \in DrainLists(committed_calls) : \E r \in ReconcileLists(d) :
       LET plan == ClosePlan(d, r, "interrupt")
                     \o <<Planned("turn_failed", NoCall, "interrupt")>>
       IN Drains(plan) \/ DrainFails(plan, d)
  /\ UNCHANGED <<up, incarnation, turn_generation, runner, owner, declared>>

\* interrupt/1 with no Turn closes pending calls and drains nothing.
HandleInterruptNoTurn ==
  /\ Receive("interrupt")
  /\ turn = NoTurn
  /\ \E r \in ReconcileLists(<<>>) :
       LET plan == PlanFor(r, "tool_result", "interrupt_no_turn")
       IN \/ AppendAll(plan)
          \/ \E k \in 0..Len(plan) : AppendFails(plan, k)
  /\ UNCHANGED <<up, incarnation, turn_generation, turn, committed_calls,
                 task, runner, historyVars>>

\* The Turn returned.  Declarations it did not reach are its own affair and
\* are dropped.
HandleTurnResult ==
  /\ Receive("result")
  /\ m.turn = turn
  /\ turn' = NoTurn
  /\ committed_calls' = <<>>
  /\ excused' = excused \cup {c \in ToSet(committed_calls) : owner[c] = turn}
  /\ UNCHANGED <<up, incarnation, turn_generation, seq, log, task, runner,
                 owner, declared, faults>>

\* The Turn crashed: its declarations are drained and left pending, for the
\* next start or interrupt to close.
HandleTurnDown ==
  /\ Receive("down")
  /\ m.turn = turn
  /\ turn' = NoTurn
  /\ committed_calls' = <<>>
  /\ \E d \in DrainLists(committed_calls) :
       LET plan == PlanFor(d, "tool_call", "turn_crashed")
       IN Drains(plan) \/ (committed_calls # <<>> /\ DrainFails(plan, d))
  /\ UNCHANGED <<up, incarnation, turn_generation, task, runner, owner, declared>>

\* Mutant: the exit of the running Turn can fall through too.
HandleAnyExitAsStray ==
  /\ Receive("result") \/ Receive("down")
  /\ UNCHANGED <<sessionVars, log, task, runner, historyVars, faults>>

\* The result or :DOWN of a Turn that is not running falls through.
HandleStrayExit ==
  /\ Receive("result") \/ Receive("down")
  /\ m.turn # turn
  /\ UNCHANGED <<sessionVars, log, task, runner, historyVars, faults>>

(***************************************************************************)
(* The Session process stops (a crash, a lost writer lease): terminate/2   *)
(* kills the Turn Task and drains nothing; runners live on.  A new process *)
(* folds the Log to continue its seq.                                      *)
(***************************************************************************)
SessionStops ==
  /\ up
  /\ incarnation < MaxIncarnations /\ incarnation + turn_generation < MaxSpan
  /\ up' = FALSE
  /\ turn' = NoTurn
  /\ committed_calls' = <<>>
  /\ excused' = excused \cup ToSet(committed_calls)
  /\ mailbox' = <<>>
  /\ task' = NoTask
  /\ runner' = [t \in Identity |-> [runner[t] EXCEPT !.st = IF @ = "wait" THEN "run" ELSE @]]
  /\ UNCHANGED <<incarnation, turn_generation, seq, log, owner, declared, faults>>

SessionStarts ==
  /\ ~up
  /\ incarnation < MaxIncarnations
  /\ up' = TRUE
  /\ incarnation' = incarnation + 1
  /\ turn_generation' = 0
  /\ seq' = NextSeq(log)
  /\ UNCHANGED <<turn, committed_calls, log, mailbox, task, runner, historyVars, faults>>

Handle ==
  \/ HandleRecord \/ HandleDeclaration \/ HandleStraggler
  \/ HandleStartTurn \/ HandleStartTurnBusy
  \/ HandleInterrupt \/ HandleInterruptNoTurn
  \/ HandleTurnResult \/ HandleTurnDown \/ HandleStrayExit

TaskStep == TaskOpensStream \/ TaskRecords \/ TaskReturns

Next ==
  \/ Handle
  \/ TaskStep \/ TaskCrashes
  \/ \E t \in Identity :
       \/ \E c \in Calls : RunnerCommits(t, c)
       \/ RunnerCompletes(t) \/ StreamFails(t) \/ StreamIdleCut(t)
  \/ ClientStartsTurn \/ ClientInterrupts
  \/ SessionStops \/ SessionStarts

Spec == Init /\ [][Next]_vars

\* The schedulers of the VM run every process that can run, a stream ends or
\* is cut by the idle watchdog, and a stopped Session is started again.
Fairness ==
  /\ WF_vars(Handle)
  /\ WF_vars(TaskStep)
  /\ \A t \in Identity : WF_vars(RunnerCompletes(t))

FairSpec == Spec /\ Fairness

(***************************************************************************)
(* Properties.                                                             *)
(***************************************************************************)

\* The seq numbers of the Log have no gap and no repetition, through failed
\* appends and through restarts that re-derive the counter from the Log.
SeqContiguous ==
  /\ \A i \in 1..Len(log) : log[i].seq = i - 1
  /\ up => seq = Len(log)

\* A call the Session acknowledged holding is never silently lost: the Log
\* knows it, or the Session still holds it, or it went the way the code
\* accepts (its own Turn returned, the Log failed, the Session stopped).
EvidenceKept == declared \subseteq Known(log) \cup ToSet(committed_calls) \cup excused

\* What the Session holds belongs to the Turn that runs: a surviving runner
\* of an earlier Turn, of this or of an earlier process, never adds to it.
HeldByRunningTurn ==
  \A c \in ToSet(committed_calls) : turn # NoTurn /\ owner[c] = turn

\* A Turn starts on a closed Log with nothing held from an earlier one.
TurnStartsClean ==
  [][turn = NoTurn /\ turn' # NoTurn
       => Pending(log') = {} /\ committed_calls' = <<>>]_vars

\* interrupt/1 answers :ok only after every call the killed Turn recorded or
\* declared is in the Log and closed, and its interruption is the last event.
InterruptClosesLog ==
  [][turn # NoTurn /\ Receive("interrupt") /\ up' /\ faults' = faults
       => /\ Pending(log') = {}
          /\ ToSet(committed_calls) \subseteq Known(log')
          /\ log'[Len(log')].type = "turn_failed"]_vars

\* Once it is interrupted a Turn appends nothing more (drained stragglers are
\* the Session's own events).
InterruptFencesTurn == \A i \in 1..Len(log) : log[i].via # "late"

\* A Turn that starts comes to an end.
TurnSettles == (turn # NoTurn) ~> (turn = NoTurn)
=============================================================================
