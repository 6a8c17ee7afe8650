--------------------------- MODULE SubagentManager ---------------------------
(***************************************************************************)
(* Pixir.Subagents.Manager with Pixir.Subagents.Scheduler: the process     *)
(* that runs the child Sessions of one parent Session.  It starts at most  *)
(* max_threads of them, queues the others, times each one out, retries     *)
(* read-only children whose transport died, and answers waiting clients.   *)
(*                                                                         *)
(* What makes it hard is that everything it learns arrives late.  Child    *)
(* events, fired timers and retry wake-ups wait in one mailbox while its   *)
(* clients' calls change the agents those messages speak of.  A client     *)
(* call is an action that may run before any message now in the mailbox:   *)
(* it is a call that was sent before that message was.                     *)
(*                                                                         *)
(* A child Session runs one Turn at a time.  Its Turn Task tells the       *)
(* Session what to publish (a recorded turn_failed, a cast status); the    *)
(* Session publishes it a step later, also when an interrupt has killed    *)
(* the Turn in between.                                                    *)
(***************************************************************************)
EXTENDS Integers, FiniteSets, SequencesExt

CONSTANTS
  Agents,            \* the Subagents of the parent
  Writers,           \* those that may write: they are never retried
  Watched,           \* those a client may wait for
  MaxThreads,        \* max_threads of every spawn
  MaxRetries,        \* retry_max_attempts
  MaxInputs,         \* bound: follow-up prompts that restart an agent
  MaxStartFailures,  \* bound: child starts that fail
  MaxRestarts,       \* bound: restarts of the Manager process
  MaxMailbox         \* bound: messages waiting when one more is sent

ASSUME ManagerAssumption ==
  /\ IsFiniteSet(Agents)
  /\ Writers \subseteq Agents
  /\ Watched \subseteq Agents
  /\ {MaxThreads, MaxMailbox} \subseteq Nat \ {0}
  /\ {MaxRetries, MaxInputs, MaxStartFailures, MaxRestarts} \subseteq Nat

VARIABLES
  agents,        \* parent.agents: what the Manager holds of each agent
  order,         \* parent.order: agents in insertion order
  restored,      \* parent.restored
  mapped,        \* child_to_agent: children whose events are heard
  waiting,       \* the agents a blocked client waits for; {} when none does
  mailbox,       \* the Manager's messages, oldest first
  retry_timers,  \* {:subagent_retry, ...} timers of an agent still to fire
  children,      \* every child Session
  subscribed,    \* children whose events reach the Manager's mailbox
  past,          \* the parent Log's last word on the agents of a process gone
  spent          \* how much of each bound is used

vars == <<agents, order, restored, mapped, waiting, mailbox, retry_timers,
          children, subscribed, past, spent>>

(***************************************************************************)
(* Data.                                                                   *)
(***************************************************************************)
Terminal == {"completed", "failed", "cancelled", "timed_out", "closed", "detached"}

Status == Terminal \cup {"none", "queued", "running"}

\* child: attempt number of child_session_id, 0 for none.  cap: max_threads,
\* 0 for an agent restored from the Log, which has lost its spec.  armed: its
\* {:subagent_timeout, ...} timer has not fired.
Agent == [status : Status, child : 0..MaxRetries+1, retry : 0..MaxRetries,
          armed : BOOLEAN, cap : {0, MaxThreads}]

NoAgent == [status |-> "none", child |-> 0, retry |-> 0, armed |-> FALSE, cap |-> 0]

\* The child Session of one attempt of an agent.
Child == [agent : Agents, n : 1..MaxRetries+1]

ChildEvent == {"turn_failed", "done", "error", "interrupted"}

\* turn: "failing" once a retryable failure is recorded, "ending" once the
\* last status is sent.  said: sent to the Session and not yet published.
ChildSession ==
  [turn : {"none", "run", "failing", "ending", "idle", "stopped"},
   said : {"none", "turn_failed", "done", "error"}]

NoSession == [turn |-> "none", said |-> "none"]

Busy == {"run", "failing", "ending"}

Message == [op : {"event"}, child : Child, event : ChildEvent]
             \cup [op : {"timeout", "retry"}, agent : Agents]

TypeOK ==
  /\ agents \in [Agents -> Agent]
  /\ order \in Seq(Agents)
  /\ restored \in BOOLEAN
  /\ mapped \in SUBSET Child
  /\ waiting \in SUBSET Agents
  /\ mailbox \in Seq(Message)
  /\ retry_timers \in [Agents -> Nat]
  /\ children \in [Child -> ChildSession]
  /\ subscribed \in SUBSET Child
  /\ past \in [Agents -> Agent]
  /\ spent \in [inputs : 0..MaxInputs, failures : 0..MaxStartFailures,
                restarts : 0..MaxRestarts]

Init ==
  /\ agents = [a \in Agents |-> NoAgent]
  /\ order = <<>>
  /\ restored = TRUE
  /\ mapped = {}
  /\ waiting = {}
  /\ mailbox = <<>>
  /\ retry_timers = [a \in Agents |-> 0]
  /\ children = [c \in Child |-> NoSession]
  /\ subscribed = {}
  /\ past = [a \in Agents |-> NoAgent]
  /\ spent = [inputs |-> 0, failures |-> 0, restarts |-> 0]

With(status, ag) == {a \in Agents : ag[a].status = status}

ChildOf(a) == [agent |-> a, n |-> agents[a].child]

Event(c, e) == [op |-> "event", child |-> c, event |-> e]

Signal(op, a) == [op |-> op, agent |-> a]

(***************************************************************************)
(* Scheduling.                                                             *)
(***************************************************************************)
\* Mutant: one agent too many.
CanStartOneMore(active, cap) == active <= cap

\* Scheduler.can_start?: only running agents take a slot.
CanStart(active, cap) == active < cap

\* The queued agents in insertion order.
Queues(ag) ==
  {q \in SetToSeqs(With("queued", ag)) :
      \A i, j \in DOMAIN q : i < j =>
          \E k, n \in DOMAIN order : k < n /\ order[k] = q[i] /\ order[n] = q[j]}

\* How start_agent/2 ends: the child runs; there is no child Session (the
\* workspace, the seed Log or the Session was refused); or the Session was
\* live, its setup failed and it was stopped.
StartOutcome == {"started", "no_session", "stopped"}

Count(o, S) == Cardinality({i \in 1..Len(o) : o[i] \in S})

Affordable(o) ==
  spent.failures + Count(o, {"no_session", "stopped"}) <= MaxStartFailures

\* maybe_start_queued/2: start the first of the queue while there is a slot,
\* whatever came of the one before.  An agent without a cap ends the loop.
QueueRuns(ag, q) ==
  LET Active(o) == Cardinality(With("running", ag)) + Count(o, {"started"})
  IN {o \in BoundedSeq(StartOutcome, Len(q)) :
        /\ \A i \in 1..Len(o) : CanStart(Active(SubSeq(o, 1, i - 1)), ag[q[i]].cap)
        /\ Len(o) < Len(q) => ~CanStart(Active(o), ag[q[Len(o) + 1]].cap)
        /\ Affordable(o)}

\* The agent after an attempt to start it.
Attempted(r, outcome) ==
  [r EXCEPT !.status = IF outcome = "started" THEN "running" ELSE "failed",
            !.child  = IF outcome = "no_session" THEN @ ELSE r.retry + 1,
            !.armed  = outcome = "started"]

\* The agents q[1], q[2], ... are started with the outcomes o.
StartAgents(ag, kids, q, o) ==
  LET ChildAt(i) == [agent |-> q[i], n |-> ag[q[i]].retry + 1]
      New(outcome) == {ChildAt(i) : i \in {j \in 1..Len(o) : o[j] = outcome}}
  IN /\ agents' = [a \in Agents |->
           IF \E i \in 1..Len(o) : q[i] = a
           THEN Attempted(ag[a], o[CHOOSE i \in 1..Len(o) : q[i] = a]) ELSE ag[a]]
     /\ children' = [c \in Child |->
           IF c \in New("started") THEN [turn |-> "run", said |-> "none"]
           ELSE IF c \in New("stopped") THEN [turn |-> "stopped", said |-> "none"]
           ELSE kids[c]]
     /\ mapped' = mapped \cup New("started")
     /\ subscribed' = subscribed \cup New("started")
     /\ spent' = [spent EXCEPT !.failures = @ + Count(o, {"no_session", "stopped"})]

StartQueued(ag, kids) ==
  \E q \in Queues(ag) : \E o \in QueueRuns(ag, q) : StartAgents(ag, kids, q, o)

\* reply_waiters/1: a client whose agents are all terminal is answered.
ReplyWaiters ==
  waiting' = IF \A a \in waiting : agents'[a].status \in Terminal THEN {} ELSE waiting

Ended(a, status) == [agents EXCEPT ![a].status = status, ![a].armed = FALSE]

\* Mutant: the slot that came free is left for a later event.
EndAgentOnly(a, status, kids) == StartAgents(Ended(a, status), kids, <<>>, <<>>) /\ ReplyWaiters

\* Mutant: blocked clients are not told.
EndAgentUntold(a, status, kids) == StartQueued(Ended(a, status), kids) /\ UNCHANGED waiting

\* The end of an agent, as every path but a retry has it: the timer is
\* cancelled (a timeout already sent stays in the mailbox), the queue moves
\* on and waiters are answered.
EndAgent(a, status, kids) == StartQueued(Ended(a, status), kids) /\ ReplyWaiters

(***************************************************************************)
(* Child Sessions.                                                         *)
(***************************************************************************)
Step(c, turn, said) == children' = [children EXCEPT ![c] = [turn |-> turn, said |-> said]]

\* The Turn's own steps: a retryable failure is recorded before the error
\* status is sent; other Turns send one status.  A Task that crashes sends
\* none, what it had sent is still published.
ChildWorks(c) ==
  /\ \/ /\ children[c].turn = "run"
        /\ Step(c, "failing", "turn_failed") \/ Step(c, "ending", "done") \/ Step(c, "ending", "error")
     \/ /\ children[c] = [turn |-> "failing", said |-> "none"]
        /\ Step(c, "ending", "error")
     \/ /\ children[c] = [turn |-> "ending", said |-> "none"]
        /\ Step(c, "idle", "none")
     \/ /\ children[c].turn \in Busy
        /\ Step(c, "idle", children[c].said)
  /\ UNCHANGED <<agents, order, restored, mapped, waiting, mailbox, retry_timers,
                 subscribed, past, spent>>

\* Bound: a child or a timer sends while the mailbox has room.
Room == Len(mailbox) < MaxMailbox

\* The child Session takes what the Task sent and publishes it.
ChildPublishes(c) ==
  /\ children[c].said # "none" /\ Room
  /\ Step(c, children[c].turn, "none")
  /\ mailbox' = IF c \in subscribed THEN Append(mailbox, Event(c, children[c].said)) ELSE mailbox
  /\ UNCHANGED <<agents, order, restored, mapped, waiting, retry_timers,
                 subscribed, past, spent>>

\* Session.interrupt/1 on a child, as safe_interrupt/1 calls it: the Turn, if
\* one runs, is killed and its end is published at once.
Interrupted(c) ==
  IF children[c].turn \in Busy THEN [children EXCEPT ![c].turn = "idle"] ELSE children

InterruptEvents(c) ==
  IF children[c].turn \in Busy /\ c \in subscribed THEN <<Event(c, "interrupted")>> ELSE <<>>

(***************************************************************************)
(* Clients.                                                                *)
(***************************************************************************)
\* spawn_agent: started at once if there is a slot, whoever is queued.
SpawnAgent(a) ==
  /\ agents[a].status = "none" /\ past[a].status = "none"
  /\ order' = Append(order, a)
  /\ LET new == [agents EXCEPT ![a] = [NoAgent EXCEPT !.status = "queued", !.cap = MaxThreads]]
     IN IF CanStart(Cardinality(With("running", agents)), MaxThreads)
        THEN \E out \in StartOutcome :
               Affordable(<<out>>) /\ StartAgents(new, children, <<a>>, <<out>>)
        ELSE StartAgents(new, children, <<>>, <<>>)
  /\ UNCHANGED <<restored, waiting, mailbox, retry_timers, past>>

\* restart_agent/4: running again under a new timeout.
Prompted(a) == [agents EXCEPT ![a].status = "running", ![a].armed = TRUE]

\* send_input: a further Turn in the child Session the agent has.  There is
\* no look at max_threads.  Errors (busy, closed, detached, no Session)
\* change nothing.
SendInput(a) ==
  /\ restored /\ spent.inputs < MaxInputs
  /\ agents[a].status \in {"completed", "failed", "cancelled", "timed_out"}
  /\ agents[a].cap # 0 /\ agents[a].child # 0
  /\ children[ChildOf(a)] = [turn |-> "idle", said |-> "none"]
  /\ Step(ChildOf(a), "run", "none")
  /\ agents' = Prompted(a)
  /\ spent' = [spent EXCEPT !.inputs = @ + 1]
  /\ UNCHANGED <<order, restored, mapped, waiting, mailbox, retry_timers,
                 subscribed, past>>

\* close: a running agent is cancelled, any other but a detached one closed.
Close(a) ==
  /\ restored
  /\ \/ /\ agents[a].status = "running"
        /\ mailbox' = mailbox \o InterruptEvents(ChildOf(a))
        /\ EndAgent(a, "cancelled", Interrupted(ChildOf(a)))
     \/ /\ agents[a].status \notin {"none", "running", "detached"}
        /\ UNCHANGED mailbox
        /\ EndAgent(a, "closed", children)
  /\ UNCHANGED <<order, restored, retry_timers, past>>

\* wait: the client blocks unless every agent it names is terminal.
Wait(S) ==
  /\ restored /\ waiting = {}
  /\ \A a \in S : agents[a].status # "none"
  /\ \E a \in S : agents[a].status \notin Terminal
  /\ waiting' = S
  /\ UNCHANGED <<agents, order, restored, mapped, mailbox, retry_timers,
                 children, subscribed, past, spent>>

\* {:wait_timeout, ...}: the client is answered with what there is.
WaitTimeout ==
  /\ waiting # {} /\ waiting' = {}
  /\ UNCHANGED <<agents, order, restored, mapped, mailbox, retry_timers,
                 children, subscribed, past, spent>>

(***************************************************************************)
(* Messages.                                                               *)
(***************************************************************************)
m == Head(mailbox)

Receive(op) == mailbox # <<>> /\ m.op = op

\* The agent a child event is for, if the child is still listened to.
Heard(e) == Receive("event") /\ m.event \in e /\ m.child \in mapped

Sender == m.child.agent

\* Mutant: the attempts are counted one too late.
RetryOneMore(a) == agents[a].retry <= MaxRetries /\ a \notin Writers

\* maybe_retry_transport_failure: nothing is asked about the status.
MayRetry(a) == agents[a].retry < MaxRetries /\ a \notin Writers

\* Mutant: the failed attempt's child is still listened to.
KeepListening(a) == mapped

\* remove_child_mapping/2.
StopListening(a) == mapped \ {ChildOf(a)}

\* Mutant: nothing wakes the queue up.
NoWakeUp(a) == retry_timers

WakeUp(a) == [retry_timers EXCEPT ![a] = @ + 1]

\* A retryable turn_failed: back to the queue, and a wake-up after a jitter.
HandleTransportFailure ==
  /\ Heard({"turn_failed"})
  /\ MayRetry(Sender)
  /\ mailbox' = Tail(mailbox)
  /\ agents' = [agents EXCEPT ![Sender].status = "queued", ![Sender].armed = FALSE,
                              ![Sender].retry = @ + 1]
  /\ mapped' = StopListening(Sender)
  /\ retry_timers' = WakeUp(Sender)
  /\ UNCHANGED <<order, restored, waiting, children, subscribed, past, spent>>

\* What the last status of a Turn makes of the agent.  A virtual-overlay
\* agent that is done without a usable diff has failed.
StatusesOf(e) ==
  IF e = "done" THEN {"completed", "failed"}
  ELSE IF e = "error" THEN {"failed"}
  ELSE {"cancelled"}

\* The last status of a Turn ends an agent that is not terminal.
HandleTurnStatus ==
  /\ Heard({"done", "error", "interrupted"})
  /\ agents[Sender].status \notin Terminal
  /\ mailbox' = Tail(mailbox)
  /\ \E status \in StatusesOf(m.event) : EndAgent(Sender, status, children)
  /\ UNCHANGED <<order, restored, retry_timers, past>>

\* Any other child event changes no status: of a child no longer mapped, of
\* a terminal agent, or a failure that is not retried.
HandleOtherEvent ==
  /\ Receive("event")
  /\ \/ m.child \notin mapped
     \/ m.event = "turn_failed" /\ ~MayRetry(Sender)
     \/ m.event # "turn_failed" /\ agents[Sender].status \in Terminal
  /\ mailbox' = Tail(mailbox)
  /\ UNCHANGED <<agents, order, restored, mapped, waiting, retry_timers,
                 children, subscribed, past, spent>>

\* {:subagent_timeout, ...}: any running agent is timed out, whichever of its
\* runs armed the timer.
HandleTimeout ==
  /\ Receive("timeout")
  /\ IF agents[m.agent].status = "running"
     THEN /\ mailbox' = Tail(mailbox) \o InterruptEvents(ChildOf(m.agent))
          /\ EndAgent(m.agent, "timed_out", Interrupted(ChildOf(m.agent)))
     ELSE /\ mailbox' = Tail(mailbox)
          /\ UNCHANGED <<agents, children, mapped, subscribed, waiting, spent>>
  /\ UNCHANGED <<order, restored, retry_timers, past>>

\* {:subagent_retry, ...}: the queue moves if the agent is still in it.
\* Waiters are not looked at.
HandleRetry ==
  /\ Receive("retry")
  /\ mailbox' = Tail(mailbox)
  /\ IF agents[m.agent].status = "queued"
     THEN StartQueued(agents, children)
     ELSE UNCHANGED <<agents, children, mapped, subscribed, spent>>
  /\ UNCHANGED <<order, restored, waiting, retry_timers, past>>

TimeoutFires(a) ==
  /\ agents[a].armed /\ Room
  /\ agents' = [agents EXCEPT ![a].armed = FALSE]
  /\ mailbox' = Append(mailbox, Signal("timeout", a))
  /\ UNCHANGED <<order, restored, mapped, waiting, retry_timers, children,
                 subscribed, past, spent>>

RetryFires(a) ==
  /\ retry_timers[a] > 0 /\ Room
  /\ retry_timers' = [retry_timers EXCEPT ![a] = @ - 1]
  /\ mailbox' = Append(mailbox, Signal("retry", a))
  /\ UNCHANGED <<agents, order, restored, mapped, waiting, children,
                 subscribed, past, spent>>

(***************************************************************************)
(* The Manager process restarts: agents, timers, subscriptions and mailbox *)
(* are gone, the child Sessions run on.  The parent Log keeps the last     *)
(* lifecycle event of every agent.                                         *)
(***************************************************************************)
ManagerRestarts ==
  /\ spent.restarts < MaxRestarts
  /\ spent' = [spent EXCEPT !.restarts = @ + 1]
  /\ past' = [a \in Agents |-> IF agents[a].status = "none" THEN past[a] ELSE agents[a]]
  /\ agents' = [a \in Agents |-> NoAgent]
  /\ order' = <<>>
  /\ restored' = FALSE
  /\ mapped' = {} /\ subscribed' = {} /\ waiting' = {} /\ mailbox' = <<>>
  /\ retry_timers' = [a \in Agents |-> 0]
  /\ UNCHANGED children

\* Mutant: whatever was under way is detached.
ReattachedNever(a) == FALSE

\* maybe_reattach_restored_agent: the child Session is live and runs a Turn.
Reattached(a) ==
  /\ past[a].status \in {"running", "queued"}
  /\ past[a].child # 0
  /\ children[[agent |-> a, n |-> past[a].child]].turn \in Busy

\* Mutant: the timeout of a reattached agent is not armed again.
RestoredUntimed(a) ==
  [past[a] EXCEPT !.cap = 0,
                  !.armed = FALSE,
                  !.status = IF Reattached(a) THEN "running"
                             ELSE IF @ \in {"running", "queued"} THEN "detached" ELSE @]

\* restored_agent/3: without its spec.  An agent that was running or queued
\* is detached unless it can be reattached.
RestoredAgent(a) ==
  [past[a] EXCEPT !.cap = 0,
                  !.armed = Reattached(a),
                  !.status = IF Reattached(a) THEN "running"
                             ELSE IF @ \in {"running", "queued"} THEN "detached" ELSE @]

\* restore_parent/3, which every client call but spawn_agent begins with.
RestoreParent ==
  /\ ~restored /\ restored' = TRUE
  /\ LET lost == {a \in Agents : past[a].status # "none"}
         back == {[agent |-> a, n |-> past[a].child] : a \in {b \in lost : Reattached(b)}}
     IN /\ agents' = [a \in Agents |-> IF a \in lost THEN RestoredAgent(a) ELSE agents[a]]
        /\ \E s \in SetToSeqs(lost) : order' = order \o s
        /\ mapped' = mapped \cup back
        /\ subscribed' = subscribed \cup back
  /\ past' = [a \in Agents |-> NoAgent]
  /\ UNCHANGED <<waiting, mailbox, retry_timers, children, spent>>

(***************************************************************************)
(* Specification.                                                          *)
(***************************************************************************)
Handle ==
  \/ HandleTransportFailure \/ HandleTurnStatus \/ HandleOtherEvent
  \/ HandleTimeout \/ HandleRetry

Fires == \E a \in Agents : TimeoutFires(a) \/ RetryFires(a)

Client ==
  \/ \E a \in Agents : SpawnAgent(a) \/ SendInput(a) \/ Close(a)
  \/ \E S \in SUBSET Watched : Wait(S)
  \/ WaitTimeout
  \/ RestoreParent

Next ==
  \/ Handle
  \/ Fires
  \/ Client
  \/ \E c \in Child : ChildWorks(c) \/ ChildPublishes(c)
  \/ ManagerRestarts

Spec == Init /\ [][Next]_vars

\* The VM delivers timers and runs a process that has messages.
FairSpec == Spec /\ WF_vars(Handle) /\ WF_vars(Fires)

(***************************************************************************)
(* Properties.                                                             *)
(***************************************************************************)

\* The number of running agents never exceeds max_threads, through retries,
\* failed starts and several starts in one step.
ActiveWithinLimit == Cardinality(With("running", agents)) <= MaxThreads

\* A queued agent is started only into a free slot, also when follow-up
\* prompts have filled the slots past the limit.
QueueStartsWithinLimit ==
  [][(\E a \in Agents : agents[a].status = "queued" /\ agents'[a].status = "running")
       => Cardinality(With("running", agents')) <= MaxThreads]_vars

\* A running agent always has its end in sight: its timeout is armed or on
\* its way, whatever was retried, restarted, closed or reattached.
RunningHasDeadline ==
  \A a \in With("running", agents) :
    agents[a].armed \/ Signal("timeout", a) \in ToSet(mailbox)

\* Nobody waits in the queue beside a free slot, except until the wake-up of
\* a retried agent.  Each path that frees a slot must see to it.
QueueNeverStalls ==
  With("queued", agents) # {} =>
    \/ Cardinality(With("running", agents)) >= MaxThreads
    \/ \E a \in With("queued", agents) :
          retry_timers[a] > 0 \/ Signal("retry", a) \in ToSet(mailbox)

\* The same until the Manager restarts, also when follow-up prompts have
\* filled the slots.
QueueNeverStallsBeforeRestart == spent.restarts = 0 => QueueNeverStalls

\* A child Session works only for a running agent that holds it, or that the
\* Manager has yet to restore: no Turn runs on behind a terminal agent, or
\* behind one that has gone back to the queue.
NoOrphanTurn ==
  \A c \in Child : children[c].turn = "run" =>
    \/ agents[c.agent].status = "running" /\ agents[c.agent].child = c.n
    \/ ~restored /\ past[c.agent].status = "running" /\ past[c.agent].child = c.n

\* The same until the first follow-up prompt.
NoOrphanBeforePrompt == spent.inputs = 0 => NoOrphanTurn

\* What a superseded attempt still has to say changes nothing.
SupersededAttemptIsMute ==
  [][Receive("event") /\ mailbox' = Tail(mailbox) /\ spent'.restarts = spent.restarts
       => m.child = ChildOf(Sender) \/ agents'[Sender] = agents[Sender]]_vars

\* A client is not left waiting for agents that are all terminal.
WaiterIsAnswered ==
  waiting # {} => \E a \in waiting : agents[a].status \notin Terminal

\* A queued agent is started, or ends, at last.
QueuedMovesOn ==
  \A a \in Agents : agents[a].status = "queued" ~> agents[a].status # "queued"
=============================================================================
