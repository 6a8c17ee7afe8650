# A verification project for Pixir

Pixir is a coding-agent harness in Elixir/OTP. One *Session* is a process that
owns one conversation and an append-only *Log*; a *Turn* is one run of the agent
loop for one user prompt; *Subagents* are child Sessions that a parent delegates
to; several operating-system processes may try to write the same Log. The *Monitor*
is a read-only web presenter of Logs, whose client runs in the browser.

The modules here model the parts where the order of messages, a crash or a
failed write decides whether the Log stays usable, and where the order of
clicks, answers and events decides whether the Monitor's screen tells the
truth. Paths in this document are relative to the repository (`lib/...`,
`docs/...`, `test/...`; `app.js` is `monitor/priv/static/app.js`).

## 1. Inventory

### Components, state and operations

| Component | Source | State | Operations |
|---|---|---|---|
| Session | `session.ex` | incarnation, Turn generation and identity, committed calls, next seq | record, declare a committed call, start and interrupt a Turn, Turn result, Turn `:DOWN`, heartbeat, terminate |
| Log | `log.ex`, `event.ex` | the NDJSON file of a Session | append (with writer authorization), fold, next seq, pending calls |
| Turn loop | `turn.ex` | iteration, history, budgets | stream, run the batch of calls, recover from overflow / dangling calls, finalize |
| Tool Executor | `tools/executor.ex` | none (runs in the Turn Task) | record the call, check permission, run, record the result, fall back once |
| Provider stream | `provider.ex`, `provider/stream_idle.ex` | attempt number, activity clock | request, commit calls, retry, idle cut |
| Provider connection | `provider/connection.ex` | socket, previous response id and input, keepalive | stream, reuse, reconnect, fall back |
| Session writer lease | `session_lease.ex` | the lease file | acquire, heartbeat, authorize an append, release, force release |
| Subagents Manager | `subagents/manager.ex`, `subagents.ex` | agents per parent, child mapping, waiters, timers | spawn, send input, wait, close, list; child events, timeout, retry; restore |
| Scheduler | `subagents/scheduler.ex` | none | admit a start, choose the next queued agent |
| Command boundary | `tools/command_boundary.ex` | active commands, FIFO of waiters | acquire, release, queue timeout, owner `:DOWN` |
| Workflows | `workflows.ex` | step records of a DAG | start ready steps, poll, cancel, resume from evidence |
| Delegate runner, owners, daemon | `delegate/*.ex` | plan units, tickets, owner registry | run, await, cancel, reattach |
| ACP server | `acp/server.ex` | editor sessions, prompts, pending requests | prompt, cancel, permission request, load |
| Compaction and replay | `compaction.ex`, `conversation.ex` | none (functions of the Log) | choose the range, write a checkpoint, fold to Provider input |
| Auth | `auth.ex`, `auth/*` | credential, token file | log in, refresh, save |
| Permissions, overlays, diffs | `permissions*`, `virtual_*` | denials, an in-memory file tree | decide, overlay, check then apply |
| Monitor client | `monitor/priv/static/app.js` | the address, held lists and details, the refresh in flight, generations, the last failure painted | parse and write addresses, refresh, refetch a source's list, handle an event, follow a hashchange, move the manual pane, resolve a dead end, paint |
| Monitor hub and stream | `monitor/lib/pixir_monitor/invalidation_hub.ex`, `log_watcher.ex`, `router.ex` | a sequence number; per subscriber one delivered and one coalesced hint | publish, subscribe, acknowledge, end a stream |
| Readers, configuration, skills, Monitor server, CLI | the rest | none durable | read and render |

`PROJECT.json` lists every component with its sources and says how far it is
modelled.

### How they interact

- `lib/pixir/application.ex` supervises everything one-for-one: a Manager,
  boundary or Auth process that crashes comes back empty while the Sessions it
  spoke to live on.
- Sessions, Turns and stream runners talk by messages. `Session.record/2` and
  the declaration of a committed call are synchronous; the result and the
  `:DOWN` of a Turn Task are not. A request stays in the mailbox when its sender
  dies.
- A Session publishes events on a Registry (`events.ex`). The Manager, the ACP
  server and the delegate runner subscribe. Delivery is in order per publisher,
  and there is no replay for who subscribes late.
- The Log is the only durable state of a conversation. A restarted Session
  re-derives its seq from it, a restarted Manager its agents.
- The lease file is the only coordination between operating-system processes.
- The Monitor's server polls the Logs and tells the client, over an event
  stream, only that a source changed. The client then reads an authoritative
  snapshot over HTTP. Nothing orders the two, or two requests.

### What is hard, and what makes it correct

| Component | Hard behaviour | Correct when |
|---|---|---|
| Session | the runner of a killed Turn goes on declaring calls; requests of a killed Turn wait in the mailbox; an append fails half way through a drain; the process restarts and generations start at one again | every acknowledged call is in the Log once and has one result; a new Turn starts on a closed Log; seq has no gap; a Turn that starts ends |
| Manager | child events, timers and client calls in any order; retries under new child Sessions; a restart while children work | the limit holds; the queue never stalls; each running agent has a deadline; a superseded attempt is not heard; no child works unseen |
| Lease | every file system call may be separated from the next by any pause; stale leases of paused processes are forced | one holder; one writer of the Log; an active lease cannot be forced; who lost the lease stops |
| Monitor client | answers that arrive after the reader has moved on; events coalesced or lost; one refresh shared by every cause; failure views that a pane moves over | at rest the screen is about the address, as new as what was announced or marked stale; a run is called lost only on a structured answer; the client comes to rest |
| Monitor views | paging, refusing, clustering and grouping of what is projected | nothing projected is hidden or counted twice; links lead where they say |
| Command boundary | per-request limits in one FIFO, late grants to callers that gave up | no slot is lost, nobody waits beside a free slot |
| Provider connection | reuse of response ids over reconnects, killed callers | an id is sent only with the prefix it continues |
| Turn recovery | three budgets, two kinds of compaction, retried requests | recovery ends; each retry sends a repaired history |
| Owners, ACP, Auth | cancel against spawn, cancel against completion, two refreshers | nothing survives a cancel; one answer per request; no dead token is saved |

`PROJECT.json` "hazards" lists these at their lines, with the property that
would catch each going wrong, or why there is none.

## 2. What is modelled

### `Session`: Session, Turn Task, stream runners, Log

State: `up`, `incarnation`, `turn_generation`, `turn`, `committed_calls`, `seq`
are the fields of the GenServer state (`session.ex:241-264`); `log` is the file;
`mailbox` the process's messages; `task` the Turn Task with the place it stands
in the loop; `runner` the stream runner of each Turn, because runners outlive
their Turn. `owner`, `declared` and `excused` are history variables that only
properties read. `faults` counts failed Log operations against `MaxFaults`.

Actions: one per handler (`HandleRecord`, `HandleDeclaration`,
`HandleStraggler`, `HandleStartTurn`, `HandleStartTurnBusy`, `HandleInterrupt`,
`HandleInterruptNoTurn`, `HandleTurnResult`, `HandleTurnDown`,
`HandleStrayExit`), steps of the Task (`TaskOpensStream`, `TaskRecords`,
`TaskReturns`, `TaskCrashes`), steps of a runner (`RunnerCommits`,
`RunnerCompletes`, `StreamFails`, `StreamIdleCut`), clients, and `SessionStops`
and `SessionStarts`. A handler that drains and reconciles is one action whose
*plan* is the list of events it means to append; a fault cuts the plan at any
event, as `reduce_while` does in the code. What the Task does with the reply is
part of the handler that replies.

Left out: live display events and the pressure warnings; all Turn events but the
last (`"message"` stands for them: they name no call); events recorded by
others than the Turn, such as `subagent_event`; declarations of more than one
call in one message; threshold compaction, during which the Turn buffers a
committed call and declares it once the checkpoint is written
(`turn.ex:1777-1796`); a kill that skips `terminate/2`; torn lines. The HTTP/SSE
retry of `Provider.attempt/5` is modelled; the WebSocket transport refuses to
retry after a commit (`provider.ex:346-355`), which is a subset of it.

### `CallLedger`: what a Session promises about every call

The abstract specification of `Session`. Each call is unknown, held, open or
closed. The variables are the standing of every call, whether a Turn runs, and
a count of stray records. A call moves only forward; a held call is forgotten
only by the end of its Turn; a Turn begins only over a ledger without open
calls. `Stray` admits by name the one exception the code makes, the record of a
killed Turn (finding 1), which may even open a closed call again.

`SessionLedger` instantiates it. A call stands where a later reader of the Log
would put it: what is pending is open, what is known and not pending is closed,
and what the Session holds is held. An event that finds its call in the wrong
place (a second `tool_call`, a `tool_result` with nothing open) maps its call to
a standing the ledger does not have, so the property `ImplementsLedger` says
that no handler, drain, reconciliation, retry, failed append or restart ever
writes one.

### `SubagentManager`: Manager and Scheduler

One parent. `agents`, `order`, `restored`, `mapped` are the parent's maps;
`waiting` one blocked client; `mailbox` the messages of the process;
`retry_timers` timers not yet fired (the timeout timer is a field of its
agent); `children` the child Sessions with what their Turn Task has told them
to publish; `subscribed` the event subscriptions; `past` what the parent Log
says of agents of a process that is gone; `spent` the bounds used.

A client call is an action that may run before any message now in the mailbox:
it is a call that was sent earlier. Handlers take the head of the mailbox. Each
handler includes the whole tail of its code path: `EndAgent` cancels the timer,
starts what is queued (`StartQueued`, the loop of `maybe_start_queued/2` with
every outcome of every start) and answers waiters. The retry path and the
retry wake-up do not share this tail in the code, nor in the model.

Left out: depth and policy checks before admission, workspaces and warm starts,
output warnings, several parents, different `max_threads` among spawns, a
crash in the middle of a handler, failed writes to the parent Log. Follow-up
prompts that are refused change nothing.

### `SessionLease`: the lease file and its users

Each writer is one Session process of some BEAM. Every file system call is a
step, so a writer may be paused between the read that allows something and the
write that does it: exclusive create and write, the read and the rename of a
heartbeat, authorize and append, the read and the removal of a release, the
status and the removal of a forced release. A file created but not written is
the *ambiguous* state of `classify_lease/5`. `stray` and `broken` are history
variables. `Careful` says that operators force only the lease of a process that
is gone; the help of `pixir resume` calls the option "break-glass"
(`cli.ex:2429`) and nothing enforces the care.

Left out: appends that take no lease, unsafe paths, I/O errors, clocks that go
back.

### `MonitorClient`: the browser client, the hub and the stream

`b` is the browser: the fields of `state` in `app.js`, the address, the screen,
the requests on their way and the promise callbacks that wait for them. Each
JavaScript function is an operator from browser state to browser state under
its own name (`Refresh`, `RenderProjectionFailure`, `HandleInvalidation`,
`RouteChanged`, ...) and each task of the event loop is one action:
`ReceiveAnswer`, `DeliverEvent`, `HashChange`, `StreamOpens`, `StreamBreaks`, a
click. A task runs to its end, so what a function calls belongs to the action,
and what follows an `await` belongs to the action that settles it. `hub` and
`wire` are the invalidation hub and the frames on their way; `Publish` keeps one
delivered and one coalesced hint, as the hub does. A version number stands for
the content of a source. `told` and `lost` are history variables: `lost` has a
run and the failure its last answer was, when that says the run is not
projected. It also has the dead end whose acquisition is answered after the
reader has come back (`DeadEndReturns`), the exception of `LossIsStructured`.

The generation counters are used only to ask whether they have moved since a
request was sent; so each request carries the answer, `fresh`, and raising a
counter clears it (`Bump`, `RefetchWorkspaceList`).

Where the operator goes is a constant, `Visits`, a set of addresses as
`parseRoute` returns them (`WellFormed`): an address at the overview or at a
dead end names no source and no run, one of a run names it.

Answers: the projection asked for, another run's, one without the addressed
unit, one on which the renderer throws; a structured 404 `run_not_found`
(`"lost"`), one that names a parent dropped by the per-log cap (`"capped"`), the
503 `run_log_limit` of a run that is itself over the cap (`"limit"`), any other
failure (`"failed"`). `"limit"` is an answer of single mode only: `router.ex:85`
sends what `fetch_run` returned, while a set rewrites every such error to
`workspace_unavailable` (`workspace_set.ex:174-178`, `router.ex:140`). Each of
the first two is a loss to `identityLossFailure`, drops what is held of the run
and licenses an acquisition; `"limit"` does neither, but is painted as
`dropped_parent` like `"capped"` (`app.js:4889`). Only the detail renderer
throws; those of lists and failures are taken as total: the unguarded throw of a
list view (`app.js:5338`) would need an input JSON cannot carry. The operator
acts on a page whose address has been handled. Left out:
malformed and repeated events (`validInvalidation`), which guide to the same
refetch; which manual page is open; focus, scroll and wording; the boot-error
screen.

### `MonitorRoutes`, `MonitorInventory`, `MonitorZoom`, `MonitorFanout`

The pure parts of the client, as operators.

- `MonitorRoutes`: `ParseRoute` and `RouteHash` over hashes that are segments
  and parameters, and the manual pane that travels on every address. A segment
  may not decode and an id may not encode.
- `MonitorInventory`: which rows of a list are refused and counted, how they are
  grouped, ordered by completeness and instant, searched and paged, where a
  dead end finds its parent, how the overview splits them.
- `MonitorZoom`: `deriveSemanticZoom`, window, clusters with their split of
  dense waves, boundary and overflow, aggregate arcs, pages of members and
  edges.
- `MonitorFanout`: groups by execution state and by family of reason, with
  their limitations and pages.

`MCMonitorViews` picks one bounded input in a step and evaluates on it a
reference definition of what the reader must be able to reach.

## 3. Runs

TLC, with the constants in each `.cfg`. State counts are of distinct states.

| Run | Bounds | States | What it shows |
|---|---|---|---|
| `session_turns` | 2 calls; 1 process with 2 Turns or 2 processes with 1 each; 1 retry, 1 Log failure | 0.87 M | `EvidenceKept`, `HeldByRunningTurn`, `SeqContiguous`, `TurnStartsClean`, `InterruptClosesLog` in every order; every Turn ends; `Session` implements `CallLedger` |
| `session_fence` | 2 calls, 2 Turns, no fault | - | violation of `InterruptFencesTurn`, see Findings |
| `manager_queue` | 1 writer, watched by a client, and 1 read-only agent; 1 slot, 1 retry, mailbox 2 | 0.27 M | the limit, superseded attempts, the client's answer; the queue moves on |
| `manager_recovery` | 2 agents, 1 slot, 1 retry, 1 follow-up prompt, 1 failed start, 1 restart of the Manager, mailbox 1 | 3.0 M | deadlines, the queue and orphans through a restart and a prompt |
| `manager_orphan` | 1 agent | - | violation of `NoOrphanTurn`, see Findings |
| `lease_orderly` | 3 writers, 1 careful forcer, clock to 5, 6 events | 0.17 M | `SoleHolder`, `SeqIsPlace`, `ActiveLeaseRefused` |
| `lease_stolen` | 3 writers, 2 careless forcers, clock to 2, 2 events | 0.65 M | a loser appends at most once more, and stops |
| `lease_race` | 3 writers, 2 careful forcers | - | violation of `ActiveLeaseRefused`, see Findings |
| `client` | single mode and a set of 2 sources, 2 runs; up to 3 changes, 2 clicks, 2 faults, 1 break, at most 4 of them in single mode and 3 in set mode | 2.19 M | what is at rest on the screen; no late answer is used; the single flight and its replay; the pane is an overlay; the client comes to rest |
| `client_told` | the same, single mode | - | violation of `ToldListIsShown`, see Findings |
| `views` | see below | 62 k | addresses, links, lists, graphs and fan-outs lose nothing |
| `views_overview` | the same | - | violation of `OverviewNamesItsAttention`, see Findings |

Why the bounds are enough. Two calls are needed to be in different states (one
recorded, one only declared) and to be ordered; two Turns to have a straggler
of the first during the second; two processes of one Turn each to give both the
identity generation 1. One failure at any position gives every partial plan.
Two agents and one slot give one that runs and one that waits, and with a retry
the agent itself goes back to the queue; more agents add only further waiters.
Three writers are a holder, one that takes the lease from it and one that comes
later. `MaxMailbox` bounds only what children and timers send, never a
handler. In the client, one request overtaken by a navigation and by a later
request, a hint coalesced behind an undelivered one, and a failure met by a
pane or by an acquisition each take at most four troubles; two sources are the
one shown and another. The inventory leaves out one version's child (`Unlisted`
is {1}), so that it can begin and cease to offer one. The theorems of section 5
hold without any of these bounds.

`views` makes the limits of the code small, so that short inputs lie on both
sides of each: 4 clusters (6 in the code), runs by 1 (50) with at most 2 (200)
rendered at once, members by 1 (12), edges by 2 (100), groups by 1 (12), a query
of 2 characters (256). Its graphs have up to 10 waves, lists up to 4 rows of 6
kinds, fan-outs up to 3 units of 12 kinds.

Deadlock is checked for `Session`, where a client can always do something. It
is off in `SubagentManager` (every agent may be closed and every bound spent),
in `SessionLease` (every writer may be gone and the clock at its end), in
`MonitorClient` (a client at rest whose troubles are spent) and in the views
(one input): all are states in which the system may rest.

### Fairness

- `Session`: weak fairness of the handlers (a BEAM process with a message is
  scheduled), of the Task's own steps, and of the completion of each stream.
  The last is justified by the idle watchdog and the request timeout, which end
  a stream that does not end by itself. Nothing is assumed of clients, crashes
  or the restart.
- `SubagentManager`: weak fairness of the handlers and of the timers. Children
  get none: a child that hangs is what the timeout is for.
- `SessionLease`: weak fairness of what an opened Session does by itself
  (folding, appending what it authorized, its heartbeat timer), for each writer.
- `MonitorClient`: none. That the client comes to rest is stated as an action
  property, `WorkRunsOut`: every step that is not a trouble from outside lowers
  a natural number, the work still to come. With the server answering and the
  event loop running its tasks, the client rests after finitely many of them.

## 4. Findings

Each is a run that TLC finds violated; `PROJECT.json` quotes the line that
promises otherwise.

1. `session_fence` - `record/2` (`session.ex:312`) does not ask whether the
   sender's Turn still runs. A record already in the mailbox behind an
   interrupt is appended after the interrupt answered `:ok`, whose comment calls
   that answer "a durable logical-Turn fence" (`session.ex:569-570`).
2. `manager_orphan` - child statuses carry no Turn identity (`manager.ex:1473`):
   the `interrupted` of an earlier Turn ends the run that `send_input` has
   started since, while its Turn works on without a timeout.
3. `lease_race` - `force_release/2` (`session_lease.ex:202`) removes whatever
   is at the path when it gets there: of two operators forcing the lease of one
   dead process, the slower removes the active lease of the faster.
4. `client_told` - in single mode an event handled at an address that does not
   decode refetches nothing (`app.js:5256`); back at the runs, the list held
   from before is painted as current.
5. `views_overview` - the Workspace Overview asks a listed row for
   `attention.required` (`app.js:4793`), a field that only a unit of a detail
   has, so it names no run under attention.

Smaller disagreements met while modelling, which the model reproduces but which
have no run of their own:

- A retryable `turn_failed` (`manager.ex:447`) handled after a close or a
  timeout takes a terminal agent back to `queued`.
- An agent reattached after a Manager restart has `max_threads` 0
  (`manager.ex:1949`). When it is retried it heads the queue and nothing behind
  it starts; hence `QueueNeverStallsBeforeRestart`.
- `restart_agent/4` (`manager.ex:1088`) does not look at `max_threads`, though
  ADR 0011:41-42 gives the Manager that limit; hence `QueueStartsWithinLimit`
  instead of `ActiveWithinLimit` once there are follow-up prompts.
- A retried agent keeps its place in `order` (`scheduler.ex:37`) and overtakes
  those that waited, against ADR 0011:50-52.
- The retry wake-up (`manager.ex:421-429`) does not call `reply_waiters/1`: when
  the retried start fails, a blocked client waits for its own timeout. This is
  why `manager_queue` has no failed starts.
- Cancelling a timeout timer (`manager.ex:2472`) does not take back a timeout
  already sent, which then ends the next run of the agent at once.
- `Log.append/2` authorizes and then writes (`log.ex:125`): a process paused in
  between stamps a seq that the new holder stamps too, though the lease is there
  "so a second OS process cannot become a competing Log writer"
  (`session.ex:29-31`). `OneStrayAppend` is what remains true.
- `SessionLease.release/1` (`session_lease.ex:164`) compares and then removes,
  with the same window.
- A dead end is to be repainted by the inventory it asked for "only while it is
  still the rendered view" (`app.js:3113-3114`), and its licence is to name "the
  id whose LAST authoritative response was a structured run_not_found"
  (`app.js:992-994`). The code tests only that some error view is mounted
  (`app.js:3121`), and a later answer that is painted as an identity conflict, an
  absent unit or a Monitor defect leaves the licence: the dead end then comes
  back over that view. `LossIsStructured` excepts exactly this
  (`DeadEndReturns`).
- A run over the per-log cap is painted as a dropped parent, "not a fetch
  outage", in single mode only. `droppedParentEvidence` takes it "from fetching
  the oversized parent itself (kind run_log_limit)" (`app.js:4847-4848`), but
  the scoped route of a set never sends that kind (`workspace_set.ex:174-178`,
  `router.ex:140`): there the same run is a `projection_unavailable`, and on a
  following route in either mode a `snapshot_unavailable` (`app.js:4969`).
- `provider/connection.ex:406` keeps the previous response id when a response
  has none, but replaces the input it belongs to.
- An answer that arrives between a click and its hashchange is painted under the
  new address (`app.js:5213-5261`). A list view painted so may be of another
  source than the address's, and stays until that source's own list arrives.
  So `VersionsNeverRegress` follows the views whose version is the one held, and
  `ManualIsOverlay` those (`Rests`) and every view once nothing is on its way.
- A failure view is replayed when the pane moves with what the inventory of that
  moment says of its id (`app.js:5066`): a parent offered since then resolves it,
  and one no longer offered leaves it unresolved. `ManualIsOverlay` allows both.
- The first opening of the stream does not refetch (`app.js:5377`): a change
  between the first answer and the subscription is seen only with the next one.
- After a reconnection only what the address shows is read again, though any
  source may have changed while the stream was down (`app.js:5377`).
- After a restart of the hub an open stream has no subscription and stays silent
  until its lifetime of 300 s ends (`router.ex:13`).
- A fetch has no timeout (`app.js:5162`): one that is never answered keeps the
  single flight.

## 5. Theorems

Checked by TLAPS for all values of the constants that satisfy
`SessionAssumption`, `ManagerAssumption`, `LeaseAssumption`,
`ClientAssumption` and `RoutesAssumption`: any finite set of calls, agents or
sources, any set of writers or runs, any bounds, any workspaces and addresses.

`Session`
- `SessionProofs!TypeCorrect`. Helper lemmas say what `Listings`, `PlanFor`,
  `AppendFirst` and `Forget` return.
- `SessionProofs!SeqContiguousCorrect`. Every handler that changes the Log
  appends a prefix of a plan at the running seq (`HandleAppends`), and a new
  process takes up the count where the Log ends.
- `SessionProofs!EvidenceKeptCorrect` and `HeldByRunningTurnCorrect`,
  from the inductive invariant `EvidenceInv`. Neither is inductive alone: what
  the Session holds after a declaration belongs to the running Turn only
  because every declaration in the mailbox names the Turn that committed the
  call (`DeclarationsOwned`), and what a returning Turn drops is excused only
  because it was its own. A consequence worth knowing: when a Turn is started
  nothing is ever held, so the drain of `start_turn/2` is a second line of
  defence and never writes a call.
- `TurnStartsCleanCorrect` and `InterruptClosesLogCorrect`, from the lemma
  `Closes`: a drain followed by the reconciliation of what was pending leaves
  no pending call.
- `SessionProofs!ImplementsLedgerCorrect`: `Session` refines
  `CallLedger`. Every append of a `tool_call` must find its call unknown to the
  Log and every `tool_result` must find it open, and the Session does not check
  either, so both rest on who sends what. `LedgerInv` adds to `EvidenceInv`
  what makes it so. `Owning`: a Turn that ran has a number already given out,
  the living Task is the running Turn's, and a record in the mailbox carries a
  call of the Turn that sent it. `Fitting`: a record or a call still to run of
  the living Task fits the Log as it stands (`RecordsFit`, `TodoFits`), its
  stream brings each call once and none that it ran already (`StreamFits`), and
  what the Log knows of its calls it has handed over (`KnownFits`). The step
  from a Session's Log to the ledger is one lemma per kind of append; a drain
  with reconciliation is one step of the ledger, not one per event. A record of
  a killed Turn is `Stray`.

`SubagentManager`
- `SubagentManagerProofs!TypeCorrect` and `RunningHasDeadlineCorrect`. The
  latter is inductive with the type invariant: every path to `running` arms the
  timeout and a handler that takes a timeout from the mailbox ends the agent.
- `SupersededAttemptIsMuteCorrect`, from `MapInv`: a mapped child is the
  current child of its agent, and an agent that has none, or is yet to be
  restored, is mapped nowhere.
- `NoOrphanBeforePromptCorrect`, from `OrphanInv`: before any follow-up prompt,
  a child whose Turn runs is the current child of a running agent, or of one
  that a restart has yet to restore (`Held`). A handler that ends an agent on a
  child's word leaves none behind because that word is the child's last
  (`SaidLate`, `HeardLate`), and a new attempt finds no child because none of
  its number was ever made (`Born`).
- `WaiterIsAnsweredCorrect`: as long as no child start has failed, no client is
  blocked on agents that are all terminal. The condition is the code's: the
  retry wake-up (`manager.ex:421-429`) answers no waiter, so the start that
  fails there leaves one blocked (section 4). `manager_queue`, which checks the
  property as it stands, has no failed starts for the same reason.
- `SubagentManagerProofs!ActiveWithinLimitCorrect`, for runs without follow-up
  prompts and restarts (`MaxInputs = 0`, `MaxRestarts = 0`): with either the
  code may exceed the limit. `QueueStartsWithinLimitCorrect` holds always.
- `QueueNeverStallsBeforeRestartCorrect`, from `QueueInv`. Its core is the
  lemma `QueueEmptiesOrFills`: the loop that starts the queue ends with an
  empty queue or with all slots taken, provided that every queued agent has its
  cap, which is what a restart breaks (section 4).

`SessionLease`
- `TypeCorrect`, and `OneStrayAppendCorrect` with no assumption on operators.
- `SoleHolderCorrect` and `SeqIsPlaceCorrect` under `Orderly`: operators are
  careful and at most one forces. The invariant adds that a forced removal in
  progress is of a dead process's file (`RemovesTheDead`) and that a holder
  past its fold knows the length of the Log (`KnowsTheLog`).
- `ActiveLeaseRefusedCorrect` under `Orderly`: the file a force removes is still
  stale when it is removed (`RemovesWhatIsStale`), because a process that is
  gone writes no heartbeat and nobody else removes it first. `lease_race` shows
  that two operators are enough to break it.

`MonitorClient`
- `MonitorClientProofs!ClientInvariant`, an invariant inductive by itself,
  `ClientInv`, of which all that follow are consequences or steps. What is
  outside the browser needs only its type (`Outside`): hints may come in any
  number and order and say anything. `BrowserInv` is about the browser alone:
  - `Client`: the types, with every address in use well formed;
  - `Net`: each list that a callback waits for is on its way, and for that
    callback only, so an answer finds one callback and no callback waits for
    ever for a list nobody asked;
  - `Flying`: the single flight and the replay of what it supersedes;
  - `Aimed`: an answer that will be used, of a request still fresh, is about the
    address, and an inventory that will be used is for an address that names a
    run, unless the address has moved and its hashchange is to come;
  - `Addressed`: once the address has been handled, what the client remembers
    of it is what it is;
  - `Recorded`: the record of the last failure is there exactly while a failure
    is painted;
  - `ScreenKept`: the view and its pane are the address's, or something is on
    its way that will paint it (`Busy`), or the hashchange is to come (`Moved`).

  Each function of `app.js` has a lemma that it keeps `BrowserInv`, or that it
  restores it from what its callers leave; a task of the event loop composes
  them.
- `TypeCorrect`, `SingleFlightCorrect` and `SupersededIsReplayedCorrect` (from
  `Flying`), `FreshAnswerIsRoutedCorrect` (from `Aimed`),
  `LastPaintDescribesScreenCorrect` (from `Recorded`) and
  `SettledViewIsRoutedCorrect`: a client at rest shows its address, because at
  rest nothing is busy and nothing has moved. None of them limits the number of
  changes, faults, breaks or clicks.
- `LossIsStructuredCorrect` says that a client at rest shows the run of its
  address as lost only if the last answer about that run grounds the view:
  `dropped_parent` on a `run_not_found` that names a parent or on the run's own
  `run_log_limit`, `not_found` on a `run_not_found` that names none, the others
  on a `run_not_found` (`Grounds`). It carries `LossInv` beside `ClientInv`: the
  failure that the page records was said of its address (`lost`), or the page is
  `Excused`, that is it names no run, or paints no loss (`Calm`), or is to be
  painted again; `Recorded` adds that what is painted has grounds in what is
  recorded. The lemma of each function adds that it makes no new loss
  (`NoNewLoss`), or that it records the failure it was given (`Cites`), or that
  it leaves the page excused; the answer of a run request or of an acquisition
  may record one, and then `lost` has it (`Believed`).
- `WorkRunsOutCorrect`: every step of a client left alone lowers `Work`, which
  sums the requests on their way and the refreshes to replay (`Load`), the
  events and hashchanges to come. Each weighs more than all it can start, and
  the lemma of each function says by how much it changes the load (`Costs`); a
  task composes them (`Drains`). The one possible cycle is a dead end, whose
  acquired inventory repaints it and could so ask for another: it is cut
  because the acquisition is known by `resBusy` as long as it lasts (`Light`),
  and `resBusy` is lowered only after the repaint.
- `MonitorSnapshotProofs!VersionsNeverRegressCorrect`, from `ContentInv`, which
  relates the snapshots. `Contents` says what each list and each detail that is
  held is a snapshot of, and that an answer that will be used is no older than
  what it replaces (`Newer`); `Read`, that nothing held or answered is of a
  version to come; `Pictured`, what a view of each kind is made of. The lemma of
  each function then says that a task `Advances`: it paints a failure, it
  empties the screen, or what is held only grows (`Ahead`) and the screen is
  left as it was or painted with what is held now (`Redraws`). A repaint from an
  older snapshot is none of these.
- `MonitorToldProofs!ToldIsShownCorrect`, from `ToldInv`. An announcement is
  accounted for in three places, and the invariant follows it from one to the
  next: nothing told or still on the stream is ahead of the sources
  (`Announced`, `Hinted`); what is held or answered is as new as what was told,
  or is marked stale, or is asked for again (`Tells`); the screen is a failure
  or blank, or shows what is held, or something is on its way that will paint
  it (`Sound`). A client at rest has nothing on its way, so what is left is that
  its screen shows what was told or says that it does not. The case nobody
  would write a test for is a hint that arrives while the answer it makes stale
  is already on its way: the answer is used and the replay of what it
  superseded is what brings the new one.
- `MonitorToldProofs!ManualIsOverlayCorrect`. It compares the screen before the
  pane moves with the one after, so each view must be one that a repaint brings
  back. For a failure that is its record (`ReplayRecords`); for a projection it
  is what is in hand, and `OverlayInv` says that it still is: a run view is of
  the projection in hand as long as the address has not moved, and that
  projection is one the renderer does not throw on (`Readable`), rows are of the
  list in hand (`Rows`, `Rowless`), no projection is shown where the address
  names none (`Void`), and a forced retry, which keeps a run on the screen
  without asking for it first, waits for its hashchange and moves no pane
  (`Forced`). Answers and events leave the address, the pane and the retry alone
  (`Steady`), so of them it is enough that what they paint is in hand
  (`SteadyOverlaid`); the two that move them, the operator and the hashchange,
  have lemmas of their own. With nothing on its way the view is of what is held
  (`SettledRests`, from `Sound`), so the theorem's second case needs `ToldInv`.
- `ClientAssumption` says of the constants what the code gives: the sources of
  a set are finitely many and there is one, addresses are as `parseRoute`
  returns them, and `None`, the model's `null`, is no source, run, version,
  record, projection or answer.

The addresses
- `MonitorRoutesProofs!PaneIsOverlayCorrect`, for every address an operator can
  type (`Typed`: a path of any length, whose segments decode or do not, and any
  parameters),
  and `LinkReachesItsRunCorrect`, for every link the client can render
  (`Rendered`: ids that encode or do not, empty attempts and phases included)
  from every such address; in both modes of the page and for every list of
  workspaces. Both go round the loop of `parseRoute` and `routeHash`: what
  `ParseRoute` returns is `Routable`; of a routable route `RouteHash` writes
  the same text wherever the operator is, with only the pane to choose
  (`Written`); and reading that text again gives a route `Alike`, the same view
  of the same run and list, where a number beyond the safe integers becomes its
  default. No induction is needed, because a
  rendered address has at most seven segments and one parameter.
- `RoutesAssumption` says that a workspace key is a non-empty string, as
  `@key_regex` of `monitor/lib/pixir_monitor/workspace_set.ex:12` demands, that
  the sort words are too, and that the tokens for a segment that does not
  decode, an id that does not encode and `null` are not strings, nor each other.
- `MonitorViewsProofs` makes the run's properties `PaneNeverMovesTheReader` and
  `LinksReachTheirRuns` instances of the two: what `MCMonitorViews` chooses is
  typed and rendered, and the mode of a single workspace is the same module
  with `Workspaces <- <<>>`. `InputsAssumption` says of the constants of that
  run what its configuration gives.

What stays with TLC:
- liveness (`TurnSettles`, `QueuedMovesOn`, `LossStopsTheSession`) and anything
  with `ENABLED`, which the prover does not do;
- of the views, `RunsAreAllReachable`, `RefusedRowsAreCounted`,
  `ZoomHidesNothing` and `SiblingsAreAllGrouped`, whose operators fold and
  select from sequences of any length: what they compute for every input needs
  an induction over data that the provers cannot instantiate.

## 6. Not modelled

- Of the Monitor: element construction, focus and scroll, wording, the manual's
  text, the server's projection, the measurements of the bench gate
  (`monitor/bench`) and the settings of the site.
- Wire formats, argument parsing, rendering, file tools, skills and
  configuration: data and I/O with little control state.
- The command boundary, the provider connection, Turn recovery, workflows,
  delegation owners, the ACP server and Auth have control state, but share none
  with the modelled processes beyond the operations of Session and Manager that
  they call. Each would be a specification of its own.

## 7. Plan

What could follow is the components of section 6 with control state, the command
boundary (a counting semaphore refined by a queue with limits per request) and
Turn recovery (a measure that each retry lowers) first.
