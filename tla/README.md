# A TLA+ model of GraphARC

GraphARC runs graphs of LLM agents under budgets, gates and a planner whose
proposals are admitted before they run. This directory holds TLA+ modules that
model the parts of `src/grapharc` where the order of events decides, the TLC
configurations that check them on small instances, and TLAPS proofs of the
results that matter most for instances of any size.

Reading order: this file, then `SessionLifecycle`, `SessionRuntime`, and any
other module on its own. `PROJECT.json` maps every definition to the lines it
models, and names for every property the slip of the code that breaks it.

## 1. Inventory

Each entry lists the state a component keeps, its operations, whom it talks to,
what is hard about it, and what makes it correct. Paths are under `src/grapharc`.

### Sessions

**Session runtime** (`session/runtime.py`, `registry.py`, `approval.py`).
State: none of its own between calls; a `run()` holds the record and snapshot it
read, the drained messages and decisions, the stream. Operations: `run`,
`send`, `interrupt`, `decide`, `terminate`, `reclaim`. Talks to the session
store, the checkpointer and the graph kernel. Hard: four reads before one
compare-and-set; gates on a parallel superstep; rejections filed as writes; a
queue consumed before the stream opens; a death between the kernel's
checkpoint and the settling transition. Correct when: one process drives a
session, a gated node never runs unanswered, a settled gate is on the record,
consumed input reaches the graph, a queued interrupt stops the turn.

**Session store** (`session/store.py`, `db.py`). State: the tables `sessions`,
`session_events`, `session_transitions`. Operations: `create`, `transition`,
`release_dead_runner`, `push`, `take`, `consume`. Several processes have the file
open. Hard: the write lock, the liveness check of a pid, refusals half way.
Correct when every operation behaves as one indivisible step on the tables.

### One invocation

**Deadline guard** (`runtime/budget.py`, `deadline_guard`; `runtime/graph.py`,
`_async_deadline`). State: `armed`, `fired`, the timer, a lock. A timer thread
queues an asynchronous exception in the pooled thread that runs the node, or
cancels its coroutine's task. Hard: the exception may be raised at any bytecode
boundary, the teardown's included; a node may swallow it; the caller may cancel
too. Correct when a torn-down guard is quiet, an interrupted node writes nothing,
and the guard hands back its own cancellations and no other.

**Budget meter and usage** (`runtime/budget.py`, `usage.py`, the node wrapper in
`graph.py`). State: counters of the run, and a scope per node execution.
Operations: `charge_tokens`, `charge_iteration`, the checks, the LLM callback.
Hard: checks and charges are separate steps of concurrent nodes; a call may be
reported twice or not at all. Correct when spend is charged once and attributed
to the node that spent it, and ceilings are overshot by one call each at most.

**Graph kernel** (`runtime/graph.py`). State: the declared edges, routers,
dispatchers; per run the tasks of a superstep and the channels. Operations:
declare, `compile`, run a superstep, route, `Send`, `Command`. Supersteps are
LangGraph's. Hard: what a body or a router returns takes the graph anywhere. Correct
when every place the kernel checks is gone to, what lands was declared and, under
`dag=True`, a run goes round no declared cycle.

**Trace and its readers** (`observe/`). State: a file of events, an index of what
it held. Operations: `record`, the index, replay, totals, costs, statuses, the
page's view, the mermaid picture, Slack's progress, spans, the tail. Hard: other processes append to the file, a kill cuts a line, a resumed
thread's steps are seeded from what could be parsed; concurrent executions
interleave. Correct when step numbers are unique, each token is
counted once and the readers of one file say one thing.

**Live page** (`server/live.py`). State: the cursor of each page. Hard: the size
it waits on and the bytes it read are of different moments. Correct when what is
on file is shown in the end and the flags say what is going on.

**State, convergence, fan-out, verification, parsing** (`runtime/`): reducers and
helpers of a graph's author. Not modelled, but for the one reducer whose conflicts
the kernel turns on.

### Planning

**Planner node and proposals** (`planner/proposal.py`). State: the turns of one
call with its repairs. Correct when what it hands on has the shape of a proposal
and the fingerprint names its content.

**Admission** (`planner/admission.py`). Pure: seven checks, a worst case, a
verdict. Hard: the worst case of plans with joins, self-loops and nested scopes;
names that collide with the live graph's. Correct when the verdict depends on the
plan and not on its names, and the estimate covers the run.

**Materialisation** (`planner/materialize.py`). State: the built graph. Hard:
proposal, verdict and registry change between the check and the build; bodies add
edges. Correct when what runs is what was admitted.

**Governed loop** (`planner/loop.py`). State: the round, four streak counters,
the run's meter, the halt flag, the records. Operations: `run`, `request_halt`.
Talks to the planner, the admission checker, the materialiser, the gate and the
compiled graph. Hard: each counter has its own reset, each failure its own way
out, each round its own meter. Correct when a run stops, for a true reason,
inside one budget, having executed nothing the gate did not approve.

**Approval file** (`planner/approval_file.py`, `cli/approve.py`, the Slack
buttons). State: `approval-request.json` and `approval-decision.json` of a
directory, with a temporary file each. Hard: several runs and approvers on the
same two names, answers left over from earlier questions, kills. Correct when an
answer reaches the plan it was given to, and only the question it was given after.

**Command line** (`cli/`) and **MCP driver** (`mcp/`). State: `plan.json`, the
generated policies, the run's directory. Operations: `run`, `plan`, `go`, `agent`
and their tools. Hard: nothing locks what processes share, any is killed, and a plan
is written over another. Correct when a plan is executed once unless asked, one run id
names one run, and a generated policy is nobody's but its registry's.

### Agents

**Harness** (`harness/`). State: an agent's loop (iterations, stalled calls, what
it has seen), the tool's process. Operations: the gate of a call, the executors,
the loop. Hard: the deadline interrupts anywhere; a child process outlives its
killer. Correct when a call runs only as licensed, a timeout ends what it started,
one result is returned, and every agent stops.

**Tools** (`tools/`) and **registries** (`registries/fix_issues.py`, `stdlib.py`).
State: files, and who holds the lease of each. Hard: two fixers of one superstep
on one file. Correct when an edit answered "written" is in the file.

**Policy** (`policy/`). State: a document by tenant. Correct when the strictest
matching rule decides and an `ask` goes to an approver.

**Gateway and model providers** (`gateway/`). State: the spend meter, the usage
envelope of the last call. Hard: concurrent callers check the ceiling before any
is charged; an answer may state no cost, and a call may be billed and fail; a retry
repeats what was shown. Correct when what answers state passes the ceiling by a
bounded amount and nothing is repeated that must not be.

### What outlives a run

**Claim memory** (`memory/store.py`, `sqlite_store.py`, `ladybug_store.py`,
`contradiction.py`). State: claims with `superseded_by`, and edges in the graph
backend. Operations: `add`, `supersede`, `add_and_detect`,
`unresolved_contradictions`. Hard: callers act on copies and reports that may be
stale; the two representations of a mark. Correct when corrections lead to a
claim that stands, the backends agree, and of two who disagree one is told.

**Retrieval** (`memory/retrieval.py`, `index.py`, `embeddings.py`, `text.py`).
State: none; a brief is read from a store that is corrected meanwhile. Correct
when it finds every dead end about what it says, says nothing retracted as an edge,
and shows a line or says that it left some out.

**Artifact memory** (`memory/artifacts.py`). State: blobs named by digest, rows.
Operation: `put`. Hard: kills, refused calls and power cuts between the rename,
the sync and the row. Correct when a row names whole content.

### Servers

**Server runtime and stream** (`server/runtime.py`, `app.py`, `models.py`). State:
the sessions with their events and status, the pool, `_closed`. Operations:
`create`, `interrupt`, `shutdown`, the worker `_run`, the SSE stream. Hard:
shutdown against creation and queued workers; nodes recording at once; lost
connections. Correct when each accepted session ends, a stream that reports the
end is whole, and after shutdown nothing is open.

**Slack bot** (`slack/`). State: per message the child process, the status message
and its buttons. Hard: anybody may type; a plan is replaced under its buttons; any
call fails. Correct when what runs is what was typed and admitted, a button
answers the plan it showed, and the requester hears.

**Not modelled**: the session demo graph, `testing.py` and `examples/`
(demonstrations and test helpers), `server/registry.py` and `errors.py` (a name
table, exception classes), `bench/` and the documentation site. "Partly" in
`PROJECT.json` says of each other component what is left out of it; section 6
gathers that.

## 2. Modules

| module | models | kind |
|---|---|---|
| `SessionStatus` | the statuses and `_ALLOWED` | definitions |
| `SessionLifecycle` | what one row promises, whoever drives it | abstract |
| `SessionRuntime` | `Session.run` and its callers, read by read | detailed; implements `SessionLifecycle` |
| `SessionTable` | the three tables, an operation a step | abstract |
| `SessionStore` | `SessionStore`'s transactions, statement by statement | detailed; implements `SessionTable` |
| `DeadlineGuard` | the thread form of `deadline_guard` | detailed |
| `AsyncDeadline` | the coroutine form, `_async_deadline` | detailed |
| `BudgetMeter` | a meter shared by concurrent node executions | detailed |
| `GraphKernel` | a graph declared, compiled, run and edited | detailed |
| `TraceTail` | the trace file, its recorders, index, page and tail | detailed |
| `TraceLog` | what replay, totals, statuses, the page, the pictures, Slack's progress and the spans compute | operators |
| `TraceRun` | the events of a run, read at every prefix | detailed; extends `TraceLog` |
| `Proposal` | a planner's turns, a proposal's shape and fingerprint | operators |
| `Admission` | the seven checks, worst case, verdict | operators; extends `Proposal` |
| `PlanGate` | propose, check, build, run | detailed; extends `Admission` |
| `GovernedLoop` | `GovernedLoop.run` and `request_halt` | detailed |
| `ApprovalFile` | gates and approvers on one directory | detailed |
| `PlanFile` | `plan`, `go` and `execute` on `plan.json` | detailed |
| `CommandRun` | the processes of `run`, `plan`, `go`, `agent` | detailed |
| `Harness` | what a tool call may do: document, tiers, router | operators |
| `AgentTurns` | the agents of a superstep, their leases and files | detailed; extends `Harness` |
| `ToolRun` | one call's process, container or command | detailed |
| `Gateway` | retries, spend and the usage envelope | detailed |
| `ClaimStore` | claims, corrections, detection, three backends | detailed |
| `Retrieval` | a brief read while claims are corrected | detailed; extends `ClaimStore` |
| `ArtifactStore` | `SQLiteArtifactStore.put` under kills and power cuts | detailed |
| `ServerRuntime` | `InProcessRuntime`, its recorder, the SSE stream | detailed |
| `SlackGate` | what a message becomes, and what argparse makes of it | operators |
| `SlackBot` | one message, its child, its live message, the clicks | detailed; extends `SlackGate` |
| `SessionRuntimeProofs`, `AgentTurnsProofs`, `ServerRuntimeProofs` | theorems about the module they are named after | proofs |
| `StoreProofs` | about `SessionStore`, `ArtifactStore`, `ClaimStore` and `Retrieval` | proofs |
| `RuntimeProofs` | about `DeadlineGuard`, `AsyncDeadline`, `ToolRun`, `TraceTail` and `GraphKernel` | proofs |
| `LimitsProofs` | about `BudgetMeter`, `Gateway`, `SlackGate` and `SlackBot` | proofs |
| `PlanningProofs` | about `GovernedLoop` and `PlanGate` | proofs |
| `DirectoryProofs` | about `PlanFile`, `ApprovalFile` and `CommandRun` | proofs |
| `MC*` | graphs, plans, claims, command lines and symmetry sets for TLC | model checking |

`MCStores`, `MCRuntime`, `MCPlanning`, `MCAgents`, `MCDirectory` and `MCWatching`
put components that share no variable side by side: the variable `part` says which
one a behaviour is about, and each property of the module is the components' own.
They extend the components that have theorems, so that what a run checks and what a
theorem states is one definition, and take the others with `INSTANCE`; the
definitions of a component that meets another there carry its name (`LoopInit`,
`StoreNext`, `PlanSpec`, `asyncVars`).

How state and actions correspond to the code:

* *SessionRuntime.* `status`, `runner`, `holds`, `turns` are the row's columns;
  `queue` is `session_events`; `ckpt` is the thread's latest checkpoint (`todo`
  is `snapshot.next`, `filed` the tasks with writes on file, `due` what those
  schedule). `run[p]` is the local state of process p's `run()`, and `pc` goes
  through the method in order: `ReadRecord`, `ReadSnapshot`, `ReadVerdicts`,
  `Claim`, `TakeQueuedInterrupt`, `ReadQueue`, `Prepare`, `Consume`, `Open*`,
  then `Boundary`, `RunTask`, `StepCommit` for the stream and `Settle*`. The
  kernel's checkpoint is written in the background (`Save`), so the database may
  lag behind a stream until it is closed.
* *SessionStore.* `rows`, `trail`, `events` are the committed tables, `lock` is
  sqlite's reserved lock, and `txn[p]` the call in progress with its uncommitted
  `draft`. `BeginImmediate`, `Check`, `Refuse`, `Write*`, `Commit` are the statements of
  `_transaction` around each operation.
* *DeadlineGuard.* `state` is the closure's dict and lock, `timer` the timer
  threads, `slot` the one exception CPython can hold for a thread. `Deliver*`
  raise it at each place of the body, the teardown and beyond.
* *AsyncDeadline.* `requests` is `Task.cancelling()`, `thrown` the error waiting for
  the task's next step, `fired` the guard's own count; the caller's cancellations
  and what the node catches are actions of their own.
* *BudgetMeter.* `RefuseEntry`, `Admit`, `ChargeIteration` are `_enter`; `LlmEnd`,
  `LlmCheck`, `LlmRaises` the usage callback; `Report`, `ChargeUnseen` the two
  outcomes of `charge_tokens`; `BodyRaises`, `LeaveNode` the ways out.
* *GraphKernel.* `graph` is what was declared, `tasks` and `results` one superstep's;
  `Run(t)` takes every return value a body may make, `Superstep` applies the writes
  and routes, `Edit` is `update_state` between runs. A router answers keys of its
  mapping and a `Send` which `_checked_router` passes on unread; `owed` holds the
  tasks that were asked for in a way `GraphARC` checks.
* *TraceTail.* `disk` is a sequence of what single `write` calls left; `proc[p]` a
  recorder with its index; `PageStep` and `TailStep` go through the two followers.
* *TraceRun.* One action per event of a run; the properties apply `TraceLog`'s
  readers to the file after each. `naming` says whether an agent goes by its node's
  name and whether a later round uses the names of the first; `paid` counts the calls
  of a node that stated a price.
* *PlanGate.* One action per call between a planner's turn and the end of the run,
  and `Edit`, `Register` for what the caller may do between them.
* *GovernedLoop.* One action per place the loop can be left: `Precheck`,
  `Boundary`, five planner outcomes, two of admission, three of building, the
  gate, the round's execution and its three endings.
* *ApprovalFile.* One action per file system call of `file_approval`'s gate and of
  an approver; an open descriptor follows its file through a rename.
* *PlanFile.* `record` is `plan.json`, `traced` what the directory's trace shows;
  `plan` truncates and writes the record, whatever it held, and a `go` looks, starts,
  begins its nodes, and truncates and writes it too.
* *CommandRun.* One action per look and write of a command, from its arguments to
  its last event. `Ceiling` is what the flag, the environment or `grapharc.toml` says,
  and for `agent` what its flag says or its default.
* *AgentTurns.* `pc[a]` goes through `AgentNode.run`, `Harness.call` and the tool's
  body; `Interrupt(a)` raises at any of those places once the deadline passed.
* *ToolRun.* `waiter` is the caller: it waits, kills, removes and reaps; `tool` and its pipe or output
  are the other process's.
* *Gateway.* `at[c]` goes through one call; a step ends where another thread may
  touch the meter or the envelope. `bill` is the provider's: what answers stated, and
  what an answer without a cost or a failed attempt of the CLI was billed out of sight.
* *ClaimStore.* One action per store operation (each is one transaction or one
  lock); `report` is what a caller holds between detection and correction.
* *Retrieval.* `half` is a correction between its two assignments, `stage` the
  place of `render_context`; scores are inputs. `dead` is what was found retracted,
  `ShownDead` what `max_dead_ends` and the room leave of it.
* *ArtifactStore.* `Put` lists the steps of `put()` in order; an action per step,
  and `Fault`, `Kill`, `PowerCut` between any two.
* *ServerRuntime.* One action per critical section of the runtime's lock, per
  record written and per frame sent.
* *SlackGate, SlackBot.* `argv` is what `parse_command` lets through, `message` the
  status message and its buttons; `Narrates`, `ClickReads`, `ClickWrites` and the
  child run beside the worker, and a call to Slack may fail at each.

## 3. Runs

Deadlock is not checked: the bounds, and the systems themselves, make an end (every
call returned, every node ended, every command exited).

| run | instance | what it shows |
|---|---|---|
| `session_hostile` | 2 processes, a line graph with a gate, 2 turns, 1 event, 2 crashes, pid reuse, terminate, refused input, raising `describe` | `DriverIsClaimant` (`OneDriver`, `DriverHoldsClaim`), `ImplementsLifecycle` |
| `session_turns` | 1 process, a graph that may loop, two gates on one superstep, 3 turns, 3 events of three kinds | `TurnsEndClean` (`RunningIsDriven`, `GateOnBoundaryIsHeld`), `InputsAreHonoured` (`NoUnsignedRun`, `ConsumedIsDelivered`), and `InterruptStopsTheTurn` |
| `stores` | 2 processes on 2 sessions, 3 rows, 1 event, 1 crash; 4 claims, 2 agents, 2 briefs; 2 writers of 2 contents, 1 kill, 1 refused call, 1 power cut | `TablesAreSound`, `ImplementsTable`; `CorrectionsAreSound` (`ChainsEnd`, `RacersAreTold`); `WarnsOfItsFacts`, `BriefIsTrue`; `ContentIsKept` |
| `runtime` | 2 guards in turn, 8 teardown attempts as in the code; 3 firings, 2 cancellations; 3 executions of 4 calls; every graph of 2 nodes (one static edge at most beside a router), 3 supersteps; 2 recorders, 3 runs, 1 split write, 1 kill; a tool's process, container or command | `TornDownIsQuiet`, `OursAreHandedBack`, `MeterIsTrue`, `GraphIsAsDeclared`, `StepsAreUnique`, `CallsEndClean`, `WaitingEnds` |
| `planning` | every wiring of 2 nodes, 2 turns, 1 edit, 1 late kind, 4 checkers; 3 rounds, limits of 2, every mode, a halt, a clock | `OnlyAdmittedRuns`, `AdmittedPlanBuilds`, `VerdictIsSound` (`NamesDoNotMatter`, `EstimateCoversTheRun`); `RunIsAccountedFor`, `HumanDecides`, `LoopStops` |
| `server_sessions` | 2 sessions, 1 worker, 2 supersteps, 1 follower, 1 lost connection | `StreamIsTrue`, `StopsAreObeyed`, `EverythingEnds` |
| `agents` | 2 agents, 1 file, 2 iterations, every document of 2 rules; 2 callers, 2 calls each, 3 attempts | `LeasesHold`, `ChangesAreLicensed`, `EveryAgentStops`; `BillIsBounded`, `ReissueIsSafe` |
| `directory` | 3 commands; 2 processes on 2 directories, 2 `plan` and 3 `go` in all; 2 gates, 1 approver, 2 plans, 2 questions, 2 decisions, 1 kill | `CommandsKeepApart`, `PlanRunsOnce`, `AnswerIsTheirs`, `GateReturns` |
| `watching` | 2 rounds of 2 nodes and 1, 1 model call each, named apart or alike; 1 round of 2 nodes, 2 calls each, with a price or without; command lines of up to 3 words, 5 of them run to the end, 2 plans, 2 clicks | `ReadersAreRight` (`BillIsTrue` of the second); `BotIsSafe` (`AdmittedIsWhatRuns`, `ButtonsAreTrue`), `RequesterHears` |
| `unsigned_run` | 2 processes, one gate, no crash | a violation of `NoUnsignedRun` (section 5) |
| `claims_cycle` | 3 claims, 2 agents | a violation of `NotItsOwnCorrection` (section 5) |
| `run_ceiling` | 1 command with a ceiling | a violation of `CeilingIsHeld` (section 5) |

In a module with several properties the type invariant is a conjunct of the first.

**Why the bounds are enough.** Each hazard needs few actors: two runners to race
for a claim, one to die and one whose pid is recycled; two nodes on a thread for
an exception to reach the wrong one; two executions to overshoot together and one
that starts after; two gates on one superstep for a hold to be lost; limits of 2
so that a streak can be broken and resumed, and one round more; a chain of three
claims, and a fourth that disagrees; two fixers on one file; two recorders, one of
them killed in a line. Each bound (`MaxTurns`, `MaxEvents`, `MaxCrashes`, `MaxRows`,
`MaxBriefs`, `MaxClock`, `MaxUnseen`, `MaxFires`, `MaxCancels`, `MaxSupersteps`,
`MaxRuns`, `MaxWatched`, `MaxSplits`, `MaxLines`, `MaxEdits`, `MaxSteps`, `MaxCalls`,
`MaxAsked`, `MaxDecisions`, `MaxPlans`, `MaxGos`, `MaxRounds` of `TraceRun`, `MaxClicks`,
`MaxLate`, `MaxKills`, `MaxGateKills`, `MaxDrops`, `MaxCuts`, `MaxFaults`) guards only the calls
from outside or the environment's steps, so nothing under way is cut short by one;
`MaxRounds`, `MaxStalled` and the like of `GovernedLoop`, and `MaxIterations`,
`MaxAttempts`, `Ceiling` are the code's own limits. `Followed` bounds what is typed in
Slack: every line of `Requests` goes through the gate, and one of each kind, with what
the gate had to add or refuse to misread, is followed through its child and the
clicks. Every property has a plausible
slip of the code (`PROJECT.json`, "mutants") that breaks it inside these bounds.

**Symmetry** is used in `stores` (processes and sessions of the session store,
writers and contents of the artifacts) and in `claims_cycle` (agents): the code
treats them alike, and the properties do not name one. No liveness property is
checked under it.

**Fairness**, where a liveness property needs it:

* `SessionRuntime`: a `run()` under way goes on (synchronous code; its blocking
  calls are bounded by busy timeouts, its nodes by budgets).
* `DeadlineGuard`: time passes, timer threads are scheduled, a teardown or an
  exception goes on. A node's body may run for ever.
* `TraceTail`: the page's generator and the tail's thread go on.
* `ToolRun`: the caller goes on: its wait ends with the timeout. Nothing is assumed
  of the tool.
* `GovernedLoop`: the loop's thread goes on. The planner answers or fails, the
  gate bounds its own wait and a round's nodes are ended by its budget.
* `ApprovalFile`: the gate's thread runs and its deadline passes. Nothing is
  assumed of approvers.
* `AgentTurns`: each node's thread goes on; a model's call ends, by its own timeout.
* `SlackBot`: the worker goes on, and the child ends: the runner's timeout kills it.
* `ServerRuntime`: workers, streams and a shutdown under way go on. Nothing is
  assumed of clients or of the caller of `shutdown`.

## 4. Proofs

For all values of the constants that satisfy the modules' named assumptions. Each
proof has the same frame: the property is seldom inductive as it stands, so the
proof module names a strengthening, shows that `Init` gives it and that each action
keeps it, one step per action, and derives the property.

* `SessionRuntimeProofs`. `TypeCorrect`; then `ClaimInv`, the inductive
  invariant of the claim: typing, that whoever drives is alive,
  `DriverHoldsClaim` and `OneDriver`. `OneDriver` alone is not inductive: that
  a second process cannot claim follows from the row being `running`, which
  follows from `DriverHoldsClaim`, and that a reclaim leaves no driver behind
  from drivers being alive. `InternalIsQuiet` gathers the
  steps that touch neither the row nor another process's place, so the
  induction treats `Claim`, `Settle`, `Reclaim`, `Crash` and `Respawn` alone.
  From it follow `DriverIsClaimantAlways` and `RowImplementsLifecycle` (each step is a step of `SessionLifecycle` or a
  stutter). `GateIsHeldWithoutCrashes` and `RunningIsDrivenWithoutCrashes` add to
  it the gate's and the driver's parts (`GateInv`, `DrivenInv`), and assume
  `MaxCrashes = 0` (the second also that `describe` does not raise); section 5 says
  why they must; `TurnsEndCleanWithoutCrashes` is both.
  `NothingRunsUnsigned` is about behaviours in which no two `run()` calls overlap
  (`Serial`: at most one process is away from its idle place; overlapping calls
  break it, section 5) and none is killed. Its
  invariant `SignedInv` carries the request from the boundary to the body: the
  row's holds name the boundary's gated tasks (`RowAsks`), what a `run()` has read
  agrees with the row (`Asked`, `Knows`), the verdicts it acts on answer those
  requests (`Answered`), and nobody is between death and reclaim (`Undying`).
  `ConsumedIsDeliveredWithoutCrashes` needs no `Serial`: `DeliveredInv` follows a
  message from the queue into `run[p]` and from there to the checkpoint. It assumes
  inputs of declared fields: a refused input raises after the queue was consumed.
  `InputsAreHonouredInTurn` is both.
* `StoreProofs`. `TypeCorrect`, `TablesAreSoundAlways` and
  `ImplementsTableAlways`, that is, the refinement of `SessionTable` for any number
  of sessions, threads and processes. The invariant says whose the lock is
  (`Locking`: a transaction past `Begin` holds it, and so nobody else has a draft),
  that what a call has looked up is still so (`Asked`), what its draft is
  (`Drafted`, the committed tables with the statements so far), and that what was
  given out was not given twice (`Granted`, `HandedOut`). From these,
  `CommitIsOneOperation`: a commit is one whole operation of the abstract
  table on the tables as they are, and every other step leaves them alone.
  `ContentIsKeptAlways` is about `put()`: `Halfway` says, for each place of a writer,
  what it relies on (a temporary file that is renamed is whole, a content whose row
  is written is on disk or was trusted), and that what is on disk is whole is what a
  power cut leaves of it.
  `ClaimTypeCorrect` and `BackendsAgree` are about `ClaimStore`, from `Inv`, which is
  both of them; `ChainsEndAlways` from `EndInv`, which adds `HeldUnmarked` (the
  incoming claim of a report in somebody's hands is unmarked: a marked one would
  close a cycle when it is written back). `ChainsEnd` says that every
  nonempty set of stored claims has one whose correction is not in the set, which
  is the absence of a cycle without a transitive closure; it is stated until
  somebody puts a dead end back, after which it is false (section 5).
  `RacersAreToldAlways` adds `Detecting`: a claim on its way through
  `add_and_detect` is in the store, so the later of two looks sees the earlier's;
  `CorrectionsAreSoundAlways` is both.
  `WarnsOfItsFactsAlways` is about `Retrieval`, for any agents that go on correcting
  while a brief is made: whatever was retracted when the brief began is found, or its
  subject is still to be asked for (`ToWarnOf`). What is found is then cut by
  `max_dead_ends` and by the room; `SectionSays` is that a line the brief does not show
  is one its section says it left out or one its note counts, for any `max_dead_ends`
  but 0, with which the section is empty and says nothing (section 5). It needs that what was retracted stays
  so, which it does but for a copy read before the correction and written back after it:
  such a claim is no dead end any more and leaves `before`; a claim that is only now on
  its way into the store is in nobody else's hands (`NewIsNew`), so adding it reopens
  nothing. `FilledIsAccounted` says that the three sections of a brief fit its room and
  that the note counts what was left out, whatever their sizes.
* `RuntimeProofs`. `TypeCorrect` and `TornDownIsQuietAlways`, from the
  inductive `IInv`: who holds a guard's lock (`LockInv`), which guards the thread
  can be in or have left (`PlaceInv`), that an exception queued or about to be
  belongs to a guard that has fired (`QueueInv`), and that past its first step a
  teardown's guard is disarmed, with no exception queued when it lets go of the
  lock (`TearInv`). `TornDownIsQuiet` alone says nothing of the teardown under
  way, where it could be lost.
  `TaskTypeCorrect` and `OursAreHandedBackAlways` are about `AsyncDeadline`. `Counts` says that the task's count of requests is the
  guard's and the caller's, less what was handed back, and `Throws` that an error
  waiting to be thrown has a request it stands for: the property speaks of the
  way out only. `CallsEndCleanAlways` is about `ToolRun`, by the kind of process:
  a sandbox's child has sent nothing while it works (`Sandboxed`), a container whose
  kill failed has one failure when `rm` is tried (`Contained`), and a command is dead
  with its group before it is reaped (`Commanded`).
  `TraceTypeCorrect` and `StepsAreUniqueAlways` are about `TraceTail`, for any number
  of processes, kills and torn writes. The property speaks of the lines that parse;
  the invariant, of every line that has its newline, for such a line may be what a
  later append completes (`StepsOnce`). A run is past every step its thread's lines
  say (`PastThem`) and alone on its thread (`AloneOnIt`), and a recorder's index knows
  each step before its offset (`Indexed`), so that an invocation whose index can be
  brought up to date starts past them all: `FoldIsGreatest`, about the fold of the
  lines since.
  `GraphIsAsDeclaredAlways` is about `GraphKernel`, for any finite set of nodes and
  every graph over it. `Checked` says that what a superstep holds has been looked at,
  from which what lands and where the run goes follow; of a router's own `Send` nothing
  is claimed but that only a graph with a router has one (section 5). That a DAG is shallow is the
  one fact here about a recursive search: `VisitsIs` says that `_assert_acyclic`'s
  search computes what its definition says, and `Behind` that behind a task lie as
  many nodes as supersteps since somebody routed, past which the search, having found
  no cycle, would come to it. They are then distinct, and no more than there are.
* `PlanningProofs`. `TypeCorrect`, `RunIsAccountedForAlways` and
  `HumanDecidesAlways`, for any limits, budgets and costs. The property speaks of a
  run that stopped; the invariant of the run before: `Shape` ties the
  place to the records (at the gate the last record is an admitted one, in a round
  an approved one), `Counted` each streak to the tail of the records it counts,
  `Wanting` a reason about to be given to what bears it out, `Solvent` says that
  whoever is past the check of the budget had budget left, `Cleared` that a round
  is under way only past its gate. Folds over the records never need to be computed:
  `Counted` says what appending one record does to a tail.
  `OnlyAdmittedRunsAlways` is about `PlanGate`, for any plans, kinds and policies:
  a verdict is about the proposal it fingerprints and was reached on the kinds
  registered then; `BuiltAsAdmitted` says that what was built is one flat scope of
  admitted nodes, whatever was edited, proposed again or registered since, and
  `OnItsEdges` that the tasks and transitions of the run are of those nodes and of
  edges the policy allows.
  `AdmittedPlanBuildsAlways` sets the checker against the build, which reads endpoints,
  entry, reachability, kinds and arguments again with code of its own: `GatesPassed`
  reads each gate off the empty list of codes of an admitted plan, `AdmittedBuilds`
  derives from them what `_require_buildable`, `_body` and `compile()` ask, and
  `RefusalInv` carries it over what is registered between the two (kinds are only ever
  added) to the moment of a refusal.
* `AgentTurnsProofs`. `TypeCorrect`, `LeasesHoldAlways` and
  `ChangesAreLicensedAlways`. `Owns`: a node between reading a file for an edit and
  writing it holds its lease, and what it read is what the file holds; `Licensed`:
  past the gate, the call is one the document allows or an approver granted, of a
  tool the kind has. Interrupts need no case of their own in the argument but the
  one that ends in the `finally`.
* `DirectoryProofs`. `PlanTypeCorrect` and `PlanRunsOnceAlways` are about
  `PlanFile`, with plans written over executed ones. `Working` says, of a process no
  other overlapped, that what it saw is still on file and that nobody else is at work
  there (`Reliable`); `Kept`, that every run that began is in the trace and that a
  directory without a record has no history.
  `HandshakeTypeCorrect` and `AnswerIsTheirsAlways` are about `ApprovalFile`, for any
  gates, approvers, plans and kills. Each decision is in one place at a time, with its
  approver, in the temporary file or in the one gates read (`GivenInv`, `PlaceInv`),
  and an open descriptor follows its file (`OpenInv`); so a decision on disk when a
  gate was called cannot come back once the gate has discarded it, and past its first
  look the gate does not find it under its own plan (`StaleInv`). A question on disk
  has a gate that will withdraw it, unless one was killed (`AskedInv`).
  `CommandTypeCorrect` and `CommandsKeepApartAlways` are about `CommandRun`, for any
  commands, lines, registries and policies. `RunInv`: what is over writes no more, so
  once a command has looked for its id and not found it (`Cleared`), no command that
  was over when it started has written an event under it. `PolicyInv`: a generated
  policy that is whole was written for its registry by a plan that is governed by it
  (`Written`, `Ruled`), and once there it may be empty but is never absent again
  (`Standing`); so no author of it was over when a plan that found none started
  (`AskedBefore`), which is what makes two authors overlap (`Overlapped`).
* `LimitsProofs`. The first two theorems speak of sums over whoever is at work, which the
  library computes one element at a time in an order of `CHOOSE`'s. `SumOfAny` says
  that the order does not matter, and `SumsAgree`, `TotalLess`, `TotalChanges`,
  `TotalOfAppend` and `TotalIsAtMost` what a sum becomes when its function gains,
  loses or changes an element; each is by a smallest subset that is a counterexample
  (`SubsetsOfFinite`). `MeterIsTrueAlways` is about `BudgetMeter`, from `MeterInv`: a
  call nobody has reported by hand is among those metered where it was made, so
  reporting it charges nothing (`Remembered`); the scopes add up to the meter, and an
  event carries its scope (`Scoped`); a run past its ceiling keeps room for one call of
  each node that may still make one (`Overshoot`: the bound alone is not inductive,
  since a node still in its body could charge past it).
  `BillIsBoundedAlways` is about `Gateway`, and about the bill that answers state, from
  `BillInv`: the meter is behind that bill by the calls in flight, and the bill leaves
  room, below the bound, for a call of each caller at the provider. Of what failed
  attempts and answers without a cost are billed nothing can be said: the meter never
  hears of it (section 5). Headroom is read off a meter that is behind; it is
  enough because those in flight and those who ask are different callers. The ceiling
  is assumed positive: one of zero refuses every call.
  `ReissueIsSafeAlways` is about `Gateway` too. `Calling` says of a call under way that
  what was shown was streamed and that the last wait was no more than the backoff of the
  attempt before. `GrowthIs` proves that the recursive `Growth` is what it says it is
  (`DoublingExists`, by a minimal counterexample), `BaseDelayIs` that it doubles below
  the cap, and `DelayIs` that the jitter takes a quarter of it at most. The first wait is
  assumed to be two units or more, since the model counts in whole ones: of a wait of one
  unit a quarter off is none.
  `BotIsSafeAlways` is about `SlackBot` and the lines of `SlackGate`, for any requests,
  plans, budgets and bounds. `GateLetIn` is about one line: what the gate adds is at the
  end of what was typed (`Grown`), argparse's last value of an option is read from there
  (`LastOf`), a switch is on when it occurs (`SeenIsSet`), and a value that looks like an
  option is an error of argparse's and not its value, which is why `Options` lists every
  name the gate knows. `BotInv` adds to it, along the run, that every yes on its way to
  the child is one somebody meant for that plan (`YesIsMeant`) and that a message which
  says how the command ended has no button left (`FinalHasNoButton`). `RequestsAssumption`
  says that a request is of a known command and its words are of the gate's vocabulary.
* `ServerRuntimeProofs`. `TypeCorrect`, `StreamIsTrueAlways` and
  `StopsAreObeyedAlways`, under `ServerAssumption` and `Patient`: `shutdown(wait=True)`,
  as `app.py` calls it. `WorkInv` ties what a worker has in hand to the status the
  clients see, `PoolInv` says the pool holds queued sessions, each once, and none
  after the shutdown's wait, `StopInv` how many supersteps an acknowledged interrupt
  has let begin, `OverInv` that a finished shutdown leaves no session open. `DiskInv`
  says that the file and the stream differ by the events between the write of a line
  and the call of the subscriber, and `ClientInv` that what a client was sent is what
  lies between its cursor and its place, in order, however often it was cut off; the
  property leaves out a client that gave a cursor and was (section 5).

The assumptions are the named `ASSUME`s of the modules (constants are sets of the
right kind, bounds are naturals, ids differ from the marks for nothing), which TLC
evaluates on the constants of each run that extends the module, and, where a theorem
says `ASSUME ... PROVE`, the same kind of formula stated as its hypothesis
(`StoreAssumption`, `ArtifactAssumption`, `BudgetAssumption`, `GatewayAssumption` with
`Initial >= 2`, `RetrievalAssumption`, `HandshakeAssumption`, `LoopAssumption`,
`ServerAssumption` with `Patient`): the code's own constants meet them, and so do the
runs'.

`Visits` is a recursive function, on a node and the set of nodes on the path to it.
That such a function exists is not given: `SearchExists` proves it level by level, by
a minimal counterexample on the number of nodes not on the path
(`NatLessThanWellFounded`, `WFMin`), without an induction theorem whose parameter is
an operator.

Recursion is the reason the last properties have no theorem, and it shaped the models
for the prover: `Visits` is a function of a pair, `Growth` one of the attempt, a brief
fills its three sections without a fold, and `ToolRun` finds the envelope in a
container's output by position, which is what `parse_envelope` does from the end of the
output.

**Only model-checked.** Every liveness property and what follows from fairness
(`InterruptStopsTheTurn`, `WaitingEnds`, `LoopStops`,
`EverythingEnds`, `EveryAgentStops`, `GateReturns`, `RequesterHears`): the prover has
neither fairness nor `ENABLED`.
What recursive computations return for every input needs induction over data:
`VerdictIsSound` (`EstimateCoversTheRun`, `NamesDoNotMatter`) turns on the worklist of `_worst_case`,
`ReadersAreRight` on folds over the events of a trace, and `BriefIsTrue` on the scores a
search spreads from hop to hop (`RetractedEdgesAreGone`) and on the order they give
(`BriefIsAccounted`, of which `FilledIsAccounted` proves the part without them).

## 5. Where the code and its words part

Three runs state what the repository says and end in a violation.

* `unsigned_run`. `Session.run` reads the row's holds before it claims the row,
  and the claim accepts `awaiting_approval`. A runner that read the row before
  another one settled on a gate claims it afterwards with no hold in hand and
  resumes the boundary: the gated node runs unanswered, while the module says
  the graph does not move while any request is unanswered.
* `claims_cycle`. `validate_supersede` refuses a claim that replaces itself, not
  one that replaces its own replacement. Putting back a dead end with the copy
  `dead_ends()` returns leaves two claims that correct each other and neither
  current.
* `run_ceiling`. `run_graph` resolves `--max-seconds` and hands it to the admission
  budget; the graph is invoked without a `RunBudget`, so no deadline is armed. The
  option's help says that it interrupts a running node.

Thirteen other statements are written in the modules below the heading "Said in the
repository and refuted by TLC": each is a sentence of a help text, docstring or
comment, and false of the model.

* `CommandRun.IdNamesOneRun`: `--run-id` is "refused if --trace already holds it"
  (`cli/main.py`); `go DIR --run-id X` never calls `refuse_reused_run_id`, and two
  commands that look at once blend into one run.
* `PlanFile.ShowGraphSaysWhich`: "show_graph on the same run_dir says which"
  (`mcp/server.py`); a `go` that is killed or waits for its gate leaves the plan
  shown as planned though it began.
* `ToolRun.OutputIsKept`: "whatever it printed first is still returned"
  (`tools/shell.py`); the empty string is, when a descendant outside the process
  group holds the pipe past the reap.
* `AgentTurns.ChildEndsWithItsNode`: a delegated child's process group is killed on
  the deadline (`harness/agent.py`); an interrupt raised elsewhere in the node leaves
  the child running.
* `Gateway.PriceIsTheCalls`: the traced price is the call's own (`harness/agent.py`);
  the shared `last_usage` is read after `invoke` returned, and may be another
  caller's.
* `Gateway.UnpricedIsTheSignal`: "`unpriced_calls > 0` is the signal that the ceiling
  saw less than the whole bill" (`gateway/spend.py`); `_invoke_cli` drops the cost of an
  answer marked `is_error`, and of one that timed out, and `charge()` is reached only by
  a call that succeeds, so an attempt that was billed and fails leaves it at 0.
* `TraceTail.IndexSkips`: the tail "skips anything that does not parse: the same
  discipline `_advance_index` applies" (`observe/trace.py`); the index raises on a
  torn line that has its newline.
* `TraceRun.OpenUntilOver`: only the driver's stop ends a page's stream
  (`server/live.py`); a phase's stop whose start is missing ends it too.
* `TraceRun.NothingTwice`: "The two sets are disjoint" (`observe/replay.py`); an agent
  named like a node is counted twice.
* `TraceRun.CompleteIsWhole`: "True when no counted token was left unpriced"
  (`RunCost.complete`); a node's terminal event carries the sum of the prices its calls
  stated, and the bill takes an execution that has one as priced: the tokens of its other
  calls are counted, and reported as unpriced nowhere. `BillIsTrue` says what such a
  price hides (`Hidden`).
* `Retrieval.BelievedOrRetracted`: the sections of a brief are disjoint
  (`memory/retrieval.py`); a correction between the reads puts one claim in two.
* `SlackBot.FinalStands`: "a late tick can never overwrite it" (`slack/live.py`); the
  join of the narrator has a timeout of five seconds.
* `SlackBot.ParkEndsFirst`: a park ends before its runner is killed
  (`slack/command.py`); the ceiling, at least ten seconds, does not for budgets below
  that, and not when time passed before the park.

Met while modelling, part of the models' behaviour, and the reason for a
condition in a property, for an assumption or for a choice of inputs:

* *Sessions.* A runner that dies after the kernel saved a gated boundary and before
  `_settle` leaves no hold; after the reclaim the node runs: `GateOnBoundaryIsHeld`
  and `RunningIsDriven` are checked and proved without crashes, the second without a
  `describe` that raises inside `_settle`. Overlapping `run()` calls break
  `NoUnsignedRun` (`unsigned_run`), so its theorem assumes they are serial. `run()`
  consumes the queue before the stream refuses an input with an unknown field, so
  `session_turns` has well-formed inputs only. A rejection that files the only task of
  a boundary, followed by an interrupt, makes the boundary look finished
  (`runtime.py:350`): the next turn starts a fresh pass and drops its successors. Of
  two processes that terminate one session at once, the second is refused.
* *Deadlines.* An exception delivered at the entry of `disarm()`, or at its loop head,
  is outside every `try`: that guard is left armed, and its timer goes on. So
  `TornDownIsQuiet` speaks of teardowns that ran to their end.
* *Meters and models.* A streamed call whose usage is not reported at its end is
  counted as unpriced a second time. `_settle` of `openai_compat.py` may charge
  another caller's cost, so `BillIsBounded` is about the CLI backend, which reads its
  own process's envelope; and about what answers state, since a CLI answer may come
  without a cost and a failed attempt's is dropped (`UnpricedIsTheSignal`). Delays grow
  until the cap or the provider's `Retry-After`, not strictly after.
* *Graphs and traces.* `_checked_router` passes a router's own `Send` on unread: its
  target may not exist, in which case LangGraph drops it silently, and its payload may not
  be of the worker's schema. `RoutesAreTaken` speaks of what is checked, and of payloads
  where no node has a router. `to_spans` identifies a node's span by its step and attempt, which
  start again in each round: nodes of different rounds share an id. `ReplayedRun.path` is
  said to be in the order the executions ended and is in the order they started. `dag=True` does not forbid a loop of `Command`s. A node's name
  that occurs again at the same step is merged with its first round in a replay. A
  transient `OSError` in `read_tail` leaves the page stale until the file grows; a run
  killed while it waits for a gate shows `awaiting` for ever.
* *Planning.* A reply that is no proposal does not reset the count of refusals, which
  `LoopLimits` calls consecutive; `RunIsAccountedFor` counts as the code does. `go`
  replays a plan without the fields of a nested subgraph.
* *A directory.* A decision renamed into place between the discard and the question
  answers a question not yet asked; `NoStaleAnswer` speaks of decisions on disk when
  the gate was called. The gate may unlink a neighbour's file, two writers may publish
  a torn one. Two `go`s that overlap execute a plan twice and lose each other's
  history, and a kill between the truncation of `plan.json` and its write loses it:
  `PlanRunsOnce` speaks of commands that did not overlap, and of the record when it is
  there. A second `plan --trace` into a directory whose plan was executed overwrites
  `plan.json`, `executed_run_ids` included: what was recorded of the old plan is gone
  without an overlap or a kill, `show_graph` calls the directory planned, and the next
  `go` is refused, as if the old run had never recorded finishing, until it is told
  `--again`. So `HistoryIsKept` speaks of the runs of the plan on file. An MCP call that is cancelled leaves its child running.
* *Commands.* A generated policy is named after its registry file's slug, and slugs
  collide; `graphrun.py` passes no registry; a kill between truncate and write leaves
  an empty policy that refuses each later plan; two generators may interleave.
  `max_tokens` of `grapharc.toml` does not reach `agent`.
* *Agents.* An edit cut between `O_TRUNC` and the write loses the file's content, and a
  second interrupt inside the `finally` leaks a lease: `LeasesHold` speaks of edits
  that were answered and of one interrupt. `goal_met` of `fix_issues` counts a report
  that was cut short. `check_spend` and `record_spend` of the policy are separate steps
  of concurrent callers.
* *Processes.* A sandbox's child that sent its answer may outlive `join(5)`; a request
  to create a container may arrive after its `kill` and `rm` failed (`CallsEndClean`
  says so); `LocalExecutor` has no deadline, though `run_command`'s comment calls the
  executor its backstop. `_kill` signals a process group that may not exist yet.
* *Memory.* The second of two opposite corrections revives the claim the first had
  marked. A `put` that finds a name another process has not synced yet commits a row a
  power cut can orphan; `RowsAreDurable` excepts rows of such a `put`. `MemoryStore`'s
  readers take no lock. With `max_dead_ends=0` a brief finds its dead ends, shows none
  and does not say so: `WarnsOfItsFacts` claims the warning from 1 on. A packed brief may pass `max_tokens` by its uncounted newlines.
* *Server.* `shutdown(wait=False)` ends sessions whose workers still append events; two
  nodes may reach the file and the stream in different orders; a client that
  gave a cursor gets frames again after a reconnection; a request refused by the
  second look for a shutdown leaves its directory. `StreamIsTrue` is checked and proved
  with `wait=True`, which is what `app.py` passes, and compares sets. A result that
  JSON cannot hold raises outside the try of `_run`, and the session stays `running`:
  `EverythingEnds` excepts it.
* *Slack.* A parked run that was killed leaves its request file, so a later click is
  answered "approved"; a click between the trace's event and the request's file is told
  that nothing is waiting; `subprocess.run`'s kill waits for grandchildren that hold
  the pipes.

## 6. What the models leave out

External, and modelled from how the code uses them: LangGraph, sqlite, CPython's
exception delivery, asyncio's cancellation, the file system, the operating system's
processes, container runtimes, Slack, model providers and what a model says.

Left out of what is modelled:

* *SessionRuntime*: a node occurs once in a superstep; a graph's routes are given.
* *DeadlineGuard*: the `SIGALRM` form of the main thread, and nested guards.
* *BudgetMeter*: a body that catches `BudgetExceeded` and goes on.
* *Proposal, Admission, PlanGate*: the parsing of a reply's text; a nested subgraph is
  admitted with its depth and built as one node.
* *GovernedLoop*: a round's nodes run in series, and its seconds on the run's clock.
* *GraphKernel*: a router answers one `Send` at a time beside its keys.
* *TraceTail, TraceRun*: rate cards, and dollars as anything but a unit a token; replay's speed and pauses, the gallery, where a page draws what
  it shows and in what words, edges of a fan-out, errors of an agent's own steps, diffs,
  and the sending of spans.
* *ApprovalFile*: a file call is indivisible.
* *ServerRuntime*: a node records one event; a session has one follower.
* *Harness, AgentTurns*: the audit file and the daily caps of a policy, guards inside
  the sandbox's child, post-hooks, the search tools and the confinement of paths.
* *Gateway*: lookup and configuration of models, the wire formats and the adapters.
* *ClaimStore*: ids are unique; names are compared as already normalised; opening and
  migrating a database. *Retrieval*: what scores are, and which
  dead ends are shown when not all are. *ArtifactStore*: listings and the
  in-process backend; a directory's entry is durable with its fsync.
* *PlanFile*: a `plan --go`, which executes in one process and writes no `plan.json`.
* *CommandRun, PlanFile*: `init`, `start`, `adopt`, `probe` and `serve`, the wording of
  reports; of MCP the protocol and the lists of arguments. *Registries*: the bodies of
  the standard library but for those the models name.
* *SlackGate, SlackBot*: the text of messages, the list of recent runs, configuration.

Out of the prover's reach: fairness and `ENABLED`, so liveness; induction theorems,
whose parameter is an operator, so what most recursive definitions compute for every
input (of `Visits`, section 4 says how it was done without).

## 7. Plan

Every component that is to be modelled is; what follows is about proofs and depth.

The sums of `TraceLog` over a file that grows by one event, by the lemmas of
`LimitsProofs` on sums, as a first part of `ReadersAreRight`.
