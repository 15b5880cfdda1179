--------------------------- MODULE SessionRuntime ---------------------------
(***************************************************************************)
(* One session of grapharc/session: its row and event queue in the session *)
(* store, its thread in the checkpointer, and any number of processes that *)
(* call Session.run, send, interrupt, decide, terminate and                *)
(* SessionManager.reclaim on it.                                           *)
(*                                                                         *)
(* Every read or transaction of Session.run on one of the two databases is *)
(* a step of its own, so the steps of two runners, the callers' writes and *)
(* a crash interleave exactly where the code lets them.  What runs after   *)
(* the claim is the graph kernel (external): a superstep is the set of     *)
(* tasks on the boundary, and the boundary moves on once every task of it  *)
(* has writes.  The kernel saves its checkpoint in the background: until   *)
(* the stream is closed the database may lag behind it.                    *)
(***************************************************************************)
EXTENDS Naturals, Sequences, FiniteSets

CONSTANTS
  Proc,           \* processes (pids), one thread of control each
  NoProc,         \* "runner_pid IS NULL"
  Node,           \* the nodes of the session's graph
  Gate,           \* GraphSpec.approval_nodes
  Entry,          \* the boundaries a fresh pass can start on
  Routes,         \* node -> the sets of successors its edges can schedule
  Inputs,         \* what callers pass to run(): "none", "ok", or "bad" (unknown field)
  Calls,          \* which of "message", "interrupt", "decision", "terminate" are made
  DescribeRaises, \* may the graph's `describe` callback raise?
  MaxTurns,       \* bound: no run() is begun after that many settled turns
  MaxEvents,      \* bound: events ever queued
  MaxCrashes      \* bound: process crashes

ASSUME NoProcAssumption == NoProc \notin Proc

ASSUME GraphAssumption ==
  /\ Gate \subseteq Node
  /\ Entry \subseteq SUBSET Node
  /\ Routes \in [Node -> SUBSET SUBSET Node]

ASSUME CallerAssumption ==
  /\ Inputs \subseteq {"none", "ok", "bad"}
  /\ DescribeRaises \in BOOLEAN
  /\ MaxTurns \in Nat
  /\ MaxEvents \in Nat
  /\ MaxCrashes \in Nat

VARIABLES
  status,     \* sessions.status
  runner,     \* sessions.runner_pid
  holds,      \* sessions.pending_approval: the open ApprovalRequests
  turns,      \* sessions.turns
  queue,      \* session_events in seq order
  ckpt,       \* the thread's latest checkpoint in the database: tasks to do,
              \* tasks with writes on file, the successors those schedule
              \* (and, a ghost, the requests recorded for this boundary)
  run,        \* the local variables of each process's current Session.run
  alive,      \* live processes
  crashes,    \* crashes so far
  delivered,  \* ghost: messages that reached the graph's inbox
  unsigned    \* ghost: gated nodes whose body ever ran without a signature

rowVars == <<status, runner, holds, turns>>
ghosts  == <<delivered, unsigned>>
vars    == <<rowVars, queue, ckpt, run, alive, crashes, ghosts>>

Lifecycle == INSTANCE SessionLifecycle
  WITH status <- status, runner <- runner, alive <- alive

(* An ApprovalRequest.  Its id is fresh: one request per node per settled   *)
(* turn, so the turn's number and the node name it.                         *)
Request == [turn : Nat, node : Node]

Checkpoint == [todo : SUBSET Node, filed : SUBSET Node, due : SUBSET Node,
               asked : SUBSET Request]

Boundary0(first) == [todo |-> first, filed |-> {}, due |-> {}, asked |-> {}]

(***************************************************************************)
(* The event queue.                                                        *)
(***************************************************************************)
Event == [kind : {"message", "interrupt"}, used : BOOLEAN]
           \cup [kind : {"decision"}, request : Request, approved : BOOLEAN, used : BOOLEAN]

Pending == {i \in DOMAIN queue : ~queue[i].used}

PendingOf(kind) == {i \in Pending : queue[i].kind = kind}

Oldest(S) == CHOOSE i \in S : \A j \in S : i <= j

Newest(S) == CHOOSE i \in S : \A j \in S : i >= j

Answers(r) == {i \in PendingOf("decision") : queue[i].request = r}

Approves(r) == Answers(r) # {} /\ queue[Newest(Answers(r))].approved

Rejects(r) == Answers(r) # {} /\ ~queue[Newest(Answers(r))].approved

Use(S) == queue' = [i \in DOMAIN queue |->
                      IF i \in S THEN [queue[i] EXCEPT !.used = TRUE] ELSE queue[i]]

Push(event) ==
  /\ event.kind \in Calls
  /\ status # "terminated"
  /\ Len(queue) < MaxEvents
  /\ queue' = Append(queue, event)
  /\ UNCHANGED <<rowVars, ckpt, run, alive, crashes, ghosts>>

Send == Push([kind |-> "message", used |-> FALSE])

Interrupt == Push([kind |-> "interrupt", used |-> FALSE])

(* A caller may name any request it has ever seen: an id is checked against *)
(* the holds when the decision is read, not when it is queued.              *)
Decide(r, verdict) ==
  Push([kind |-> "decision", request |-> r, approved |-> verdict, used |-> FALSE])

(***************************************************************************)
(* The local state of a run() call.                                        *)
(***************************************************************************)
(* Between the claim and the settling transition.                           *)
DrivingSteps == {"poll", "read", "prepare", "consume", "open", "boundary", "step", "settle"}

Steps == {"idle", "snapshot", "verdicts", "claim"} \cup DrivingSteps

Idle == [pc |-> "idle", input |-> "none", holds |-> {}, todo |-> {}, tasks |-> {},
         stale |-> FALSE, queued |-> {}, approved |-> {}, rejected |-> {},
         mem |-> Boundary0({}), moved |-> FALSE, resumed |-> FALSE,
         interrupted |-> FALSE, error |-> FALSE]

Local == [pc : Steps, input : {"none", "ok", "bad"}, holds : SUBSET Request,
          todo : SUBSET Node, tasks : SUBSET Node, stale : BOOLEAN,
          queued : SUBSET Nat, approved : SUBSET Request, rejected : SUBSET Request,
          mem : Checkpoint, moved : BOOLEAN, resumed : BOOLEAN,
          interrupted : BOOLEAN, error : BOOLEAN]

Driving(p) == run[p].pc \in DrivingSteps

(* `resuming`, as computed from the snapshot this run read.                 *)
Resuming(p) == run[p].todo # {}

At(p, step) == p \in alive /\ run[p].pc = step

Become(p, local) == run' = [run EXCEPT ![p] = local]

Return(p) == Become(p, Idle)

NodesOf(requests) == {r.node : r \in requests}

(***************************************************************************)
(* Session.run, up to the claim: three reads and a compare-and-set.        *)
(***************************************************************************)
ReadRecord(p, input) ==
  /\ At(p, "idle")
  /\ turns < MaxTurns
  /\ status # "terminated"
  /\ Become(p, [Idle EXCEPT !.pc = "snapshot", !.input = input, !.holds = holds])
  /\ UNCHANGED <<rowVars, queue, ckpt, alive, crashes, ghosts>>

(* New input is refused while work is pending mid-graph.                    *)
ReadSnapshot(p) ==
  /\ At(p, "snapshot")
  /\ IF ckpt.todo # {} /\ run[p].input # "none"
     THEN Return(p)
     ELSE Become(p, [run[p] EXCEPT !.pc = "verdicts", !.todo = ckpt.todo,
                                   !.tasks = ckpt.todo \cup ckpt.filed, !.stale = FALSE])
  /\ UNCHANGED <<rowVars, queue, ckpt, alive, crashes, ghosts>>

(* ApprovalRequired while any hold the record carried has no answer.        *)
ReadVerdicts(p) ==
  /\ At(p, "verdicts")
  /\ IF \E r \in run[p].holds : Answers(r) = {}
     THEN Return(p)
     ELSE Become(p, [run[p] EXCEPT !.pc = "claim"])
  /\ UNCHANGED <<rowVars, queue, ckpt, alive, crashes, ghosts>>

(* Mutant: the update has no expected status.                               *)
Claim_AnyStatus(p) ==
  /\ At(p, "claim")
  /\ status' = "running"
  /\ runner' = p
  /\ Become(p, [run[p] EXCEPT !.pc = "poll"])
  /\ UNCHANGED <<holds, turns, queue, ckpt, alive, crashes, ghosts>>

(* Mutant: only a busy session is refused.                                  *)
Claim_NotBusy(p) == status # "running" /\ Claim_AnyStatus(p)

(* The compare-and-set looks at the status alone.                           *)
Claim(p) ==
  /\ At(p, "claim")
  /\ status \in Lifecycle!Resumable
  /\ status' = "running"
  /\ runner' = p
  /\ Become(p, [run[p] EXCEPT !.pc = "poll"])
  /\ UNCHANGED <<holds, turns, queue, ckpt, alive, crashes, ghosts>>

(* SessionBusy.                                                             *)
LoseClaim(p) ==
  /\ At(p, "claim")
  /\ status \notin Lifecycle!Resumable
  /\ Return(p)
  /\ UNCHANGED <<rowVars, queue, ckpt, alive, crashes, ghosts>>

(***************************************************************************)
(* After the claim: the queued stop, the queue, the boundary's verdicts.   *)
(***************************************************************************)
(* Mutant: the queue is drained before the stop is looked for.              *)
TakeQueuedInterrupt_Drains(p) ==
  /\ At(p, "poll")
  /\ IF PendingOf("interrupt") # {}
     THEN /\ Use({Oldest(PendingOf("interrupt"))} \cup PendingOf("message"))
          /\ Become(p, [run[p] EXCEPT !.pc = "settle", !.interrupted = TRUE])
     ELSE /\ Become(p, [run[p] EXCEPT !.pc = "read"])
          /\ UNCHANGED queue
  /\ UNCHANGED <<rowVars, ckpt, alive, crashes, ghosts>>

TakeQueuedInterrupt(p) ==
  /\ At(p, "poll")
  /\ IF PendingOf("interrupt") # {}
     THEN /\ Use({Oldest(PendingOf("interrupt"))})
          /\ Become(p, [run[p] EXCEPT !.pc = "settle", !.interrupted = TRUE])
     ELSE /\ Become(p, [run[p] EXCEPT !.pc = "read"])
          /\ UNCHANGED queue
  /\ UNCHANGED <<rowVars, ckpt, alive, crashes, ghosts>>

ReadQueue(p) ==
  /\ At(p, "read")
  /\ Become(p, [run[p] EXCEPT !.pc = "prepare",
                               !.queued = PendingOf("message") \cup PendingOf("decision"),
                               !.approved = {r \in run[p].holds : Approves(r)},
                               !.rejected = {r \in run[p].holds : Rejects(r)}])
  /\ UNCHANGED <<rowVars, queue, ckpt, alive, crashes, ghosts>>

(* Mutant: a rejection consumes its request and files nothing.              *)
RejectedNodes_None(p) == {}

(* The nodes whose edge writes this turn has to file instead of running.    *)
RejectedNodes(p) == IF Resuming(p) THEN NodesOf(run[p].rejected) ELSE {}

(* The edges of the nodes N fire: one set of successors each.               *)
Scheduled(N) == {UNION {route[n] : n \in N} :
                   route \in {f \in [N -> SUBSET Node] : \A n \in N : f[n] \in Routes[n]}}

(* Checkpoint c once the tasks N of it, whose edges schedule next, are done.*)
Done(c, N, next) == [c EXCEPT !.todo = @ \ N, !.filed = @ \cup N, !.due = @ \cup next]

(* put_writes for tasks F on the snapshot's checkpoint.  Writes for a       *)
(* checkpoint that is not the latest, or for a task that has writes,        *)
(* change nothing.                                                          *)
File(p, F) ==
  LET new == IF run[p].stale THEN {} ELSE F \cap ckpt.todo
  IN  \E next \in Scheduled(new) : ckpt' = Done(ckpt, new, next)

Prepare(p) ==
  /\ At(p, "prepare")
  /\ RejectedNodes(p) \subseteq run[p].tasks
  /\ File(p, RejectedNodes(p))
  /\ Become(p, [run[p] EXCEPT !.pc = "consume"])
  /\ UNCHANGED <<rowVars, queue, alive, crashes, ghosts>>

(* A rejected node's router raises, or the boundary has no task for it: the *)
(* rejections filed before that stay on file, and nothing is consumed.      *)
PrepareRaises(p) ==
  /\ At(p, "prepare")
  /\ \E F \in SUBSET (RejectedNodes(p) \cap run[p].tasks) :
       /\ F # RejectedNodes(p)
       /\ File(p, F)
  /\ Become(p, [run[p] EXCEPT !.pc = "settle", !.error = TRUE])
  /\ UNCHANGED <<rowVars, queue, alive, crashes, ghosts>>

Consume(p) ==
  /\ At(p, "consume")
  /\ Use(run[p].queued)
  /\ Become(p, [run[p] EXCEPT !.pc = "open"])
  /\ UNCHANGED <<rowVars, ckpt, alive, crashes, ghosts>>

(***************************************************************************)
(* Driving the stream.                                                     *)
(***************************************************************************)
Delivers(p) == {i \in run[p].queued : queue[i].kind = "message"}

(* A fresh pass drops whatever the thread still had pending.                *)
OpenFresh(p) ==
  /\ At(p, "open")
  /\ ~Resuming(p)
  /\ run[p].input # "bad"
  /\ \E first \in Entry :
       Become(p, [run[p] EXCEPT !.pc = "boundary", !.mem = Boundary0(first), !.moved = TRUE])
  /\ delivered' = delivered \cup Delivers(p)
  /\ UNCHANGED <<rowVars, queue, ckpt, alive, crashes, unsigned>>

(* CompiledGraphARC.stream refuses unknown fields on its first next().      *)
OpenRaises(p) ==
  /\ At(p, "open")
  /\ ~Resuming(p)
  /\ run[p].input = "bad"
  /\ Become(p, [run[p] EXCEPT !.pc = "settle", !.error = TRUE])
  /\ UNCHANGED <<rowVars, queue, ckpt, alive, crashes, ghosts>>

(* Resuming does not raise the gate again for the boundary it resumes on.   *)
OpenResumed(p) ==
  /\ At(p, "open")
  /\ Resuming(p)
  /\ Become(p, [run[p] EXCEPT !.pc = "boundary", !.mem = ckpt, !.resumed = TRUE])
  /\ delivered' = delivered \cup Delivers(p)
  /\ UNCHANGED <<rowVars, queue, ckpt, alive, crashes, unsigned>>

(* What the database holds once p's kernel has saved its checkpoint, and    *)
(* the snapshots other runs took before that.                               *)
Saved(p) == ckpt' = run[p].mem

Outdated(p, q) ==
  IF run[p].moved /\ run[q].pc # "idle" THEN [run[q] EXCEPT !.stale = TRUE] ELSE run[q]

(* Leave the stream for _settle: closing it waits for the pending saves.    *)
Close(p, why) ==
  /\ Saved(p)
  /\ run' = [q \in Proc |-> IF q # p THEN Outdated(p, q)
               ELSE [run[p] EXCEPT !.pc = "settle", !.interrupted = (why = "interrupt"),
                                   !.error = (why = "error")]]

(* The background save catches up.                                          *)
Save(p) ==
  /\ p \in alive
  /\ run[p].pc \in {"boundary", "step"}
  /\ run[p].mem # ckpt \/ run[p].moved
  /\ Saved(p)
  /\ run' = [q \in Proc |-> IF q # p THEN Outdated(p, q) ELSE [run[p] EXCEPT !.moved = FALSE]]
  /\ UNCHANGED <<rowVars, queue, alive, crashes, ghosts>>

(* Mutant: a stop is looked for before the turn only.                       *)
Boundary_NoStop(p) ==
  /\ At(p, "boundary")
  /\ IF \/ run[p].mem.todo \cup run[p].mem.filed = {}
        \/ ~run[p].resumed /\ run[p].mem.todo \cap Gate # {}
     THEN Close(p, "end")
     ELSE Become(p, [run[p] EXCEPT !.pc = "step"]) /\ UNCHANGED ckpt
  /\ UNCHANGED <<rowVars, queue, alive, crashes, ghosts>>

(* A superstep boundary: a stop is read here and nowhere else; then the     *)
(* graph is finished, held before a gate, or goes on.                       *)
Boundary(p) ==
  /\ At(p, "boundary")
  /\ IF PendingOf("interrupt") # {}
     THEN /\ Use({Oldest(PendingOf("interrupt"))})
          /\ Close(p, "interrupt")
     ELSE /\ UNCHANGED queue
          /\ IF \/ run[p].mem.todo \cup run[p].mem.filed = {}
                \/ ~run[p].resumed /\ run[p].mem.todo \cap Gate # {}
             THEN Close(p, "end")
             ELSE Become(p, [run[p] EXCEPT !.pc = "step"]) /\ UNCHANGED ckpt
  /\ UNCHANGED <<rowVars, alive, crashes, ghosts>>

(* Was running n approved: has the request recorded for n on this very      *)
(* boundary been answered, and is the answer acted on an approval?          *)
Signed(p, n) == \E r \in run[p].approved : r.node = n /\ r \in run[p].mem.asked

RunTask(p, n) ==
  /\ At(p, "step")
  /\ n \in run[p].mem.todo
  /\ \E next \in Routes[n] :
       Become(p, [run[p] EXCEPT !.mem = Done(run[p].mem, {n}, next)])
  /\ unsigned' = IF n \in Gate /\ ~Signed(p, n) THEN unsigned \cup {n} ELSE unsigned
  /\ UNCHANGED <<rowVars, queue, ckpt, alive, crashes, delivered>>

(* A body raises, or the run's budget refuses the node: tasks of the step   *)
(* that ended keep their writes, the others stay pending.                   *)
NodeRaises(p) ==
  /\ At(p, "step")
  /\ run[p].mem.todo # {}
  /\ Close(p, "error")
  /\ UNCHANGED <<rowVars, queue, alive, crashes, ghosts>>

StepCommit(p) ==
  /\ At(p, "step")
  /\ run[p].mem.todo = {}
  /\ Become(p, [run[p] EXCEPT !.pc = "boundary", !.resumed = FALSE, !.moved = TRUE,
                               !.mem = Boundary0(run[p].mem.due)])
  /\ UNCHANGED <<rowVars, queue, ckpt, alive, crashes, ghosts>>

(***************************************************************************)
(* _settle: hold every gated node on the boundary, and leave running.      *)
(***************************************************************************)
Held == ckpt.todo \cap Gate

(* Mutant: only the first gate is held.                                     *)
NewHolds_First ==
  [turn : {turns + 1}, node : IF Held = {} THEN {} ELSE {CHOOSE n \in Held : TRUE}]

NewHolds == [turn : {turns + 1}, node : Held]

SettledStatus(p) ==
  IF run[p].error THEN "failed"
  ELSE IF Held # {} THEN "awaiting_approval"
  ELSE IF run[p].interrupted \/ ckpt.todo # {} THEN "interrupted"
  ELSE "idle"

Settle(p) ==
  /\ At(p, "settle")
  /\ status = "running"
  /\ status' = SettledStatus(p)
  /\ runner' = NoProc
  /\ turns' = turns + 1
  /\ holds' = NewHolds
  /\ ckpt' = [ckpt EXCEPT !.asked = NewHolds]
  /\ Return(p)
  /\ UNCHANGED <<queue, alive, crashes, ghosts>>

(* Terminated while the turn was in flight: reported, not undone.           *)
SettleTerminated(p) ==
  /\ At(p, "settle")
  /\ status # "running"
  /\ Return(p)
  /\ UNCHANGED <<rowVars, queue, ckpt, alive, crashes, ghosts>>

(* describe_action raises before the transition: run() propagates it.       *)
SettleRaises(p) ==
  /\ DescribeRaises
  /\ At(p, "settle")
  /\ Held # {}
  /\ Return(p)
  /\ UNCHANGED <<rowVars, queue, ckpt, alive, crashes, ghosts>>

(***************************************************************************)
(* Everyone else.                                                          *)
(***************************************************************************)
Terminate ==
  /\ "terminate" \in Calls
  /\ status # "terminated"
  /\ status' = "terminated"
  /\ runner' = NoProc
  /\ holds' = {}
  /\ UNCHANGED <<turns, queue, ckpt, run, alive, crashes, ghosts>>

(* release_dead_runner: refused unless the recorded pid is gone.            *)
Reclaim(q) ==
  /\ At(q, "idle")
  /\ status = "running"
  /\ runner \in Proc \ alive
  /\ status' = "failed"
  /\ runner' = NoProc
  /\ UNCHANGED <<holds, turns, queue, ckpt, run, alive, crashes, ghosts>>

(* What the kernel had not saved is lost.                                   *)
Crash(p) ==
  /\ p \in alive
  /\ crashes < MaxCrashes
  /\ crashes' = crashes + 1
  /\ alive' = alive \ {p}
  /\ Return(p)
  /\ UNCHANGED <<rowVars, queue, ckpt, ghosts>>

(* A new process, possibly under the pid of a dead one.                     *)
Respawn(p) ==
  /\ p \in Proc \ alive
  /\ alive' = alive \cup {p}
  /\ UNCHANGED <<rowVars, queue, ckpt, run, crashes, ghosts>>

Init ==
  /\ status = "created"
  /\ runner = NoProc
  /\ holds = {}
  /\ turns = 0
  /\ queue = <<>>
  /\ ckpt = Boundary0({})
  /\ run = [p \in Proc |-> Idle]
  /\ alive = Proc
  /\ crashes = 0
  /\ delivered = {}
  /\ unsigned = {}

(* One step of the run() call process p is in.                              *)
Turn(p) ==
  \/ ReadSnapshot(p) \/ ReadVerdicts(p) \/ Claim(p) \/ LoseClaim(p)
  \/ TakeQueuedInterrupt(p) \/ ReadQueue(p) \/ Prepare(p) \/ PrepareRaises(p)
  \/ Consume(p) \/ OpenFresh(p) \/ OpenRaises(p) \/ OpenResumed(p) \/ Boundary(p)
  \/ \E n \in Node : RunTask(p, n)
  \/ NodeRaises(p) \/ StepCommit(p)
  \/ Settle(p) \/ SettleTerminated(p) \/ SettleRaises(p)

Next ==
  \/ \E p \in Proc, input \in Inputs : ReadRecord(p, input)
  \/ \E p \in Proc : Turn(p) \/ Save(p)
  \/ Send \/ Interrupt
  \/ \E r \in [turn : 1..turns, node : Gate], verdict \in BOOLEAN : Decide(r, verdict)
  \/ Terminate
  \/ \E p \in Proc : Reclaim(p) \/ Crash(p) \/ Respawn(p)

Spec == Init /\ [][Next]_vars

(* A thread inside run() keeps executing: it is synchronous code whose only *)
(* blocking calls are bounded by the databases' busy timeouts.              *)
FairSpec == Spec /\ \A p \in Proc : WF_vars(Turn(p))

(***************************************************************************)
(* Properties.                                                             *)
(***************************************************************************)
(* The values the variables range over.                                     *)
TypeOK ==
  /\ status \in Lifecycle!Status
  /\ runner \in Proc \cup {NoProc}
  /\ holds \in SUBSET Request
  /\ turns \in Nat
  /\ queue \in Seq(Event)
  /\ ckpt \in Checkpoint
  /\ run \in [Proc -> Local]
  /\ alive \in SUBSET Proc
  /\ crashes \in Nat
  /\ delivered \in SUBSET Nat
  /\ unsigned \in SUBSET Node

(* run()'s claim is what a second runner loses: no two processes are ever   *)
(* between the claim and the settling transition, whoever crashes, is       *)
(* reclaimed or is terminated in between.                                   *)
OneDriver == \A p, q \in Proc : Driving(p) /\ Driving(q) => p = q

(* The row moves as the lifecycle of the store says: only the claimant      *)
(* settles a claim, and it is taken away only from a process that is gone.  *)
ImplementsLifecycle == Lifecycle!Spec

(* A process that drives the graph is the one the row names, until somebody *)
(* terminates the session: _settle checks the status only, and yet never    *)
(* settles another process's claim.                                         *)
DriverHoldsClaim ==
  \A p \in Proc : Driving(p) => \/ status = "terminated"
                                \/ status = "running" /\ runner = p

(* Of any number of processes that run, crash and are reclaimed, one at a   *)
(* time is the driver, and it is the claimant.                              *)
DriverIsClaimant == OneDriver /\ DriverHoldsClaim

(* No run() is ended by an exception after its claim: a row that says       *)
(* running has a live runner at work.                                       *)
RunningIsDriven == status = "running" => runner \in alive /\ Driving(runner)

(* The gate: the body of a gated node never runs unless a human approved    *)
(* the request recorded for it on the very boundary it runs from.           *)
NoUnsignedRun == unsigned = {}

(* "Pending gated node" is the only durable evidence that a hold is needed: *)
(* whatever way a turn ended, every gated node of the boundary it left is   *)
(* held on the record.                                                      *)
GateOnBoundaryIsHeld ==
  status \in Lifecycle!Settled => ckpt.todo \cap Gate \subseteq NodesOf(holds)

(* Whatever raises in a turn, and wherever it stops: the claim is settled,  *)
(* and with it every hold of the boundary.                                  *)
TurnsEndClean == RunningIsDriven /\ GateOnBoundaryIsHeld

(* Input that reached neither the graph nor the next turn is input that is  *)
(* gone: a consumed message was delivered, or its turn is about to.         *)
ConsumedIsDelivered ==
  \A i \in DOMAIN queue :
    queue[i].used /\ queue[i].kind = "message" =>
      \/ i \in delivered
      \/ \E p \in Proc : At(p, "open") /\ i \in run[p].queued

(* Whatever a human said counts: neither a verdict nor a message is lost,   *)
(* and no verdict counts that was not given.                                *)
InputsAreHonoured == NoUnsignedRun /\ ConsumedIsDelivered

(* A queued interrupt ends the turn that is running, however long the      *)
(* graph would go on, and the claim is settled: whatever the nodes, their   *)
(* routers and the budget do, the row leaves running.                       *)
InterruptStopsTheTurn ==
  status = "running" /\ PendingOf("interrupt") # {} ~> status # "running"
=============================================================================
