------------------------ MODULE SessionRuntimeProofs ------------------------
(***************************************************************************)
(* Theorems about SessionRuntime, for every set of processes, every graph  *)
(* and every bound.                                                        *)
(***************************************************************************)
EXTENDS SessionRuntime, SequenceTheorems, WellFoundedInduction, TLAPS

(* The successors that the edges of a set of nodes schedule are nodes.      *)
LEMMA ScheduledNodes ==
  ASSUME NEW N \in SUBSET Node, NEW next \in Scheduled(N)
  PROVE  next \in SUBSET Node
BY DEF Scheduled

(* Marking events used changes neither their number nor their kind.         *)
LEMMA UseType ==
  ASSUME NEW S, queue \in Seq(Event), Use(S)
  PROVE  queue' \in Seq(Event)
<1>1. queue' \in [1..Len(queue) -> Event]
  <2>1. ASSUME NEW i \in DOMAIN queue PROVE [queue[i] EXCEPT !.used = TRUE] \in Event
    <3>1. queue[i] \in Event
      BY <2>1
    <3>. QED  BY <3>1 DEF Event
  <2>. QED  BY <2>1 DEF Use
<1>. QED  BY <1>1, SeqDef

LEMMA DoneType ==
  ASSUME NEW c \in Checkpoint, NEW N \in SUBSET Node, NEW next \in SUBSET Node
  PROVE  Done(c, N, next) \in Checkpoint
BY DEF Done, Checkpoint

LEMMA BecomeType ==
  ASSUME run \in [Proc -> Local], NEW p \in Proc, NEW local \in Local, Become(p, local)
  PROVE  run' \in [Proc -> Local]
BY DEF Become

LEMMA IdleType == Idle \in Local
BY DEF Idle, Local, Steps, DrivingSteps, Boundary0, Checkpoint, Request

(* The updates of a local record that a step of run() makes.                *)
LEMMA LocalType ==
  ASSUME NEW l \in Local, NEW step \in Steps
  PROVE  /\ [l EXCEPT !.pc = step] \in Local
         /\ [l EXCEPT !.pc = step, !.error = TRUE] \in Local
         /\ [l EXCEPT !.pc = step, !.interrupted = TRUE] \in Local
BY DEF Local

(* What _read_queue and the end of a superstep leave in a local record.     *)
LEMMA QueuedType ==
  ASSUME NEW l \in Local, NEW Q \in SUBSET Nat,
         NEW yes \in SUBSET Request, NEW no \in SUBSET Request
  PROVE  [l EXCEPT !.pc = "prepare", !.queued = Q, !.approved = yes, !.rejected = no] \in Local
BY DEF Local, Steps, DrivingSteps

LEMMA MovedType ==
  ASSUME NEW l \in Local, NEW c \in Checkpoint
  PROVE  [l EXCEPT !.pc = "boundary", !.resumed = FALSE, !.moved = TRUE, !.mem = c] \in Local
BY DEF Local, Steps, DrivingSteps

(* A stream opened over a fresh checkpoint, and over the saved one.         *)
LEMMA OpenedType ==
  ASSUME NEW l \in Local, NEW c \in Checkpoint
  PROVE  /\ [l EXCEPT !.pc = "boundary", !.mem = c, !.moved = TRUE] \in Local
         /\ [l EXCEPT !.pc = "boundary", !.mem = c, !.resumed = TRUE] \in Local
BY DEF Local, Steps, DrivingSteps

(* What ReadSnapshot keeps of the snapshot it read.                         *)
LEMMA SnapshotType ==
  ASSUME NEW l \in Local, NEW T \in SUBSET Node, NEW U \in SUBSET Node
  PROVE  [l EXCEPT !.pc = "verdicts", !.todo = T, !.tasks = U, !.stale = FALSE] \in Local
BY DEF Local, Steps

(* Closing the stream saves the checkpoint and moves on to _settle.         *)
LEMMA CloseType ==
  ASSUME TypeOK, NEW p \in Proc, NEW why, Close(p, why)
  PROVE  run' \in [Proc -> Local] /\ ckpt' \in Checkpoint
<1>1. ckpt' \in Checkpoint
  BY DEF Close, Saved, TypeOK, Local
<1>2. ASSUME NEW q \in Proc PROVE Outdated(p, q) \in Local
  <2>1. run[q] \in Local
    BY DEF TypeOK
  <2>. QED  BY <2>1 DEF Outdated, Local
<1>3. [run[p] EXCEPT !.pc = "settle", !.interrupted = (why = "interrupt"),
                     !.error = (why = "error")] \in Local
  <2>1. run[p] \in Local
    BY DEF TypeOK
  <2>. QED  BY <2>1 DEF Local, Steps, DrivingSteps
<1>4. run' = [q \in Proc |-> IF q # p THEN Outdated(p, q)
                ELSE [run[p] EXCEPT !.pc = "settle", !.interrupted = (why = "interrupt"),
                                    !.error = (why = "error")]]
  BY DEF Close
<1>. QED  BY <1>1, <1>2, <1>3, <1>4

(***************************************************************************)
(* Type correctness.                                                       *)
(***************************************************************************)
LEMMA TypeInit == Init => TypeOK
<1>. SUFFICES ASSUME Init PROVE TypeOK
  OBVIOUS
<1>1. Boundary0({}) \in Checkpoint
  BY DEF Boundary0, Checkpoint
<1>2. <<>> \in Seq(Event)
  OBVIOUS
<1>. QED  BY <1>1, <1>2, IdleType DEF Init, TypeOK, Lifecycle!Status

LEMMA TypeNext == TypeOK /\ [Next]_vars => TypeOK'
<1>. SUFFICES ASSUME TypeOK, [Next]_vars PROVE TypeOK'
  OBVIOUS
<1>0. run \in [Proc -> Local] /\ \A p \in Proc : run[p] \in Local
  BY DEF TypeOK
<1>1. ASSUME NEW p \in Proc, NEW input \in Inputs, ReadRecord(p, input) PROVE TypeOK'
  <2>1. [Idle EXCEPT !.pc = "snapshot", !.input = input, !.holds = holds] \in Local
    BY <1>0, CallerAssumption, IdleType DEF Local, Steps, TypeOK
  <2>2. run' \in [Proc -> Local]
    BY <1>0, <2>1, <1>1, BecomeType DEF ReadRecord
  <2>. QED  BY <1>1, <2>2 DEF ReadRecord, TypeOK, rowVars, ghosts
<1>2. ASSUME NEW p \in Proc, ReadSnapshot(p) PROVE TypeOK'
  <2>1. ckpt.todo \in SUBSET Node /\ ckpt.filed \in SUBSET Node
    BY DEF TypeOK, Checkpoint
  <2>2. [run[p] EXCEPT !.pc = "verdicts", !.todo = ckpt.todo,
                       !.tasks = ckpt.todo \cup ckpt.filed, !.stale = FALSE] \in Local
    BY <1>0, <2>1, SnapshotType
  <2>3. run' \in [Proc -> Local]
    BY <1>0, <2>2, <1>2, BecomeType, IdleType DEF ReadSnapshot, Return
  <2>. QED  BY <1>2, <2>3 DEF ReadSnapshot, TypeOK, rowVars, ghosts
<1>3. ASSUME NEW p \in Proc, ReadVerdicts(p) PROVE TypeOK'
  <2>1. run' \in [Proc -> Local]
    BY <1>0, <1>3, LocalType, IdleType, BecomeType DEF ReadVerdicts, Return, Steps
  <2>. QED  BY <1>3, <2>1 DEF ReadVerdicts, TypeOK, rowVars, ghosts
<1>4. ASSUME NEW p \in Proc, Claim(p) PROVE TypeOK'
  <2>1. run' \in [Proc -> Local]
    BY <1>0, <1>4, LocalType, BecomeType DEF Claim, Steps, DrivingSteps
  <2>. QED  BY <1>4, <2>1 DEF Claim, TypeOK, ghosts, Lifecycle!Status
<1>5. ASSUME NEW p \in Proc, LoseClaim(p) PROVE TypeOK'
  <2>1. run' \in [Proc -> Local]
    BY <1>0, <1>5, IdleType, BecomeType DEF LoseClaim, Return
  <2>. QED  BY <1>5, <2>1 DEF LoseClaim, TypeOK, rowVars, ghosts
<1>6. ASSUME NEW p \in Proc, TakeQueuedInterrupt(p) PROVE TypeOK'
  <2>1. queue' \in Seq(Event)
    BY <1>6, UseType DEF TakeQueuedInterrupt, TypeOK
  <2>2. run' \in [Proc -> Local]
    BY <1>0, <1>6, LocalType, BecomeType DEF TakeQueuedInterrupt, Steps, DrivingSteps
  <2>. QED  BY <1>6, <2>2, <2>1 DEF TakeQueuedInterrupt, TypeOK, rowVars, ghosts
<1>7. ASSUME NEW p \in Proc, ReadQueue(p) PROVE TypeOK'
  <2>1. PendingOf("message") \cup PendingOf("decision") \subseteq Nat
    BY DEF PendingOf, Pending, TypeOK
  <2>. DEFINE yes == {r \in run[p].holds : Approves(r)}
              no  == {r \in run[p].holds : Rejects(r)}
  <2>0. yes \in SUBSET Request /\ no \in SUBSET Request
    BY <1>0 DEF Local
  <2>2. [run[p] EXCEPT !.pc = "prepare",
                       !.queued = PendingOf("message") \cup PendingOf("decision"),
                       !.approved = yes, !.rejected = no] \in Local
    BY <1>0, <2>0, <2>1, QueuedType
  <2>3. run' \in [Proc -> Local]
    BY <1>0, <2>2, <1>7, BecomeType DEF ReadQueue
  <2>. QED  BY <1>7, <2>3 DEF ReadQueue, TypeOK, rowVars, ghosts
<1>8. ASSUME NEW p \in Proc, Prepare(p) \/ PrepareRaises(p) PROVE TypeOK'
  <2>1. ASSUME NEW F, File(p, F) PROVE ckpt' \in Checkpoint
    <3>1. PICK N \in SUBSET Node, next \in SUBSET Node : ckpt' = Done(ckpt, N, next)
      BY <2>1, ScheduledNodes DEF File, TypeOK, Checkpoint
    <3>. QED  BY <3>1, DoneType DEF TypeOK
  <2>2. ckpt' \in Checkpoint
    BY <1>8, <2>1 DEF Prepare, PrepareRaises
  <2>3. run' \in [Proc -> Local]
    BY <1>0, <1>8, LocalType, BecomeType DEF Prepare, PrepareRaises, Steps, DrivingSteps
  <2>. QED  BY <1>8, <2>2, <2>3 DEF Prepare, PrepareRaises, TypeOK, rowVars, ghosts
<1>9. ASSUME NEW p \in Proc, Consume(p) PROVE TypeOK'
  <2>1. queue' \in Seq(Event)
    BY <1>9, UseType DEF Consume, TypeOK
  <2>2. run' \in [Proc -> Local]
    BY <1>0, <1>9, LocalType, BecomeType DEF Consume, Steps, DrivingSteps
  <2>. QED  BY <1>9, <2>2, <2>1 DEF Consume, TypeOK, rowVars, ghosts
<1>10. ASSUME NEW p \in Proc, OpenFresh(p) PROVE TypeOK'
  <2>1. PICK first \in Entry :
          Become(p, [run[p] EXCEPT !.pc = "boundary", !.mem = Boundary0(first),
                                   !.moved = TRUE])
    BY <1>10 DEF OpenFresh
  <2>2. Boundary0(first) \in Checkpoint
    BY GraphAssumption DEF Boundary0, Checkpoint
  <2>3. [run[p] EXCEPT !.pc = "boundary", !.mem = Boundary0(first), !.moved = TRUE] \in Local
    BY <1>0, <2>2, OpenedType
  <2>4. run' \in [Proc -> Local]
    BY <1>0, <2>3, <2>1, BecomeType DEF OpenFresh
  <2>5. Delivers(p) \subseteq Nat
    BY DEF Delivers, TypeOK, Local
  <2>. QED  BY <1>10, <2>4, <2>5 DEF OpenFresh, TypeOK, rowVars
<1>11. ASSUME NEW p \in Proc, OpenRaises(p) PROVE TypeOK'
  <2>1. run' \in [Proc -> Local]
    BY <1>0, <1>11, LocalType, BecomeType DEF OpenRaises, Steps, DrivingSteps
  <2>. QED  BY <1>11, <2>1 DEF OpenRaises, TypeOK, rowVars, ghosts
<1>12. ASSUME NEW p \in Proc, OpenResumed(p) PROVE TypeOK'
  <2>1. Delivers(p) \subseteq Nat
    BY DEF Delivers, TypeOK, Local
  <2>2. [run[p] EXCEPT !.pc = "boundary", !.mem = ckpt, !.resumed = TRUE] \in Local
    BY <1>0, OpenedType DEF TypeOK
  <2>3. run' \in [Proc -> Local]
    BY <1>0, <2>2, <1>12, BecomeType DEF OpenResumed
  <2>. QED  BY <1>12, <2>3, <2>1 DEF OpenResumed, TypeOK, rowVars
<1>13. ASSUME NEW p \in Proc, Boundary(p) PROVE TypeOK'
  <2>1. queue' \in Seq(Event)
    BY <1>13, UseType DEF Boundary, TypeOK
  <2>2. run' \in [Proc -> Local] /\ ckpt' \in Checkpoint
    <3>1. CASE \E why : Close(p, why)
      BY <3>1, CloseType
    <3>2. CASE Become(p, [run[p] EXCEPT !.pc = "step"]) /\ UNCHANGED ckpt
      BY <1>0, <3>2, LocalType, BecomeType DEF TypeOK, Steps, DrivingSteps
    <3>. QED  BY <1>13, <3>1, <3>2 DEF Boundary
  <2>. QED  BY <1>13, <2>1, <2>2 DEF Boundary, TypeOK, rowVars, ghosts
<1>14. ASSUME NEW p \in Proc, NEW n \in Node, RunTask(p, n) PROVE TypeOK'
  <2>1. PICK next \in Routes[n] : Become(p, [run[p] EXCEPT !.mem = Done(run[p].mem, {n}, next)])
    BY <1>14 DEF RunTask
  <2>2. Done(run[p].mem, {n}, next) \in Checkpoint
    <3>1. next \in SUBSET Node
      BY GraphAssumption
    <3>. QED  BY <3>1, DoneType DEF TypeOK, Local
  <2>3. [run[p] EXCEPT !.mem = Done(run[p].mem, {n}, next)] \in Local
    BY <1>0, <2>2 DEF Local
  <2>4. run' \in [Proc -> Local]
    BY <1>0, <2>3, <2>1, BecomeType DEF RunTask
  <2>5. unsigned' \in SUBSET Node
    BY <1>14 DEF RunTask, TypeOK
  <2>. QED  BY <1>14, <2>4, <2>5 DEF RunTask, TypeOK, rowVars
<1>15. ASSUME NEW p \in Proc, NodeRaises(p) PROVE TypeOK'
  <2>1. run' \in [Proc -> Local] /\ ckpt' \in Checkpoint
    BY <1>15, CloseType DEF NodeRaises
  <2>. QED  BY <1>15, <2>1 DEF NodeRaises, TypeOK, rowVars, ghosts
<1>16. ASSUME NEW p \in Proc, StepCommit(p) PROVE TypeOK'
  <2>1. Boundary0(run[p].mem.due) \in Checkpoint
    BY DEF Boundary0, Checkpoint, TypeOK, Local
  <2>2. [run[p] EXCEPT !.pc = "boundary", !.resumed = FALSE, !.moved = TRUE,
                       !.mem = Boundary0(run[p].mem.due)] \in Local
    BY <1>0, <2>1, MovedType
  <2>3. run' \in [Proc -> Local]
    BY <1>0, <2>2, <1>16, BecomeType DEF StepCommit
  <2>. QED  BY <1>16, <2>3 DEF StepCommit, TypeOK, rowVars, ghosts
<1>17. ASSUME NEW p \in Proc, Settle(p) PROVE TypeOK'
  <2>1. NewHolds \in SUBSET Request
    BY GraphAssumption DEF NewHolds, Held, Request, TypeOK
  <2>2. ckpt' \in Checkpoint
    BY <1>17, <2>1 DEF Settle, TypeOK, Checkpoint
  <2>3. status' \in Lifecycle!Status
    BY <1>17 DEF Settle, SettledStatus, Lifecycle!Status
  <2>4. run' \in [Proc -> Local]
    BY <1>0, <1>17, IdleType, BecomeType DEF Settle, Return
  <2>. QED  BY <1>17, <2>1, <2>2, <2>3, <2>4 DEF Settle, TypeOK, ghosts
<1>18. ASSUME NEW p \in Proc, SettleTerminated(p) \/ SettleRaises(p) PROVE TypeOK'
  <2>1. run' \in [Proc -> Local]
    BY <1>0, <1>18, IdleType, BecomeType DEF SettleTerminated, SettleRaises, Return
  <2>. QED  BY <1>18, <2>1 DEF SettleTerminated, SettleRaises, TypeOK, rowVars, ghosts
<1>19. ASSUME NEW p \in Proc, Save(p) PROVE TypeOK'
  <2>1. run' \in [Proc -> Local]
    <3>1. ASSUME NEW q \in Proc PROVE Outdated(p, q) \in Local
      BY <1>0 DEF Outdated, Local
    <3>2. [run[p] EXCEPT !.moved = FALSE] \in Local
      BY <1>0 DEF Local
    <3>. QED  BY <1>19, <3>1, <3>2 DEF Save
  <2>2. ckpt' \in Checkpoint
    BY <1>19 DEF Save, Saved, TypeOK, Local
  <2>. QED  BY <1>19, <2>1, <2>2 DEF Save, TypeOK, rowVars, ghosts
<1>20. ASSUME Send \/ Interrupt PROVE TypeOK'
  <2>1. ASSUME NEW kind \in {"message", "interrupt"}
        PROVE  [kind |-> kind, used |-> FALSE] \in Event
    BY DEF Event
  <2>2. PICK event \in Event : queue' = Append(queue, event)
    BY <1>20, <2>1 DEF Send, Interrupt, Push
  <2>3. queue' \in Seq(Event)
    BY <2>2 DEF TypeOK
  <2>. QED  BY <1>20, <2>3 DEF Send, Interrupt, Push, TypeOK, rowVars, ghosts
<1>21. ASSUME NEW r \in [turn : 1..turns, node : Gate], NEW verdict \in BOOLEAN,
              Decide(r, verdict)
       PROVE  TypeOK'
  <2>1. r \in Request
    BY GraphAssumption DEF Request, TypeOK
  <2>2. [kind |-> "decision", request |-> r, approved |-> verdict, used |-> FALSE] \in Event
    BY <2>1 DEF Event
  <2>3. queue' \in Seq(Event)
    BY <1>21, <2>2 DEF Decide, Push, TypeOK
  <2>. QED  BY <1>21, <2>3 DEF Decide, Push, TypeOK, rowVars, ghosts
<1>22. ASSUME Terminate PROVE TypeOK'
  BY <1>22 DEF Terminate, TypeOK, ghosts, Lifecycle!Status
<1>23. ASSUME NEW p \in Proc, Reclaim(p) PROVE TypeOK'
  BY <1>23 DEF Reclaim, TypeOK, ghosts, Lifecycle!Status
<1>24. ASSUME NEW p \in Proc, Crash(p) \/ Respawn(p) PROVE TypeOK'
  <2>1. run' \in [Proc -> Local]
    BY <1>0, <1>24, IdleType, BecomeType DEF Crash, Respawn, Return
  <2>2. alive' \in SUBSET Proc /\ crashes' \in Nat
    BY <1>24 DEF Crash, Respawn, TypeOK
  <2>. QED  BY <1>24, <2>1, <2>2 DEF Crash, Respawn, TypeOK, rowVars, ghosts
<1>25. CASE UNCHANGED vars
  BY <1>25 DEF vars, rowVars, ghosts, TypeOK
<1>. QED
  BY <1>1, <1>2, <1>3, <1>4, <1>5, <1>6, <1>7, <1>8, <1>9, <1>10, <1>11, <1>12, <1>13, <1>14,
     <1>15, <1>16, <1>17, <1>18, <1>19, <1>20, <1>21, <1>22, <1>23, <1>24, <1>25
  DEF Next, Turn

(* Every reachable state is one of the program's: for any graph, any number *)
(* of processes and any bound.                                              *)
THEOREM TypeCorrect == Spec => []TypeOK
BY TypeInit, TypeNext, PTL DEF Spec

(***************************************************************************)
(* The claim.                                                              *)
(***************************************************************************)
(* A step of one run() call that neither claims nor settles: what it leaves *)
(* alone, whatever it does to the queue and the checkpoint.                 *)
InternalStep(p) ==
  \/ \E input \in Inputs : ReadRecord(p, input)
  \/ ReadSnapshot(p) \/ ReadVerdicts(p) \/ LoseClaim(p) \/ TakeQueuedInterrupt(p)
  \/ ReadQueue(p) \/ Prepare(p) \/ PrepareRaises(p) \/ Consume(p) \/ OpenFresh(p)
  \/ OpenRaises(p) \/ OpenResumed(p) \/ Boundary(p) \/ (\E n \in Node : RunTask(p, n))
  \/ NodeRaises(p) \/ StepCommit(p) \/ SettleTerminated(p) \/ SettleRaises(p) \/ Save(p)

Quiet(p) ==
  /\ UNCHANGED <<status, runner, holds, alive, crashes>>
  /\ p \in alive
  /\ Driving(p)' => Driving(p)
  /\ Driving(p) => Driving(p)' \/ status # "running" \/ DescribeRaises
  /\ \A q \in Proc \ {p} : run'[q].pc = run[q].pc
  /\ Driving(p) \/ UNCHANGED ckpt

LEMMA BecomePc ==
  ASSUME run \in [Proc -> Local], NEW p \in Proc, NEW local, Become(p, local)
  PROVE  run'[p] = local /\ \A q \in Proc \ {p} : run'[q].pc = run[q].pc
BY DEF Become

LEMMA ClosePc ==
  ASSUME TypeOK, NEW p \in Proc, NEW why, Close(p, why)
  PROVE  run'[p].pc = "settle" /\ \A q \in Proc \ {p} : run'[q].pc = run[q].pc
<1>0. ASSUME NEW q \in Proc PROVE run[q] \in Local
  BY DEF TypeOK
<1>1. ASSUME NEW q \in Proc PROVE Outdated(p, q).pc = run[q].pc
  BY <1>0 DEF Outdated, Local
<1>2. [run[p] EXCEPT !.pc = "settle", !.interrupted = (why = "interrupt"),
                     !.error = (why = "error")].pc = "settle"
  BY <1>0 DEF Local
<1>. QED  BY <1>1, <1>2 DEF Close

LEMMA InternalIsQuiet ==
  ASSUME TypeOK, NEW p \in Proc, InternalStep(p)
  PROVE  Quiet(p)
<1>0. run \in [Proc -> Local]
  BY DEF TypeOK
<1>1. ASSUME NEW input \in Inputs, ReadRecord(p, input) PROVE Quiet(p)
  <2>1. [Idle EXCEPT !.pc = "snapshot", !.input = input, !.holds = holds].pc = "snapshot"
    BY IdleType DEF Local
  <2>2. ~Driving(p) /\ ~Driving(p)'
    BY <1>0, <1>1, <2>1, BecomePc DEF ReadRecord, Driving, DrivingSteps, At
  <2>. QED  BY <1>0, <1>1, <2>2, BecomePc DEF ReadRecord, Quiet, At, rowVars
<1>2. CASE ReadSnapshot(p) \/ ReadVerdicts(p) \/ LoseClaim(p)
  <2>1. /\ Idle.pc = "idle"
        /\ [run[p] EXCEPT !.pc = "claim"].pc = "claim"
        /\ [run[p] EXCEPT !.pc = "verdicts", !.todo = ckpt.todo,
                          !.tasks = ckpt.todo \cup ckpt.filed, !.stale = FALSE].pc = "verdicts"
    BY <1>0 DEF Idle, Local
  <2>2. ~Driving(p) /\ ~Driving(p)'
    BY <1>0, <1>2, <2>1, BecomePc
    DEF ReadSnapshot, ReadVerdicts, LoseClaim, Return, Driving, DrivingSteps, At
  <2>. QED  BY <1>0, <1>2, <2>2, BecomePc
            DEF ReadSnapshot, ReadVerdicts, LoseClaim, Return, Quiet, At, rowVars
<1>3. CASE TakeQueuedInterrupt(p)
  <2>1. Driving(p)
    BY <1>3 DEF TakeQueuedInterrupt, Driving, DrivingSteps, At
  <2>2. \/ run'[p] = [run[p] EXCEPT !.pc = "settle", !.interrupted = TRUE]
        \/ run'[p] = [run[p] EXCEPT !.pc = "read"]
    BY <1>0, <1>3, BecomePc DEF TakeQueuedInterrupt
  <2>3. run'[p].pc \in {"settle", "read"}
    BY <1>0, <2>2 DEF Local
  <2>4. Driving(p)'
    BY <2>3 DEF Driving, DrivingSteps
  <2>. QED  BY <1>0, <1>3, <2>1, <2>4, BecomePc DEF TakeQueuedInterrupt, Quiet, At, rowVars
<1>4. CASE ReadQueue(p)
  <2>1. Driving(p)
    BY <1>4 DEF ReadQueue, Driving, DrivingSteps, At
  <2>2. run'[p] = [run[p] EXCEPT !.pc = "prepare",
                                 !.queued = PendingOf("message") \cup PendingOf("decision"),
                                 !.approved = {r \in run[p].holds : Approves(r)},
                                 !.rejected = {r \in run[p].holds : Rejects(r)}]
    BY <1>0, <1>4, BecomePc DEF ReadQueue
  <2>3. run'[p].pc = "prepare"
    BY <1>0, <2>2 DEF Local
  <2>4. Driving(p)'
    BY <2>3 DEF Driving, DrivingSteps
  <2>. QED  BY <1>0, <1>4, <2>1, <2>4, BecomePc DEF ReadQueue, Quiet, At, rowVars
<1>5. CASE Prepare(p)
  <2>1. Driving(p)
    BY <1>5 DEF Prepare, Driving, DrivingSteps, At
  <2>2. Driving(p)'
    BY <1>5, <1>0, BecomePc DEF Prepare, At, Local, Driving, DrivingSteps
  <2>. QED  BY <1>0, <1>5, <2>1, <2>2, BecomePc DEF Prepare, Quiet, At, rowVars
<1>6. CASE PrepareRaises(p)
  <2>1. Driving(p)
    BY <1>6 DEF PrepareRaises, Driving, DrivingSteps, At
  <2>2. run'[p] = [run[p] EXCEPT !.pc = "settle", !.error = TRUE]
    BY <1>0, <1>6, BecomePc DEF PrepareRaises
  <2>3. run'[p].pc = "settle"
    BY <1>0, <2>2 DEF Local
  <2>4. Driving(p)'
    BY <2>3 DEF Driving, DrivingSteps
  <2>. QED  BY <1>0, <1>6, <2>1, <2>4, BecomePc DEF PrepareRaises, Quiet, At, rowVars
<1>7. CASE Consume(p)
  <2>1. Driving(p)
    BY <1>7 DEF Consume, Driving, DrivingSteps, At
  <2>2. Driving(p)'
    BY <1>7, <1>0, BecomePc DEF Consume, At, Local, Driving, DrivingSteps
  <2>. QED  BY <1>0, <1>7, <2>1, <2>2, BecomePc DEF Consume, Quiet, At, rowVars
<1>8. CASE OpenFresh(p)
  <2>1. Driving(p)
    BY <1>8 DEF OpenFresh, Driving, DrivingSteps, At
  <2>2. \E first : run'[p] = [run[p] EXCEPT !.pc = "boundary", !.mem = Boundary0(first),
                                              !.moved = TRUE]
    BY <1>0, <1>8, BecomePc DEF OpenFresh
  <2>3. run'[p].pc = "boundary"
    BY <1>0, <2>2 DEF Local
  <2>4. Driving(p)'
    BY <2>3 DEF Driving, DrivingSteps
  <2>. QED  BY <1>0, <1>8, <2>1, <2>4, BecomePc DEF OpenFresh, Quiet, At, rowVars
<1>9. CASE OpenRaises(p)
  <2>1. Driving(p)
    BY <1>9 DEF OpenRaises, Driving, DrivingSteps, At
  <2>2. run'[p] = [run[p] EXCEPT !.pc = "settle", !.error = TRUE]
    BY <1>0, <1>9, BecomePc DEF OpenRaises
  <2>3. run'[p].pc = "settle"
    BY <1>0, <2>2 DEF Local
  <2>4. Driving(p)'
    BY <2>3 DEF Driving, DrivingSteps
  <2>. QED  BY <1>0, <1>9, <2>1, <2>4, BecomePc DEF OpenRaises, Quiet, At, rowVars
<1>10. CASE OpenResumed(p)
  <2>1. Driving(p)
    BY <1>10 DEF OpenResumed, Driving, DrivingSteps, At
  <2>2. run'[p] = [run[p] EXCEPT !.pc = "boundary", !.mem = ckpt, !.resumed = TRUE]
    BY <1>0, <1>10, BecomePc DEF OpenResumed
  <2>3. run'[p].pc = "boundary"
    BY <1>0, <2>2 DEF Local
  <2>4. Driving(p)'
    BY <2>3 DEF Driving, DrivingSteps
  <2>. QED  BY <1>0, <1>10, <2>1, <2>4, BecomePc DEF OpenResumed, Quiet, At, rowVars
<1>11. CASE Boundary(p)
  <2>1. Driving(p)
    BY <1>11 DEF Boundary, Driving, DrivingSteps, At
  <2>2. Driving(p)'
    BY <1>11, <1>0, BecomePc, ClosePc DEF Boundary, At, Local, Driving, DrivingSteps
  <2>. QED  BY <1>0, <1>11, <2>1, <2>2, BecomePc, ClosePc DEF Boundary, Quiet, At, rowVars
<1>12. ASSUME NEW n \in Node, RunTask(p, n) PROVE Quiet(p)
  <2>1. Driving(p)
    BY <1>12 DEF RunTask, Driving, DrivingSteps, At
  <2>2. Driving(p)'
    BY <1>12, <1>0, BecomePc DEF RunTask, At, Local, Driving, DrivingSteps
  <2>. QED  BY <1>0, <1>12, <2>1, <2>2, BecomePc DEF RunTask, Quiet, At, rowVars
<1>13. CASE NodeRaises(p)
  <2>1. Driving(p)
    BY <1>13 DEF NodeRaises, Driving, DrivingSteps, At
  <2>2. Driving(p)'
    BY <1>13, <1>0, BecomePc, ClosePc DEF NodeRaises, At, Local, Driving, DrivingSteps
  <2>. QED  BY <1>0, <1>13, <2>1, <2>2, BecomePc, ClosePc DEF NodeRaises, Quiet, At, rowVars
<1>14. CASE StepCommit(p)
  <2>1. Driving(p)
    BY <1>14 DEF StepCommit, Driving, DrivingSteps, At
  <2>2. run'[p] = [run[p] EXCEPT !.pc = "boundary", !.resumed = FALSE, !.moved = TRUE,
                                 !.mem = Boundary0(run[p].mem.due)]
    BY <1>0, <1>14, BecomePc DEF StepCommit
  <2>3. run'[p].pc = "boundary"
    BY <1>0, <2>2 DEF Local
  <2>4. Driving(p)'
    BY <2>3 DEF Driving, DrivingSteps
  <2>. QED  BY <1>0, <1>14, <2>1, <2>4, BecomePc DEF StepCommit, Quiet, At, rowVars
<1>15. CASE SettleTerminated(p) \/ SettleRaises(p)
  BY <1>0, <1>15, BecomePc
  DEF SettleTerminated, SettleRaises, Return, Idle, Quiet, Driving, DrivingSteps, At, rowVars
<1>16. CASE Save(p)
  <2>1. ASSUME NEW q \in Proc PROVE Outdated(p, q).pc = run[q].pc
    BY DEF Outdated, TypeOK, Local
  <2>2. [run[p] EXCEPT !.moved = FALSE].pc = run[p].pc
    BY <1>0 DEF Local
  <2>. QED  BY <1>16, <2>1, <2>2 DEF Save, Quiet, Driving, DrivingSteps, rowVars
<1>. QED
  BY <1>1, <1>2, <1>3, <1>4, <1>5, <1>6, <1>7, <1>8,
     <1>9, <1>10, <1>11, <1>12, <1>13, <1>14, <1>15, <1>16 DEF InternalStep

(* Every step is an internal one, a claim, a settling, or somebody else's.  *)
LEMMA StepCases ==
  ASSUME [Next]_vars
  PROVE  \/ \E p \in Proc : InternalStep(p) \/ Claim(p) \/ Settle(p) \/ Reclaim(p)
                               \/ Crash(p) \/ Respawn(p)
         \/ Send \/ Interrupt \/ Terminate
         \/ \E r \in [turn : 1..turns, node : Gate], verdict \in BOOLEAN : Decide(r, verdict)
         \/ UNCHANGED vars
BY DEF Next, Turn, InternalStep

(* A pushed event changes the queue and nothing else.                       *)
LEMMA PushFrame ==
  ASSUME \/ Send \/ Interrupt
         \/ \E r \in [turn : 1..turns, node : Gate], verdict \in BOOLEAN : Decide(r, verdict)
         \/ UNCHANGED vars
  PROVE  UNCHANGED <<status, runner, holds, alive, crashes, run, ckpt>>
BY DEF Send, Interrupt, Decide, Push, vars, rowVars

(* The claim, inductively: whoever drives is alive, is alone, and holds the *)
(* claim the row records unless the session was terminated under it.        *)
ClaimInv ==
  /\ TypeOK
  /\ \A p \in Proc : Driving(p) => p \in alive
  /\ DriverHoldsClaim
  /\ OneDriver

LEMMA ClaimInit == Init => ClaimInv
BY TypeInit DEF Init, ClaimInv, DriverHoldsClaim, OneDriver, Driving, DrivingSteps, Idle

LEMMA ClaimNext == ClaimInv /\ [Next]_vars => ClaimInv'
<1>. SUFFICES ASSUME ClaimInv, [Next]_vars PROVE ClaimInv'
  OBVIOUS
<1>0. TypeOK /\ TypeOK' /\ run \in [Proc -> Local]
  BY TypeNext DEF ClaimInv, TypeOK
<1>1. ASSUME NEW p \in Proc, InternalStep(p) PROVE ClaimInv'
  <2>1. Quiet(p)
    BY <1>0, <1>1, InternalIsQuiet
  <2>. QED  BY <1>0, <2>1 DEF Quiet, ClaimInv, DriverHoldsClaim, OneDriver, Driving
<1>2. ASSUME NEW p \in Proc, Claim(p) PROVE ClaimInv'
  <2>1. \A q \in Proc : ~Driving(q)
    BY <1>2 DEF Claim, Lifecycle!Resumable, Lifecycle!Allowed, Lifecycle!Status, ClaimInv,
                DriverHoldsClaim
  <2>2. \A q \in Proc \ {p} : ~Driving(q)'
    BY <1>0, <1>2, <2>1, BecomePc DEF Claim, Driving
  <2>. QED  BY <1>0, <1>2, <2>2 DEF Claim, At, ClaimInv, DriverHoldsClaim, OneDriver
<1>3. ASSUME NEW p \in Proc, Settle(p) PROVE ClaimInv'
  <2>1. Driving(p)
    BY <1>3 DEF Settle, At, Driving, DrivingSteps
  <2>2. \A q \in Proc : ~Driving(q)'
    BY <1>0, <1>3, <2>1, BecomePc
    DEF Settle, Return, Idle, Driving, DrivingSteps, ClaimInv, OneDriver
  <2>. QED  BY <1>0, <2>2 DEF ClaimInv, DriverHoldsClaim, OneDriver
<1>4. ASSUME NEW p \in Proc, Reclaim(p) PROVE ClaimInv'
  <2>1. \A q \in Proc : ~Driving(q)
    BY <1>4 DEF Reclaim, ClaimInv, DriverHoldsClaim
  <2>. QED  BY <1>0, <1>4, <2>1 DEF Reclaim, ClaimInv, DriverHoldsClaim, OneDriver, Driving
<1>5. ASSUME NEW p \in Proc, Crash(p) PROVE ClaimInv'
  BY <1>0, <1>5, BecomePc
  DEF Crash, Return, Idle, rowVars, ClaimInv, DriverHoldsClaim, OneDriver, Driving, DrivingSteps
<1>6. ASSUME NEW p \in Proc, Respawn(p) PROVE ClaimInv'
  BY <1>0, <1>6 DEF Respawn, rowVars, ClaimInv, DriverHoldsClaim, OneDriver, Driving
<1>7. CASE Terminate
  BY <1>0, <1>7 DEF Terminate, ClaimInv, DriverHoldsClaim, OneDriver, Driving
<1>8. CASE UNCHANGED <<status, runner, holds, alive, crashes, run, ckpt>>
  BY <1>0, <1>8 DEF ClaimInv, DriverHoldsClaim, OneDriver, Driving
<1>. QED
  BY <1>1, <1>2, <1>3, <1>4, <1>5, <1>6, <1>7, <1>8, StepCases, PushFrame

LEMMA ClaimAlways == Spec => []ClaimInv
BY ClaimInit, ClaimNext, PTL DEF Spec

(* However many processes run, crash, come back under a recycled pid,       *)
(* reclaim or terminate: one process at a time drives the session, and it   *)
(* is the one the row names, until somebody terminates.                     *)
THEOREM DriverIsClaimantAlways == Spec => []DriverIsClaimant
<1>1. ClaimInv => DriverIsClaimant
  BY DEF ClaimInv, DriverIsClaimant
<1>. QED  BY <1>1, ClaimAlways, PTL

(* The row implements the lifecycle of the store: _settle's compare-and-set *)
(* looks at the status alone, and yet only ever ends the settler's claim.   *)
THEOREM RowImplementsLifecycle == Spec => ImplementsLifecycle
<1>1. Init => Lifecycle!Init
  BY DEF Init, Lifecycle!Init
<1>2. ClaimInv /\ [Next]_vars => [Lifecycle!Next]_(Lifecycle!vars)
  <2>. SUFFICES ASSUME ClaimInv, [Next]_vars PROVE [Lifecycle!Next]_(Lifecycle!vars)
    OBVIOUS
  <2>1. ASSUME NEW p \in Proc, InternalStep(p) PROVE UNCHANGED Lifecycle!vars
    BY <2>1, InternalIsQuiet DEF Quiet, ClaimInv, Lifecycle!vars
  <2>2. ASSUME NEW p \in Proc, Claim(p) PROVE Lifecycle!Claim(p)
    BY <2>2 DEF Claim, At, Lifecycle!Claim
  <2>3. ASSUME NEW p \in Proc, Settle(p) PROVE Lifecycle!Settle(p)
    <3>1. runner = p
      BY <2>3 DEF Settle, At, Driving, DrivingSteps, ClaimInv, DriverHoldsClaim
    <3>2. SettledStatus(p) \in Lifecycle!Settled
      BY DEF SettledStatus, Lifecycle!Settled, Lifecycle!Allowed
    <3>. QED  BY <2>3, <3>1, <3>2 DEF Settle, At, Lifecycle!Settle
  <2>4. ASSUME NEW p \in Proc, Reclaim(p) PROVE Lifecycle!Reclaim(p)
    BY <2>4 DEF Reclaim, At, Lifecycle!Reclaim
  <2>5. ASSUME NEW p \in Proc, Crash(p) PROVE Lifecycle!Die(p)
    BY <2>5 DEF Crash, rowVars, Lifecycle!Die
  <2>6. ASSUME NEW p \in Proc, Respawn(p) PROVE Lifecycle!Respawn(p)
    BY <2>6 DEF Respawn, rowVars, Lifecycle!Respawn
  <2>7. ASSUME Terminate PROVE Lifecycle!Terminate
    <3>1. status \in Lifecycle!Status
      BY DEF ClaimInv, TypeOK
    <3>. QED  BY <2>7, <3>1 DEF Terminate, Lifecycle!Terminate
  <2>8. CASE UNCHANGED <<status, runner, holds, alive, crashes, run, ckpt>>
    BY <2>8 DEF Lifecycle!vars
  <2>. QED
    BY <2>1, <2>2, <2>3, <2>4, <2>5, <2>6, <2>7, <2>8, StepCases, PushFrame DEF Lifecycle!Next
<1>. QED
  BY <1>1, <1>2, ClaimAlways, PTL DEF Spec, ImplementsLifecycle, Lifecycle!Spec

(***************************************************************************)
(* The gate, as long as no process dies.                                   *)
(***************************************************************************)
GateInv == ClaimInv /\ alive = Proc /\ crashes = 0 /\ GateOnBoundaryIsHeld

(* Without crashes every turn, however it ends, leaves each gated node of   *)
(* the boundary held on the record: for any number of concurrent runners.   *)
THEOREM GateIsHeldWithoutCrashes ==
  ASSUME MaxCrashes = 0
  PROVE  Spec => []GateOnBoundaryIsHeld
<1>1. Init => GateInv
  BY ClaimInit DEF Init, GateInv, GateOnBoundaryIsHeld, Lifecycle!Settled, Lifecycle!Allowed
<1>2. GateInv /\ [Next]_vars => GateInv'
  <2>. SUFFICES ASSUME GateInv, [Next]_vars PROVE GateInv'
    OBVIOUS
  <2>0. ClaimInv /\ ClaimInv' /\ TypeOK
    BY ClaimNext DEF GateInv, ClaimInv
  <2>1. ASSUME NEW p \in Proc, InternalStep(p) PROVE GateInv'
    <3>1. Quiet(p)
      BY <2>0, <2>1, InternalIsQuiet
    <3>2. CASE Driving(p)
      <4>1. status \notin Lifecycle!Settled
        BY <2>0, <3>2 DEF ClaimInv, DriverHoldsClaim, Lifecycle!Settled, Lifecycle!Allowed
      <4>. QED  BY <2>0, <3>1, <4>1 DEF Quiet, GateInv, GateOnBoundaryIsHeld
    <3>3. CASE UNCHANGED ckpt
      BY <2>0, <3>1, <3>3 DEF Quiet, GateInv, GateOnBoundaryIsHeld
    <3>. QED  BY <3>1, <3>2, <3>3 DEF Quiet
  <2>2. ASSUME NEW p \in Proc, Claim(p) PROVE GateInv'
    BY <2>0, <2>2
    DEF Claim, GateInv, GateOnBoundaryIsHeld, Lifecycle!Settled, Lifecycle!Allowed
  <2>3. ASSUME NEW p \in Proc, Settle(p) PROVE GateInv'
    <3>1. ckpt'.todo = ckpt.todo
      BY <2>0, <2>3 DEF Settle, TypeOK, Checkpoint
    <3>2. ckpt.todo \cap Gate \subseteq NodesOf(NewHolds)
      <4>1. SUFFICES ASSUME NEW n \in Held PROVE n \in NodesOf(NewHolds)
        BY DEF Held
      <4>2. [turn |-> turns + 1, node |-> n] \in NewHolds
        BY DEF NewHolds
      <4>. QED  BY <4>2 DEF NodesOf
    <3>. QED  BY <2>0, <2>3, <3>1, <3>2 DEF Settle, GateInv, GateOnBoundaryIsHeld, NodesOf
  <2>4. ASSUME NEW p \in Proc, Reclaim(p) \/ Crash(p) \/ Respawn(p) PROVE GateInv'
    BY <2>4 DEF Reclaim, Crash, Respawn, GateInv
  <2>5. CASE Terminate
    BY <2>0, <2>5
    DEF Terminate, GateInv, GateOnBoundaryIsHeld, Lifecycle!Settled, Lifecycle!Allowed
  <2>6. CASE UNCHANGED <<status, runner, holds, alive, crashes, run, ckpt>>
    BY <2>0, <2>6 DEF GateInv, GateOnBoundaryIsHeld
  <2>. QED  BY <2>1, <2>2, <2>3, <2>4, <2>5, <2>6, StepCases, PushFrame
<1>3. GateInv => GateOnBoundaryIsHeld
  BY DEF GateInv
<1>. QED  BY <1>1, <1>2, <1>3, PTL DEF Spec

(***************************************************************************)
(* No wedged session, as long as no process dies and `describe` is total.  *)
(***************************************************************************)
DrivenInv == ClaimInv /\ alive = Proc /\ crashes = 0 /\ RunningIsDriven

(* run() never ends by an exception between its claim and its settling      *)
(* transition, so a row that says running has its runner at work.           *)
THEOREM RunningIsDrivenWithoutCrashes ==
  ASSUME MaxCrashes = 0, ~DescribeRaises
  PROVE  Spec => []RunningIsDriven
<1>1. Init => DrivenInv
  BY ClaimInit DEF Init, DrivenInv, RunningIsDriven
<1>2. DrivenInv /\ [Next]_vars => DrivenInv'
  <2>. SUFFICES ASSUME DrivenInv, [Next]_vars PROVE DrivenInv'
    OBVIOUS
  <2>0. ClaimInv /\ ClaimInv' /\ TypeOK /\ run \in [Proc -> Local]
    BY ClaimNext DEF DrivenInv, ClaimInv, TypeOK
  <2>1. ASSUME NEW p \in Proc, InternalStep(p) PROVE DrivenInv'
    <3>1. Quiet(p)
      BY <2>0, <2>1, InternalIsQuiet
    <3>2. ASSUME NEW q \in Proc \ {p}, Driving(q) PROVE Driving(q)'
      BY <3>1, <3>2 DEF Quiet, Driving
    <3>3. ASSUME status = "running", Driving(p) PROVE Driving(p)'
      BY <3>1, <3>3 DEF Quiet
    <3>4. ASSUME status = "running" PROVE Driving(runner)'
      BY <3>1, <3>2, <3>3, <3>4 DEF Quiet, DrivenInv, RunningIsDriven, Driving
    <3>. QED  BY <2>0, <3>1, <3>4 DEF Quiet, DrivenInv, RunningIsDriven, Driving
  <2>2. ASSUME NEW p \in Proc, Claim(p) PROVE DrivenInv'
    <3>1. [run[p] EXCEPT !.pc = "poll"].pc = "poll"
      BY <2>0 DEF Local
    <3>. QED  BY <2>0, <2>2, <3>1, BecomePc
              DEF Claim, At, DrivenInv, RunningIsDriven, Driving, DrivingSteps
  <2>3. ASSUME NEW p \in Proc, Settle(p) PROVE DrivenInv'
    BY <2>0, <2>3 DEF Settle, SettledStatus, DrivenInv, RunningIsDriven
  <2>4. ASSUME NEW p \in Proc, Reclaim(p) \/ Crash(p) \/ Respawn(p) PROVE DrivenInv'
    BY <2>4 DEF Reclaim, Crash, Respawn, DrivenInv
  <2>5. CASE Terminate
    BY <2>0, <2>5 DEF Terminate, DrivenInv, RunningIsDriven
  <2>6. CASE UNCHANGED <<status, runner, holds, alive, crashes, run, ckpt>>
    BY <2>0, <2>6 DEF DrivenInv, RunningIsDriven, Driving
  <2>. QED  BY <2>1, <2>2, <2>3, <2>4, <2>5, <2>6, StepCases, PushFrame
<1>3. DrivenInv => RunningIsDriven
  BY DEF DrivenInv
<1>. QED  BY <1>1, <1>2, <1>3, PTL DEF Spec

(* Both: whatever raises or stops a turn, it leaves neither a row without a *)
(* runner nor a gated node without a hold.                                  *)
THEOREM TurnsEndCleanWithoutCrashes ==
  ASSUME MaxCrashes = 0, ~DescribeRaises
  PROVE  Spec => []TurnsEndClean
<1>1. RunningIsDriven /\ GateOnBoundaryIsHeld => TurnsEndClean
  BY DEF TurnsEndClean
<1>. QED  BY <1>1, RunningIsDrivenWithoutCrashes, GateIsHeldWithoutCrashes, PTL

(***************************************************************************)
(* The human's word, as long as the calls of run() follow one another and  *)
(* no process dies in one.                                                 *)
(***************************************************************************)
(* No two calls of run() overlap, from the first read to the return: what a *)
(* session driven from one place keeps to, and the claim, which only guards *)
(* the time after it, does not enforce.                                     *)
Serial == \A p, q \in Proc : run[p].pc # "idle" /\ run[q].pc # "idle" => p = q

(* Each gated node of the boundary has its request among H.                 *)
Asked(H, c) == \A n \in c.todo \cap Gate : \E r \in H : r.node = n /\ r \in c.asked

Answered(H) == \A r \in H : Answers(r) # {}

(* What a call of run() knows is still so when it acts on it.               *)
Knows(p) ==
  /\ ~run[p].stale
  /\ run[p].pc \notin {"boundary", "step", "settle"} => ~run[p].resumed
  /\ status \in Lifecycle!Resumable =>
       /\ run[p].pc \in {"snapshot", "verdicts", "claim"} => run[p].holds = holds
       /\ run[p].pc \in {"verdicts", "claim"} => run[p].todo = ckpt.todo
  /\ run[p].pc \in {"claim", "poll", "read"} => Answered(run[p].holds)
  /\ run[p].pc \in {"poll", "read", "prepare"} => run[p].todo = ckpt.todo
  /\ run[p].pc \in {"poll", "read"} => Asked(run[p].holds, ckpt)
  /\ run[p].pc = "prepare" => Asked(run[p].approved \cup run[p].rejected, ckpt)
  /\ run[p].pc \in {"consume", "open"} => Asked(run[p].approved, ckpt)
  /\ run[p].pc \in {"boundary", "step"} /\ run[p].resumed => Asked(run[p].approved, run[p].mem)
  /\ run[p].pc = "step" /\ ~run[p].resumed => run[p].mem.todo \cap Gate = {}

(* The record carries the request of each gated node a run may resume on.   *)
RowAsks == status \in Lifecycle!Resumable => Asked(holds, ckpt)

Undying == ClaimInv /\ alive = Proc /\ crashes = 0

SignedInv == Undying /\ RowAsks /\ NoUnsignedRun /\ \A p \in Proc : Knows(p)

LEMMA UndyingNext ==
  ASSUME MaxCrashes = 0, Undying, [Next]_vars
  PROVE  /\ Undying'
         /\ \A p \in Proc : ~Reclaim(p) /\ ~Crash(p) /\ ~Respawn(p)
<1>1. \A p \in Proc : ~Reclaim(p) /\ ~Crash(p) /\ ~Respawn(p)
  BY DEF Undying, Reclaim, Crash, Respawn
<1>2. ClaimInv' /\ TypeOK
  BY ClaimNext DEF Undying, ClaimInv
<1>3. alive' = alive /\ crashes' = crashes
  <2>1. ASSUME NEW p \in Proc, InternalStep(p) PROVE alive' = alive /\ crashes' = crashes
    BY <1>2, <2>1, InternalIsQuiet DEF Quiet
  <2>2. ASSUME NEW p \in Proc, Claim(p) \/ Settle(p) PROVE alive' = alive /\ crashes' = crashes
    BY <2>2 DEF Claim, Settle
  <2>3. CASE Terminate
    BY <2>3 DEF Terminate
  <2>. QED  BY <1>1, <2>1, <2>2, <2>3, StepCases, PushFrame
<1>. QED  BY <1>1, <1>2, <1>3 DEF Undying

(* The first of a set of events is one of them.                             *)
LEMMA OldestIs ==
  ASSUME NEW S \in SUBSET Nat, S # {}
  PROVE  Oldest(S) \in S
<1>1. PICK x \in S : \A y \in S : ~ (<<y, x>> \in OpToRel(<, Nat))
  BY NatLessThanWellFounded, WFMin
<1>2. \A x1, y \in Nat : y < x1 => <<y, x1>> \in OpToRel(<, Nat)
  BY DEF OpToRel
<1>3. \A y \in S : x <= y
  <2>1. \A y \in S : ~ (y < x)
    BY <1>1, <1>2
  <2>. QED  BY <2>1
<1>. QED  BY <1>3 DEF Oldest

(* A verdict stays in the queue until its turn reads it: new events come    *)
(* behind it, and a stop consumes itself alone.                             *)
LEMMA VerdictsStay ==
  ASSUME TypeOK, NEW r, Answers(r) # {},
         \/ \E event : queue' = Append(queue, event)
         \/ \E S : Use(S) /\ \A i \in S : queue[i].kind # "decision"
         \/ UNCHANGED queue
  PROVE  Answers(r)' # {}
<1>1. PICK i \in Answers(r) : TRUE
  OBVIOUS
<1>2. queue \in Seq(Event) /\ i \in DOMAIN queue /\ ~queue[i].used /\ queue[i].kind = "decision"
      /\ queue[i].request = r
  BY DEF Answers, PendingOf, Pending, TypeOK
<1>3. i \in DOMAIN queue' /\ queue'[i] = queue[i]
  <2>1. CASE \E event : queue' = Append(queue, event)
    BY <1>2, <2>1
  <2>2. CASE \E S : Use(S) /\ \A j \in S : queue[j].kind # "decision"
    BY <1>2, <2>2 DEF Use
  <2>. QED  BY <1>2, <2>1, <2>2
<1>. QED  BY <1>2, <1>3 DEF Answers, PendingOf, Pending

LEMMA AnsweredStays ==
  ASSUME TypeOK, NEW p \in Proc, run'[p].holds = run[p].holds, Answered(run[p].holds),
         \/ \E event : queue' = Append(queue, event)
         \/ \E S : Use(S) /\ \A i \in S : queue[i].kind # "decision"
         \/ UNCHANGED queue
  PROVE  Answered(run[p].holds)'
BY VerdictsStay DEF Answered

LEMMA DoneFields ==
  ASSUME NEW c \in Checkpoint, NEW N, NEW next
  PROVE  Done(c, N, next).todo = c.todo \ N /\ Done(c, N, next).asked = c.asked
BY DEF Done, Checkpoint

(* A call of run() that has begun leaves the others where they are.         *)
LEMMA OthersStay ==
  ASSUME TypeOK, NEW p \in Proc, NEW q \in Proc, p # q,
         InternalStep(q) \/ Claim(q) \/ Settle(q),
         run[p].pc = "idle" \/ run[q].pc = "idle"
  PROVE  run'[p] = run[p]
<1>1. CASE \E local : Become(q, local)
  BY <1>1 DEF Become, TypeOK
<1>2. CASE Save(q) \/ (\E why : Close(q, why))
  <2>1. CASE run[p].pc = "idle"
    BY <1>2, <2>1 DEF Save, Close, Outdated
  <2>2. CASE run[q].pc = "idle" /\ Save(q)
    BY <2>2 DEF Save
  <2>3. CASE run[q].pc = "idle" /\ \E why : Close(q, why)
    <3>1. run[q].pc \in {"boundary", "step"} \/ Save(q) \/ \E local : Become(q, local)
      BY DEF InternalStep, ReadRecord, ReadSnapshot, ReadVerdicts, LoseClaim, TakeQueuedInterrupt,
             ReadQueue, Prepare, PrepareRaises, Consume, OpenFresh, OpenRaises, OpenResumed, Boundary,
             RunTask, NodeRaises, StepCommit, SettleTerminated, SettleRaises, Claim, Settle, Return, At
    <3>. QED  BY <1>1, <2>2, <2>3, <3>1
  <2>. QED  BY <1>2, <2>1, <2>2, <2>3
<1>3. \/ Save(q) \/ (\E why : Close(q, why)) \/ (\E local : Become(q, local))
  BY DEF InternalStep, ReadRecord, ReadSnapshot, ReadVerdicts, LoseClaim, TakeQueuedInterrupt,
         ReadQueue, Prepare, PrepareRaises, Consume, OpenFresh, OpenRaises, OpenResumed, Boundary,
         RunTask, NodeRaises, StepCommit, SettleTerminated, SettleRaises, Claim, Settle, Return
<1>. QED  BY <1>1, <1>2, <1>3

(* Up to the claim: what was read is what the row says when it is claimed.  *)
LEMMA ClaimKnows ==
  ASSUME TypeOK, NEW p \in Proc, Knows(p), RowAsks,
         \/ \E input \in Inputs : ReadRecord(p, input)
         \/ ReadSnapshot(p) \/ ReadVerdicts(p) \/ LoseClaim(p) \/ Claim(p)
  PROVE  Knows(p)'
<1>0. run \in [Proc -> Local] /\ run[p] \in Local /\ ckpt' = ckpt /\ queue' = queue
  BY DEF TypeOK, ReadRecord, ReadSnapshot, ReadVerdicts, LoseClaim, Claim
<1>1. CASE run'[p] = Idle
  BY <1>1 DEF Idle, Knows
<1>2. ASSUME NEW input \in Inputs, ReadRecord(p, input) PROVE Knows(p)'
  <2>1. run'[p] = [Idle EXCEPT !.pc = "snapshot", !.input = input, !.holds = holds]
    BY <1>0, <1>2, BecomePc DEF ReadRecord
  <2>2. /\ run'[p].pc = "snapshot" /\ run'[p].holds = holds /\ ~run'[p].stale /\ ~run'[p].resumed
        /\ holds' = holds
    BY <1>2, <2>1 DEF Idle, ReadRecord, rowVars
  <2>. QED  BY <2>2 DEF Knows
<1>3. CASE ReadSnapshot(p)
  <2>1. CASE Return(p)
    BY <1>0, <1>1, <2>1, BecomePc DEF Return
  <2>2. CASE ~Return(p)
    <3>1. run'[p] = [run[p] EXCEPT !.pc = "verdicts", !.todo = ckpt.todo,
                                   !.tasks = ckpt.todo \cup ckpt.filed, !.stale = FALSE]
      BY <1>0, <1>3, <2>2, BecomePc DEF ReadSnapshot
    <3>2. /\ run'[p].pc = "verdicts" /\ run'[p].todo = ckpt.todo /\ ~run'[p].stale
          /\ run'[p].holds = run[p].holds /\ run'[p].resumed = run[p].resumed
      BY <1>0, <3>1 DEF Local
    <3>3. run[p].pc = "snapshot" /\ status' = status /\ holds' = holds
      BY <1>3 DEF ReadSnapshot, At, rowVars
    <3>. QED  BY <1>0, <3>2, <3>3 DEF Knows
  <2>. QED  BY <2>1, <2>2
<1>4. CASE ReadVerdicts(p)
  <2>1. CASE Return(p)
    BY <1>0, <1>1, <2>1, BecomePc DEF Return
  <2>2. CASE ~Return(p)
    <3>1. run'[p] = [run[p] EXCEPT !.pc = "claim"] /\ ~(\E r \in run[p].holds : Answers(r) = {})
      BY <1>0, <1>4, <2>2, BecomePc DEF ReadVerdicts
    <3>2. /\ run'[p].pc = "claim" /\ run'[p].todo = run[p].todo /\ run'[p].stale = run[p].stale
          /\ run'[p].holds = run[p].holds /\ run'[p].resumed = run[p].resumed
      BY <1>0, <3>1 DEF Local
    <3>3. run[p].pc = "verdicts" /\ status' = status /\ holds' = holds
      BY <1>4 DEF ReadVerdicts, At, rowVars
    <3>4. Answered(run[p].holds)
      BY <3>1 DEF Answered
    <3>5. Answered(run[p].holds)'
      BY <1>0, <3>2, <3>4, AnsweredStays
    <3>. QED  BY <1>0, <3>2, <3>3, <3>5 DEF Knows
  <2>. QED  BY <2>1, <2>2
<1>5. CASE LoseClaim(p)
  BY <1>0, <1>1, <1>5, BecomePc DEF LoseClaim, Return
<1>6. CASE Claim(p)
  <2>1. run'[p] = [run[p] EXCEPT !.pc = "poll"]
    BY <1>0, <1>6, BecomePc DEF Claim
  <2>2. /\ run'[p].pc = "poll" /\ run'[p].todo = run[p].todo /\ run'[p].stale = run[p].stale
        /\ run'[p].holds = run[p].holds /\ run'[p].resumed = run[p].resumed
    BY <1>0, <2>1 DEF Local
  <2>3. run[p].pc = "claim" /\ status \in Lifecycle!Resumable /\ status' = "running"
    BY <1>6 DEF Claim, At
  <2>4. /\ run[p].holds = holds /\ run[p].todo = ckpt.todo /\ Answered(run[p].holds)
        /\ Asked(run[p].holds, ckpt)
    BY <2>3 DEF Knows, RowAsks
  <2>5. Answered(run[p].holds)'
    BY <1>0, <2>2, <2>4, AnsweredStays
  <2>6. status' \notin Lifecycle!Resumable
    BY <2>3 DEF Lifecycle!Resumable, Lifecycle!Allowed, Lifecycle!Status
  <2>. QED  BY <1>0, <2>2, <2>3, <2>4, <2>5, <2>6 DEF Knows, Asked
<1>. QED  BY <1>2, <1>3, <1>4, <1>5, <1>6

(* While somebody drives the row is not to be claimed.                      *)
LEMMA DrivenIsClaimed ==
  ASSUME ClaimInv, NEW p \in Proc, Driving(p)
  PROVE  status \notin Lifecycle!Resumable
BY DEF ClaimInv, DriverHoldsClaim, Lifecycle!Resumable, Lifecycle!Allowed, Lifecycle!Status

(* A pending stop ends the turn before it reads anything.                   *)
LEMMA StopIsNoVerdict ==
  ASSUME TypeOK, PendingOf("interrupt") # {}
  PROVE  \A i \in {Oldest(PendingOf("interrupt"))} : queue[i].kind = "interrupt"
<1>1. PendingOf("interrupt") \in SUBSET Nat
  BY DEF PendingOf, Pending, TypeOK
<1>2. Oldest(PendingOf("interrupt")) \in PendingOf("interrupt")
  BY <1>1, OldestIs
<1>. QED  BY <1>2 DEF PendingOf

(* Filing a rejection takes its node off the boundary.                      *)
LEMMA FiledIs ==
  ASSUME TypeOK, NEW p \in Proc, NEW F, ~run[p].stale, File(p, F)
  PROVE  ckpt'.todo \subseteq ckpt.todo \ F /\ ckpt'.asked = ckpt.asked
<1>1. PICK next : ckpt' = Done(ckpt, F \cap ckpt.todo, next)
  BY DEF File
<1>2. ckpt'.todo = ckpt.todo \ (F \cap ckpt.todo) /\ ckpt'.asked = ckpt.asked
  BY <1>1, DoneFields DEF TypeOK
<1>. QED  BY <1>2

(* From the claim to the stream: every gated node the turn can resume on    *)
(* has been approved, or filed as rejected.                                 *)
LEMMA OpeningKnows ==
  ASSUME ClaimInv, NEW p \in Proc, Knows(p),
         \/ TakeQueuedInterrupt(p) \/ ReadQueue(p) \/ Prepare(p) \/ PrepareRaises(p)
         \/ Consume(p) \/ OpenFresh(p) \/ OpenRaises(p) \/ OpenResumed(p)
  PROVE  Knows(p)'
<1>0. TypeOK /\ run \in [Proc -> Local] /\ run[p] \in Local
  BY DEF ClaimInv, TypeOK
<1>1. status' \notin Lifecycle!Resumable /\ status' = status
  <2>1. Driving(p) /\ status' = status
    BY DEF TakeQueuedInterrupt, ReadQueue, Prepare, PrepareRaises, Consume, OpenFresh, OpenRaises,
           OpenResumed, At, Driving, DrivingSteps, rowVars
  <2>. QED  BY <2>1, DrivenIsClaimed
<1>2. ASSUME run'[p].pc = "settle", run'[p].stale = run[p].stale PROVE Knows(p)'
  BY <1>1, <1>2 DEF Knows
<1>3. CASE TakeQueuedInterrupt(p)
  <2>1. CASE PendingOf("interrupt") # {}
    <3>1. run'[p] = [run[p] EXCEPT !.pc = "settle", !.interrupted = TRUE]
      BY <1>0, <1>3, <2>1, BecomePc DEF TakeQueuedInterrupt
    <3>. QED  BY <1>0, <1>2, <3>1 DEF Local
  <2>2. CASE PendingOf("interrupt") = {}
    <3>1. run'[p] = [run[p] EXCEPT !.pc = "read"] /\ queue' = queue /\ ckpt' = ckpt /\ run[p].pc = "poll"
      BY <1>0, <1>3, <2>2, BecomePc DEF TakeQueuedInterrupt, At
    <3>2. /\ run'[p].pc = "read" /\ run'[p].todo = run[p].todo /\ run'[p].stale = run[p].stale
          /\ run'[p].holds = run[p].holds /\ run'[p].resumed = run[p].resumed
      BY <1>0, <3>1 DEF Local
    <3>3. Answered(run[p].holds)'
      BY <1>0, <3>1, <3>2, AnsweredStays DEF Knows
    <3>. QED  BY <1>1, <3>1, <3>2, <3>3 DEF Knows, Asked
  <2>. QED  BY <2>1, <2>2
<1>4. CASE ReadQueue(p)
  <2>. DEFINE yes == {r \in run[p].holds : Approves(r)}
              no  == {r \in run[p].holds : Rejects(r)}
  <2>1. run'[p] = [run[p] EXCEPT !.pc = "prepare",
                                 !.queued = PendingOf("message") \cup PendingOf("decision"),
                                 !.approved = yes, !.rejected = no]
    BY <1>0, <1>4, BecomePc DEF ReadQueue
  <2>2. /\ run[p].pc = "read" /\ ckpt' = ckpt
        /\ Answered(run[p].holds) /\ Asked(run[p].holds, ckpt) /\ run[p].todo = ckpt.todo
    BY <1>4 DEF ReadQueue, At, Knows
  <2>3. yes \cup no = run[p].holds
    BY <2>2 DEF Answered, Approves, Rejects
  <2>. HIDE DEF yes, no
  <2>4. /\ run'[p].pc = "prepare" /\ run'[p].todo = run[p].todo /\ run'[p].stale = run[p].stale
        /\ run'[p].approved = yes /\ run'[p].rejected = no /\ run'[p].resumed = run[p].resumed
    BY <1>0, <2>1 DEF Local
  <2>. QED  BY <1>1, <2>2, <2>3, <2>4 DEF Knows, Asked
<1>5. CASE Prepare(p)
  <2>1. run'[p] = [run[p] EXCEPT !.pc = "consume"]
    BY <1>0, <1>5, BecomePc DEF Prepare
  <2>2. /\ run'[p].pc = "consume" /\ run'[p].stale = run[p].stale
        /\ run'[p].approved = run[p].approved /\ run'[p].resumed = run[p].resumed
    BY <1>0, <2>1 DEF Local
  <2>3. /\ run[p].pc = "prepare" /\ ~run[p].stale /\ run[p].todo = ckpt.todo
        /\ Asked(run[p].approved \cup run[p].rejected, ckpt) /\ File(p, RejectedNodes(p))
    BY <1>5 DEF Prepare, At, Knows
  <2>4. ckpt'.todo \subseteq ckpt.todo \ RejectedNodes(p) /\ ckpt'.asked = ckpt.asked
    BY <1>0, <2>3, FiledIs
  <2>5. ASSUME NEW n \in ckpt'.todo \cap Gate
        PROVE  \E r \in run[p].approved : r.node = n /\ r \in ckpt'.asked
    <3>1. n \in ckpt.todo \cap Gate /\ n \notin RejectedNodes(p) /\ Resuming(p)
      BY <2>3, <2>4, <2>5 DEF Resuming
    <3>2. PICK r \in run[p].approved \cup run[p].rejected : r.node = n /\ r \in ckpt.asked
      BY <2>3, <3>1 DEF Asked
    <3>3. r \notin run[p].rejected
      BY <3>1, <3>2 DEF RejectedNodes, NodesOf
    <3>. QED  BY <2>4, <3>2, <3>3
  <2>. QED  BY <1>1, <2>2, <2>3, <2>5 DEF Knows, Asked
<1>6. CASE PrepareRaises(p) \/ OpenRaises(p)
  <2>1. run'[p] = [run[p] EXCEPT !.pc = "settle", !.error = TRUE]
    BY <1>0, <1>6, BecomePc DEF PrepareRaises, OpenRaises
  <2>. QED  BY <1>0, <1>2, <2>1 DEF Local
<1>7. CASE Consume(p)
  <2>1. run'[p] = [run[p] EXCEPT !.pc = "open"] /\ ckpt' = ckpt /\ run[p].pc = "consume"
    BY <1>0, <1>7, BecomePc DEF Consume, At
  <2>2. /\ run'[p].pc = "open" /\ run'[p].stale = run[p].stale
        /\ run'[p].approved = run[p].approved /\ run'[p].resumed = run[p].resumed
    BY <1>0, <2>1 DEF Local
  <2>. QED  BY <1>1, <2>1, <2>2 DEF Knows, Asked
<1>8. CASE OpenFresh(p)
  <2>1. PICK first : run'[p] = [run[p] EXCEPT !.pc = "boundary", !.mem = Boundary0(first), !.moved = TRUE]
    BY <1>0, <1>8, BecomePc DEF OpenFresh
  <2>2. run'[p].pc = "boundary" /\ run'[p].stale = run[p].stale /\ run'[p].resumed = run[p].resumed
    BY <1>0, <2>1 DEF Local
  <2>3. ~run[p].resumed
    BY <1>8 DEF OpenFresh, At, Knows
  <2>. QED  BY <1>1, <2>2, <2>3 DEF Knows
<1>9. CASE OpenResumed(p)
  <2>1. /\ run'[p] = [run[p] EXCEPT !.pc = "boundary", !.mem = ckpt, !.resumed = TRUE]
        /\ run[p].pc = "open"
    BY <1>0, <1>9, BecomePc DEF OpenResumed, At
  <2>2. /\ run'[p].pc = "boundary" /\ run'[p].stale = run[p].stale /\ run'[p].resumed
        /\ run'[p].mem = ckpt /\ run'[p].approved = run[p].approved
    BY <1>0, <2>1 DEF Local
  <2>3. Asked(run[p].approved, ckpt)
    BY <2>1 DEF Knows
  <2>. QED  BY <1>1, <2>2, <2>3 DEF Knows, Asked
<1>. QED  BY <1>3, <1>4, <1>5, <1>6, <1>7, <1>8, <1>9

(* A superstep: a gated node runs on the boundary the turn resumed on, and  *)
(* on no other.                                                             *)
LEMMA StreamKnows ==
  ASSUME ClaimInv, NEW p \in Proc, Knows(p), NoUnsignedRun,
         \/ Boundary(p) \/ (\E n \in Node : RunTask(p, n)) \/ NodeRaises(p) \/ StepCommit(p) \/ Save(p)
  PROVE  Knows(p)' /\ NoUnsignedRun'
<1>0. TypeOK /\ run \in [Proc -> Local] /\ run[p] \in Local /\ run[p].mem \in Checkpoint
  BY DEF ClaimInv, TypeOK, Local
<1>1. status' \notin Lifecycle!Resumable /\ run[p].pc \in {"boundary", "step"} /\ ~run[p].stale
  <2>1. /\ Driving(p) /\ run[p].pc \in {"boundary", "step"} /\ status' = status
    BY DEF Boundary, RunTask, NodeRaises, StepCommit, Save, At, Driving, DrivingSteps, rowVars
  <2>. QED  BY <2>1, DrivenIsClaimed DEF Knows
<1>2. ASSUME NEW why, Close(p, why) PROVE Knows(p)'
  <2>1. run'[p] = [run[p] EXCEPT !.pc = "settle", !.interrupted = (why = "interrupt"),
                                 !.error = (why = "error")]
    BY <1>2 DEF Close
  <2>2. run'[p].pc = "settle" /\ run'[p].stale = run[p].stale
    BY <1>0, <2>1 DEF Local
  <2>. QED  BY <1>1, <2>2 DEF Knows
<1>3. CASE Boundary(p)
  <2>1. NoUnsignedRun'
    BY <1>3 DEF Boundary, ghosts, NoUnsignedRun
  <2>2. CASE \E why : Close(p, why)
    BY <1>2, <2>1, <2>2
  <2>3. CASE ~(\E why : Close(p, why))
    <3>1. /\ run'[p] = [run[p] EXCEPT !.pc = "step"] /\ run[p].pc = "boundary"
          /\ run[p].resumed \/ run[p].mem.todo \cap Gate = {}
      BY <1>0, <1>3, <2>3, BecomePc DEF Boundary, At
    <3>2. /\ run'[p].pc = "step" /\ run'[p].stale = run[p].stale /\ run'[p].resumed = run[p].resumed
          /\ run'[p].mem = run[p].mem /\ run'[p].approved = run[p].approved
      BY <1>0, <3>1 DEF Local
    <3>. QED  BY <1>1, <2>1, <3>1, <3>2 DEF Knows, Asked
  <2>. QED  BY <2>2, <2>3
<1>4. ASSUME NEW n \in Node, RunTask(p, n) PROVE Knows(p)' /\ NoUnsignedRun'
  <2>1. PICK next : run'[p] = [run[p] EXCEPT !.mem = Done(run[p].mem, {n}, next)]
    BY <1>0, <1>4, BecomePc DEF RunTask
  <2>2. /\ run'[p].pc = run[p].pc /\ run'[p].stale = run[p].stale /\ run'[p].resumed = run[p].resumed
        /\ run'[p].mem = Done(run[p].mem, {n}, next) /\ run'[p].approved = run[p].approved
    BY <1>0, <2>1 DEF Local
  <2>3. run'[p].mem.todo = run[p].mem.todo \ {n} /\ run'[p].mem.asked = run[p].mem.asked
    BY <1>0, <2>2, DoneFields
  <2>4. run[p].pc = "step" /\ n \in run[p].mem.todo
    BY <1>4 DEF RunTask, At
  <2>5. n \in Gate => Signed(p, n)
    BY <2>4 DEF Knows, Asked, Signed
  <2>6. NoUnsignedRun'
    BY <1>4, <2>5 DEF RunTask, NoUnsignedRun
  <2>. QED  BY <1>1, <2>2, <2>3, <2>4, <2>6 DEF Knows, Asked
<1>5. CASE NodeRaises(p)
  BY <1>2, <1>5 DEF NodeRaises, ghosts, NoUnsignedRun
<1>6. CASE StepCommit(p)
  <2>1. run'[p] = [run[p] EXCEPT !.pc = "boundary", !.resumed = FALSE, !.moved = TRUE,
                                 !.mem = Boundary0(run[p].mem.due)]
    BY <1>0, <1>6, BecomePc DEF StepCommit
  <2>2. run'[p].pc = "boundary" /\ run'[p].stale = run[p].stale /\ run'[p].resumed = FALSE
    BY <1>0, <2>1 DEF Local
  <2>. QED  BY <1>1, <1>6, <2>2 DEF Knows, StepCommit, ghosts, NoUnsignedRun
<1>7. CASE Save(p)
  <2>1. run'[p] = [run[p] EXCEPT !.moved = FALSE]
    BY <1>7 DEF Save
  <2>2. /\ run'[p].pc = run[p].pc /\ run'[p].stale = run[p].stale /\ run'[p].resumed = run[p].resumed
        /\ run'[p].mem = run[p].mem /\ run'[p].approved = run[p].approved
    BY <1>0, <2>1 DEF Local
  <2>. QED  BY <1>1, <1>7, <2>2 DEF Knows, Asked, Save, ghosts, NoUnsignedRun
<1>. QED  BY <1>3, <1>4, <1>5, <1>6, <1>7

(* Every gated node of the boundary a turn leaves gets a request there.     *)
LEMMA RowAsksNext ==
  ASSUME MaxCrashes = 0, Undying, RowAsks, [Next]_vars
  PROVE  RowAsks'
<1>0. ClaimInv /\ TypeOK
  BY DEF Undying, ClaimInv
<1>1. ASSUME NEW p \in Proc, InternalStep(p) PROVE RowAsks'
  <2>1. Quiet(p)
    BY <1>0, <1>1, InternalIsQuiet
  <2>2. CASE Driving(p)
    BY <1>0, <2>1, <2>2, DrivenIsClaimed DEF Quiet, RowAsks
  <2>3. CASE ~Driving(p)
    BY <2>1, <2>3 DEF Quiet, RowAsks, Asked
  <2>. QED  BY <2>2, <2>3
<1>2. CASE (\E p \in Proc : Claim(p)) \/ Terminate
  BY <1>2 DEF Claim, Terminate, RowAsks, Lifecycle!Resumable, Lifecycle!Allowed, Lifecycle!Status
<1>3. ASSUME NEW p \in Proc, Settle(p) PROVE RowAsks'
  <2>1. ckpt'.todo = ckpt.todo /\ ckpt'.asked = NewHolds /\ holds' = NewHolds
    BY <1>0, <1>3 DEF Settle, TypeOK, Checkpoint
  <2>2. \A n \in ckpt.todo \cap Gate : [turn |-> turns + 1, node |-> n] \in NewHolds
    BY DEF NewHolds, Held
  <2>3. \A n \in ckpt.todo \cap Gate : \E r \in NewHolds : r.node = n /\ r \in NewHolds
    BY <2>2
  <2>. QED  BY <2>1, <2>3 DEF RowAsks, Asked
<1>4. CASE UNCHANGED <<status, runner, holds, alive, crashes, run, ckpt>>
  BY <1>4 DEF RowAsks, Asked
<1>. QED  BY <1>1, <1>2, <1>3, <1>4, UndyingNext, StepCases, PushFrame

LEMMA SignedNext ==
  ASSUME MaxCrashes = 0, SignedInv, Serial, [Next]_vars
  PROVE  SignedInv'
<1>0. Undying /\ ClaimInv /\ TypeOK /\ run \in [Proc -> Local] /\ RowAsks /\ NoUnsignedRun
  BY DEF SignedInv, Undying, ClaimInv, TypeOK
<1>1. Undying' /\ RowAsks'
  BY <1>0, UndyingNext, RowAsksNext
<1>2. ASSUME NEW p \in Proc, InternalStep(p) \/ Claim(p) \/ Settle(p)
      PROVE  Knows(p)' /\ NoUnsignedRun'
  <2>1. Knows(p)
    BY DEF SignedInv
  <2>2. CASE \/ Boundary(p) \/ (\E n \in Node : RunTask(p, n)) \/ NodeRaises(p) \/ StepCommit(p) \/ Save(p)
    BY <1>0, <2>1, <2>2, StreamKnows
  <2>3. CASE \/ TakeQueuedInterrupt(p) \/ ReadQueue(p) \/ Prepare(p) \/ PrepareRaises(p)
             \/ Consume(p) \/ OpenFresh(p) \/ OpenRaises(p) \/ OpenResumed(p)
    <3>1. unsigned' = unsigned
      BY <2>3 DEF TakeQueuedInterrupt, ReadQueue, Prepare, PrepareRaises, Consume, OpenFresh, OpenRaises,
                  OpenResumed, ghosts
    <3>. QED  BY <1>0, <2>1, <2>3, <3>1, OpeningKnows DEF NoUnsignedRun
  <2>4. CASE \/ \E input \in Inputs : ReadRecord(p, input)
             \/ ReadSnapshot(p) \/ ReadVerdicts(p) \/ LoseClaim(p) \/ Claim(p)
    <3>1. unsigned' = unsigned
      BY <2>4 DEF ReadRecord, ReadSnapshot, ReadVerdicts, LoseClaim, Claim, ghosts
    <3>. QED  BY <1>0, <2>1, <2>4, <3>1, ClaimKnows DEF NoUnsignedRun
  <2>5. CASE Settle(p) \/ SettleTerminated(p) \/ SettleRaises(p)
    <3>1. run'[p] = Idle /\ unsigned' = unsigned
      BY <1>0, <2>5, BecomePc DEF Settle, SettleTerminated, SettleRaises, Return, ghosts
    <3>. QED  BY <1>0, <3>1 DEF Knows, Idle, NoUnsignedRun
  <2>. QED  BY <1>2, <2>2, <2>3, <2>4, <2>5 DEF InternalStep
<1>3. ASSUME NEW p \in Proc, NEW q \in Proc, p # q, InternalStep(q) \/ Claim(q) \/ Settle(q)
      PROVE  Knows(p)'
  <2>1. Knows(p) /\ (run[p].pc = "idle" \/ run[q].pc = "idle")
    BY <1>3 DEF SignedInv, Serial
  <2>2. run'[p] = run[p]
    BY <1>0, <1>3, <2>1, OthersStay
  <2>3. CASE run[p].pc = "idle"
    BY <2>1, <2>2, <2>3 DEF Knows
  <2>4. CASE run[q].pc = "idle"
    <3>1. CASE \E input \in Inputs : ReadRecord(q, input)
      <4>1. /\ status' = status /\ holds' = holds /\ ckpt' = ckpt /\ queue' = queue
        BY <3>1 DEF ReadRecord, rowVars
      <4>2. Answered(run[p].holds) => Answered(run[p].holds)'
        BY <1>0, <2>2, <4>1, AnsweredStays
      <4>. QED  BY <2>1, <2>2, <4>1, <4>2 DEF Knows, Asked
    <3>2. CASE ~(\E input \in Inputs : ReadRecord(q, input))
      BY <1>3, <2>4, <3>2
      DEF InternalStep, ReadSnapshot, ReadVerdicts, LoseClaim, TakeQueuedInterrupt,
          ReadQueue, Prepare, PrepareRaises, Consume, OpenFresh, OpenRaises, OpenResumed, Boundary,
          RunTask, NodeRaises, StepCommit, SettleTerminated, SettleRaises, Save, Claim, Settle, At
    <3>. QED  BY <3>1, <3>2
  <2>. QED  BY <2>1, <2>3, <2>4
<1>4. ASSUME NEW p \in Proc, NEW q \in Proc, InternalStep(q) \/ Claim(q) \/ Settle(q)
      PROVE  Knows(p)'
  BY <1>2, <1>3, <1>4
<1>5. CASE Terminate
  <2>1. /\ status' \notin Lifecycle!Resumable /\ run' = run /\ ckpt' = ckpt /\ queue' = queue
        /\ unsigned' = unsigned
    BY <1>5 DEF Terminate, ghosts, Lifecycle!Resumable, Lifecycle!Allowed, Lifecycle!Status
  <2>2. ASSUME NEW p \in Proc PROVE Knows(p)'
    <3>1. Knows(p)
      BY DEF SignedInv
    <3>2. Answered(run[p].holds) => Answered(run[p].holds)'
      BY <1>0, <2>1, AnsweredStays
    <3>. QED  BY <2>1, <3>1, <3>2 DEF Knows, Asked
  <2>. QED  BY <1>0, <1>1, <2>1, <2>2 DEF SignedInv, NoUnsignedRun
<1>6. CASE \/ Send \/ Interrupt
           \/ \E r \in [turn : 1..turns, node : Gate], verdict \in BOOLEAN : Decide(r, verdict)
           \/ UNCHANGED vars
  <2>1. UNCHANGED <<status, runner, holds, alive, crashes, run, ckpt>> /\ unsigned' = unsigned
    BY <1>6, PushFrame DEF Send, Interrupt, Decide, Push, vars, ghosts
  <2>2. (\E event : queue' = Append(queue, event)) \/ UNCHANGED queue
    BY <1>6 DEF Send, Interrupt, Decide, Push, vars
  <2>3. ASSUME NEW p \in Proc PROVE Knows(p)'
    <3>1. Knows(p)
      BY DEF SignedInv
    <3>2. Answered(run[p].holds) => Answered(run[p].holds)'
      BY <1>0, <2>1, <2>2, AnsweredStays
    <3>. QED  BY <2>1, <3>1, <3>2 DEF Knows, Asked
  <2>. QED  BY <1>0, <1>1, <2>1, <2>3 DEF SignedInv, NoUnsignedRun
<1>7. ASSUME NEW q \in Proc, InternalStep(q) \/ Claim(q) \/ Settle(q) PROVE SignedInv'
  BY <1>1, <1>2, <1>4, <1>7 DEF SignedInv
<1>. QED  BY <1>0, <1>5, <1>6, <1>7, UndyingNext, StepCases

LEMMA SignedInit == Init => SignedInv
<1>. SUFFICES ASSUME Init PROVE SignedInv
  OBVIOUS
<1>1. Undying /\ NoUnsignedRun
  BY ClaimInit DEF Init, Undying, NoUnsignedRun
<1>2. RowAsks
  BY DEF Init, RowAsks, Asked, Boundary0
<1>3. \A p \in Proc : Knows(p)
  BY DEF Init, Knows, Idle
<1>. QED  BY <1>1, <1>2, <1>3 DEF SignedInv

(* Where no two calls of run() overlap and none is killed, a gated node     *)
(* runs only on the boundary its request was recorded for, and only on a    *)
(* yes to that request: for any graph, however turns end and whoever        *)
(* answers, interrupts or terminates when.                                  *)
THEOREM NothingRunsUnsigned ==
  ASSUME MaxCrashes = 0
  PROVE  Spec /\ []Serial => []NoUnsignedRun
<1>1. Init => SignedInv
  BY SignedInit
<1>2. SignedInv /\ Serial /\ [Next]_vars => SignedInv'
  BY SignedNext
<1>3. SignedInv => NoUnsignedRun
  BY DEF SignedInv
<1>. QED  BY <1>1, <1>2, <1>3, PTL DEF Spec

(***************************************************************************)
(* No message is lost, as long as no process dies.                         *)
(***************************************************************************)
DeliveredInv == Undying /\ ConsumedIsDelivered /\ \A p \in Proc : run[p].input # "bad"

(* What used means for the messages.                                        *)
LEMMA UseFrame ==
  ASSUME TypeOK, NEW S, Use(S)
  PROVE  /\ DOMAIN queue' = DOMAIN queue
         /\ \A i \in DOMAIN queue : /\ queue'[i].kind = queue[i].kind
                                    /\ i \notin S => queue'[i] = queue[i]
<1>1. \A i \in DOMAIN queue : queue[i] \in Event
  BY DEF TypeOK
<1>2. ASSUME NEW i \in DOMAIN queue PROVE [queue[i] EXCEPT !.used = TRUE].kind = queue[i].kind
  BY <1>1 DEF Event
<1>. QED  BY <1>2 DEF Use

(* The others' calls keep their input and what they read from the queue.    *)
LEMMA OthersKeep ==
  ASSUME TypeOK, NEW p \in Proc, NEW q \in Proc, p # q, InternalStep(q) \/ Claim(q) \/ Settle(q)
  PROVE  run'[p].pc = run[p].pc /\ run'[p].queued = run[p].queued /\ run'[p].input = run[p].input
<1>1. CASE \E local : Become(q, local)
  BY <1>1 DEF Become, TypeOK
<1>2. CASE Save(q) \/ (\E why : Close(q, why))
  <2>1. run'[p] = Outdated(q, p)
    BY <1>2 DEF Save, Close
  <2>. QED  BY <2>1 DEF Outdated, TypeOK, Local
<1>3. \/ Save(q) \/ (\E why : Close(q, why)) \/ (\E local : Become(q, local))
  BY DEF InternalStep, ReadRecord, ReadSnapshot, ReadVerdicts, LoseClaim, TakeQueuedInterrupt,
         ReadQueue, Prepare, PrepareRaises, Consume, OpenFresh, OpenRaises, OpenResumed, Boundary,
         RunTask, NodeRaises, StepCommit, SettleTerminated, SettleRaises, Claim, Settle, Return
<1>. QED  BY <1>1, <1>2, <1>3

LEMMA InputStays ==
  ASSUME TypeOK, NEW p \in Proc, InternalStep(p) \/ Claim(p) \/ Settle(p)
  PROVE  run'[p].input \in {run[p].input, "none"} \cup Inputs
<1>0. run \in [Proc -> Local] /\ run[p] \in Local
  BY DEF TypeOK
<1>1. CASE Return(p)
  BY <1>0, <1>1, BecomePc DEF Return, Idle
<1>2. ASSUME NEW input \in Inputs, ReadRecord(p, input) PROVE run'[p].input \in Inputs
  <2>1. run'[p] = [Idle EXCEPT !.pc = "snapshot", !.input = input, !.holds = holds]
    BY <1>0, <1>2, BecomePc DEF ReadRecord
  <2>. QED  BY <2>1 DEF Idle
<1>3. ASSUME NEW local, Become(p, local), local.input = run[p].input
      PROVE  run'[p].input = run[p].input
  BY <1>0, <1>3, BecomePc
<1>4. CASE ReadSnapshot(p) \/ ReadVerdicts(p) \/ LoseClaim(p) \/ Claim(p)
  <2>1. \/ Return(p)
        \/ Become(p, [run[p] EXCEPT !.pc = "verdicts", !.todo = ckpt.todo,
                                    !.tasks = ckpt.todo \cup ckpt.filed, !.stale = FALSE])
        \/ Become(p, [run[p] EXCEPT !.pc = "claim"])
        \/ Become(p, [run[p] EXCEPT !.pc = "poll"])
    BY <1>4 DEF ReadSnapshot, ReadVerdicts, LoseClaim, Claim
  <2>2. /\ [run[p] EXCEPT !.pc = "verdicts", !.todo = ckpt.todo,
                          !.tasks = ckpt.todo \cup ckpt.filed, !.stale = FALSE].input = run[p].input
        /\ [run[p] EXCEPT !.pc = "claim"].input = run[p].input
        /\ [run[p] EXCEPT !.pc = "poll"].input = run[p].input
    BY <1>0 DEF Local
  <2>. QED  BY <1>1, <1>3, <2>1, <2>2
<1>5. CASE \/ TakeQueuedInterrupt(p) \/ Prepare(p) \/ PrepareRaises(p) \/ Consume(p)
           \/ OpenRaises(p)
  <2>1. \/ Become(p, [run[p] EXCEPT !.pc = "settle", !.interrupted = TRUE])
        \/ Become(p, [run[p] EXCEPT !.pc = "settle", !.error = TRUE])
        \/ Become(p, [run[p] EXCEPT !.pc = "read"])
        \/ Become(p, [run[p] EXCEPT !.pc = "consume"])
        \/ Become(p, [run[p] EXCEPT !.pc = "open"])
    BY <1>5 DEF TakeQueuedInterrupt, Prepare, PrepareRaises, Consume, OpenRaises
  <2>2. /\ [run[p] EXCEPT !.pc = "settle", !.interrupted = TRUE].input = run[p].input
        /\ [run[p] EXCEPT !.pc = "settle", !.error = TRUE].input = run[p].input
        /\ [run[p] EXCEPT !.pc = "read"].input = run[p].input
        /\ [run[p] EXCEPT !.pc = "consume"].input = run[p].input
        /\ [run[p] EXCEPT !.pc = "open"].input = run[p].input
    BY <1>0 DEF Local
  <2>. QED  BY <1>3, <2>1, <2>2
<1>6. CASE ReadQueue(p)
  <2>. DEFINE yes == {r \in run[p].holds : Approves(r)}
              no  == {r \in run[p].holds : Rejects(r)}
  <2>1. run'[p] = [run[p] EXCEPT !.pc = "prepare",
                                 !.queued = PendingOf("message") \cup PendingOf("decision"),
                                 !.approved = yes, !.rejected = no]
    BY <1>0, <1>6, BecomePc DEF ReadQueue
  <2>. HIDE DEF yes, no
  <2>. QED  BY <1>0, <2>1 DEF Local
<1>7. CASE OpenFresh(p)
  <2>1. PICK first : run'[p] = [run[p] EXCEPT !.pc = "boundary", !.mem = Boundary0(first), !.moved = TRUE]
    BY <1>0, <1>7, BecomePc DEF OpenFresh
  <2>. QED  BY <1>0, <2>1 DEF Local
<1>8. CASE OpenResumed(p)
  <2>1. run'[p] = [run[p] EXCEPT !.pc = "boundary", !.mem = ckpt, !.resumed = TRUE]
    BY <1>0, <1>8, BecomePc DEF OpenResumed
  <2>. QED  BY <1>0, <2>1 DEF Local
<1>9. ASSUME NEW why, Close(p, why) PROVE run'[p].input = run[p].input
  <2>1. run'[p] = [run[p] EXCEPT !.pc = "settle", !.interrupted = (why = "interrupt"),
                                 !.error = (why = "error")]
    BY <1>9 DEF Close
  <2>. QED  BY <1>0, <2>1 DEF Local
<1>10. CASE Boundary(p) \/ NodeRaises(p)
  <2>1. (\E why : Close(p, why)) \/ Become(p, [run[p] EXCEPT !.pc = "step"])
    BY <1>10 DEF Boundary, NodeRaises
  <2>2. [run[p] EXCEPT !.pc = "step"].input = run[p].input
    BY <1>0 DEF Local
  <2>. QED  BY <1>3, <1>9, <2>1, <2>2
<1>11. ASSUME NEW n \in Node, RunTask(p, n) PROVE run'[p].input = run[p].input
  <2>1. PICK next : run'[p] = [run[p] EXCEPT !.mem = Done(run[p].mem, {n}, next)]
    BY <1>0, <1>11, BecomePc DEF RunTask
  <2>. QED  BY <1>0, <2>1 DEF Local
<1>12. CASE StepCommit(p)
  <2>1. run'[p] = [run[p] EXCEPT !.pc = "boundary", !.resumed = FALSE, !.moved = TRUE,
                                 !.mem = Boundary0(run[p].mem.due)]
    BY <1>0, <1>12, BecomePc DEF StepCommit
  <2>. QED  BY <1>0, <2>1 DEF Local
<1>13. CASE Save(p)
  <2>1. run'[p] = [run[p] EXCEPT !.moved = FALSE]
    BY <1>13 DEF Save
  <2>. QED  BY <1>0, <2>1 DEF Local
<1>14. CASE Settle(p) \/ SettleTerminated(p) \/ SettleRaises(p)
  BY <1>1, <1>14 DEF Settle, SettleTerminated, SettleRaises
<1>. QED
  BY <1>2, <1>4, <1>5, <1>6, <1>7, <1>8, <1>10, <1>11, <1>12, <1>13, <1>14 DEF InternalStep

LEMMA DeliveredNext ==
  ASSUME MaxCrashes = 0, "bad" \notin Inputs, DeliveredInv, [Next]_vars
  PROVE  DeliveredInv'
<1>0. /\ Undying /\ ClaimInv /\ TypeOK /\ run \in [Proc -> Local] /\ alive = Proc
      /\ queue \in Seq(Event) /\ ConsumedIsDelivered
  BY DEF DeliveredInv, Undying, ClaimInv, TypeOK
<1>1. Undying' /\ alive' = Proc
  BY <1>0, UndyingNext DEF Undying
<1>2. ASSUME NEW p \in Proc, InternalStep(p) \/ Claim(p) \/ Settle(p), NEW q \in Proc
      PROVE  run'[q].input # "bad"
  <2>1. run[p].input # "bad" /\ run[q].input # "bad"
    BY DEF DeliveredInv
  <2>2. CASE q = p
    BY <1>0, <1>2, <2>1, <2>2, InputStays
  <2>3. CASE q # p
    BY <1>0, <1>2, <2>1, <2>3, OthersKeep
  <2>. QED  BY <2>2, <2>3
<1>3. ASSUME NEW q \in Proc, InternalStep(q) \/ Claim(q) \/ Settle(q),
             NEW i \in DOMAIN queue, queue[i].kind = "message",
             \/ i \in delivered
             \/ \E p \in Proc : At(p, "open") /\ i \in run[p].queued
      PROVE  \/ i \in delivered'
             \/ \E p \in Proc : At(p, "open")' /\ i \in run'[p].queued
  <2>1. delivered \subseteq delivered'
    BY <1>3 DEF InternalStep, ReadRecord, ReadSnapshot, ReadVerdicts, LoseClaim, TakeQueuedInterrupt,
                ReadQueue, Prepare, PrepareRaises, Consume, OpenFresh, OpenRaises, OpenResumed, Boundary,
                RunTask, NodeRaises, StepCommit, SettleTerminated, SettleRaises, Save, Claim, Settle, ghosts
  <2>2. CASE i \in delivered
    BY <2>1, <2>2
  <2>3. ASSUME NEW p \in Proc, At(p, "open"), i \in run[p].queued, p # q
        PROVE  At(p, "open")' /\ i \in run'[p].queued
    BY <1>0, <1>1, <1>3, <2>3, OthersKeep DEF At
  <2>4. CASE At(q, "open") /\ i \in run[q].queued
    <3>1. run[q].input # "bad"
      BY DEF DeliveredInv
    <3>2. OpenFresh(q) \/ OpenResumed(q)
      BY <1>3, <2>4, <3>1
      DEF InternalStep, ReadRecord, ReadSnapshot, ReadVerdicts, LoseClaim, TakeQueuedInterrupt,
          ReadQueue, Prepare, PrepareRaises, Consume, OpenRaises, Boundary, RunTask, NodeRaises,
          StepCommit, SettleTerminated, SettleRaises, Save, Claim, Settle, At
    <3>3. i \in Delivers(q)
      BY <1>3, <2>4 DEF Delivers
    <3>. QED  BY <3>2, <3>3 DEF OpenFresh, OpenResumed
  <2>. QED  BY <1>3, <2>2, <2>3, <2>4
<1>4. ASSUME NEW q \in Proc, InternalStep(q) \/ Claim(q) \/ Settle(q) PROVE ConsumedIsDelivered'
  <2>1. /\ DOMAIN queue' = DOMAIN queue
        /\ \A i \in DOMAIN queue : queue'[i].kind = queue[i].kind
        /\ \A i \in DOMAIN queue :
             \/ queue'[i] = queue[i] \/ queue[i].kind # "message"
             \/ Consume(q) /\ i \in run[q].queued
    <3>1. CASE UNCHANGED queue
      BY <3>1
    <3>2. CASE Consume(q)
      BY <1>0, <3>2, UseFrame DEF Consume
    <3>3. CASE PendingOf("interrupt") # {} /\ Use({Oldest(PendingOf("interrupt"))})
      <4>. DEFINE S == {Oldest(PendingOf("interrupt"))}
      <4>1. (\A i \in S : queue[i].kind = "interrupt") /\ Use(S)
        BY <1>0, <3>3, StopIsNoVerdict
      <4>. HIDE DEF S
      <4>. QED  BY <1>0, <4>1, UseFrame
    <3>. QED  BY <1>4, <3>1, <3>2, <3>3
      DEF InternalStep, ReadRecord, ReadSnapshot, ReadVerdicts, LoseClaim, TakeQueuedInterrupt,
          ReadQueue, Prepare, PrepareRaises, OpenFresh, OpenRaises, OpenResumed, Boundary,
          RunTask, NodeRaises, StepCommit, SettleTerminated, SettleRaises, Save, Claim, Settle
  <2>2. ASSUME NEW i \in DOMAIN queue, queue'[i].used, queue'[i].kind = "message"
        PROVE  \/ i \in delivered'
               \/ \E p \in Proc : At(p, "open")' /\ i \in run'[p].queued
    <3>1. queue[i].kind = "message"
      BY <2>1, <2>2
    <3>2. CASE queue'[i] = queue[i]
      <4>1. queue[i].used
        BY <2>2, <3>2, Zenon
      <4>. QED  BY <1>0, <1>3, <1>4, <3>1, <4>1 DEF ConsumedIsDelivered
    <3>3. CASE Consume(q) /\ i \in run[q].queued
      <4>1. run'[q] = [run[q] EXCEPT !.pc = "open"]
        BY <1>0, <3>3, BecomePc DEF Consume
      <4>2. run'[q].pc = "open" /\ run'[q].queued = run[q].queued
        BY <1>0, <4>1 DEF TypeOK, Local
      <4>. QED  BY <1>1, <3>3, <4>2 DEF At
    <3>. QED  BY <2>1, <2>2, <3>1, <3>2, <3>3
  <2>. QED  BY <2>1, <2>2 DEF ConsumedIsDelivered, At
<1>5. CASE \/ Send \/ Interrupt \/ Terminate
           \/ \E r \in [turn : 1..turns, node : Gate], verdict \in BOOLEAN : Decide(r, verdict)
           \/ UNCHANGED vars
  <2>1. run' = run /\ alive' = alive /\ delivered' = delivered
    BY <1>5 DEF Send, Interrupt, Terminate, Decide, Push, vars, ghosts
  <2>2. UNCHANGED queue \/ \E event : ~event.used /\ queue' = Append(queue, event)
    BY <1>5 DEF Send, Interrupt, Terminate, Decide, Push, vars
  <2>3. \A i \in DOMAIN queue' : queue'[i].used => i \in DOMAIN queue /\ queue'[i] = queue[i]
    BY <1>0, <2>2
  <2>4. ConsumedIsDelivered'
    BY <1>0, <2>1, <2>3 DEF ConsumedIsDelivered, At
  <2>. QED  BY <1>1, <2>1, <2>4 DEF DeliveredInv
<1>. QED  BY <1>0, <1>1, <1>2, <1>4, <1>5, UndyingNext, StepCases DEF DeliveredInv

(* A message that run() took off the queue reached the graph, or is about   *)
(* to, whatever the turn does next: as long as no process dies and no input *)
(* is refused after the queue was consumed.  Any number of processes.       *)
THEOREM ConsumedIsDeliveredWithoutCrashes ==
  ASSUME MaxCrashes = 0, "bad" \notin Inputs
  PROVE  Spec => []ConsumedIsDelivered
<1>1. Init => DeliveredInv
  <2>. SUFFICES ASSUME Init PROVE DeliveredInv
    OBVIOUS
  <2>1. Undying
    BY ClaimInit DEF Init, Undying
  <2>2. ConsumedIsDelivered
    BY DEF Init, ConsumedIsDelivered
  <2>3. \A p \in Proc : run[p].input # "bad"
    BY DEF Init, Idle
  <2>. QED  BY <2>1, <2>2, <2>3 DEF DeliveredInv
<1>2. DeliveredInv /\ [Next]_vars => DeliveredInv'
  BY DeliveredNext
<1>3. DeliveredInv => ConsumedIsDelivered
  BY DEF DeliveredInv
<1>. QED  BY <1>1, <1>2, <1>3, PTL DEF Spec

(* What a human said counts: no verdict is forged and no message lost, in a *)
(* session driven from one place whose turns are not killed.                *)
THEOREM InputsAreHonouredInTurn ==
  ASSUME MaxCrashes = 0, "bad" \notin Inputs
  PROVE  Spec /\ []Serial => []InputsAreHonoured
<1>1. NoUnsignedRun /\ ConsumedIsDelivered => InputsAreHonoured
  BY DEF InputsAreHonoured
<1>. QED  BY <1>1, NothingRunsUnsigned, ConsumedIsDeliveredWithoutCrashes, PTL
=============================================================================
