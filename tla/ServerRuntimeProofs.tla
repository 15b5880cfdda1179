------------------------- MODULE ServerRuntimeProofs -------------------------
(***************************************************************************)
(* Proofs about ServerRuntime, for any sessions, nodes, workers, cursors   *)
(* and lost connections, where shutdown() waits as the app has it wait.    *)
(***************************************************************************)
EXTENDS ServerRuntime, SequenceTheorems, TLAPS

Active == {"chunk", "resume", "running", "failing", "ending"}

(***************************************************************************)
(* The inductive invariant.                                                *)
(***************************************************************************)
(* What a worker has in hand is running, and only such a session's nodes    *)
(* write; its outcome is settled before it is published.                    *)
WorkInv ==
  \A s \in Sessions :
    /\ work[s] \in Active => status[s] = "running"
    /\ work[s] # "none" => status[s] \notin {"none", "queued"}
    /\ \A n \in Nodes : node[s][n] = "written" => work[s] \in {"running", "failing"}
    /\ work[s] \in {"running", "failing"} => step[s] > 0
    /\ work[s] \in {"failing", "ending"} => outcome[s] \in Terminal

(* The pool holds sessions nobody has begun, each once; a shutdown that     *)
(* waits has emptied it.                                                    *)
PoolInv ==
  /\ \A i \in 1..Len(pool) : status[pool[i]] = "queued" /\ work[pool[i]] = "none"
  /\ \A i, j \in 1..Len(pool) : pool[i] = pool[j] => i = j
  /\ down \in {"waiting", "done"} => pool = <<>>

(* A flag raised as the graph is resumed lets the superstep begin, a flag   *)
(* seen at a chunk does not.                                                *)
StopInv ==
  \A s \in Sessions :
    interrupt[s] => step[s] <= flaggedAt[s] + (IF work[s] = "resume" THEN 0 ELSE 1)

OverInv ==
  down = "done" => \A s \in Sessions : creation[s] = "accepted" => status[s] \in Terminal

(* Between the line on disk and the call of the subscriber.                 *)
Between(s) == {<<step[s], n>> : n \in {m \in Nodes : node[s][m] = "written"}}

DiskInv == \A s \in Sessions : ToSet(disk[s]) = ToSet(events[s]) \cup Between(s)

(* A connection's frames are the events from its cursor on, what it is      *)
(* about to send are the next, and one that is about to say "done" has read *)
(* the last event there will ever be.                                       *)
Follows(c, seen, over, lost) ==
  /\ c.state # "reading" => c.page = <<>>
  /\ c.state = "off" => c.got = <<>>
  /\ c.final = TRUE => c.state \in {"reading", "done"}
  /\ c.state = "done" => c.final = TRUE
  /\ \A i \in 1..Len(c.page) : c.position + i <= Len(seen) /\ c.page[i] = seen[c.position + i]
  /\ c.final = TRUE => over /\ c.position + Len(c.page) >= Len(seen)
  /\ lost = 0 \/ c.from = 0 =>
       /\ c.position = c.from + Len(c.got)
       /\ \A i \in 1..Len(c.got) : c.from + i <= Len(seen) /\ c.got[i] = seen[c.from + i]

ClientInv == \A s \in Sessions : Follows(client[s], events[s], status[s] \in Terminal, drops)

IInv == TypeOK /\ WorkInv /\ PoolInv /\ StopInv /\ OverInv /\ DiskInv /\ ClientInv

(***************************************************************************)
(* Typing.                                                                 *)
(***************************************************************************)
TypeLife ==
  /\ closed \in BOOLEAN /\ down \in {"no", "draining", "waiting", "done"}
  /\ closed <=> down # "no"

TypeRequest ==
  /\ creation \in [Sessions -> {"none", "checked", "built", "accepted", "refused"}]
  /\ dir \in [Sessions -> BOOLEAN]
  /\ status \in [Sessions -> Terminal \cup {"none", "queued", "running"}]
  /\ \A s \in Sessions : status[s] = "none" <=> creation[s] # "accepted"

TypeWork ==
  /\ outcome \in [Sessions -> Terminal \cup {"none"}]
  /\ work \in [Sessions -> {"none", "chunk", "resume", "running", "failing", "ending", "gone"}]
  /\ step \in [Sessions -> 0..MaxSteps]
  /\ node \in [Sessions -> [Nodes -> {"ready", "written", "done"}]]

TypeMark ==
  /\ interrupt \in [Sessions -> BOOLEAN] /\ flaggedAt \in [Sessions -> 0..MaxSteps]

TypeTrace == disk \in [Sessions -> Seq(Event)] /\ events \in [Sessions -> Seq(Event)]

Client == [state : {"off", "open", "reading", "done"}, from : Nat, position : Nat,
           page : Seq(Event), final : BOOLEAN, got : Seq(Event)]

TypeClient == client \in [Sessions -> Client] /\ drops \in 0..MaxDrops

TypePool == pool \in Seq(Sessions)

LEMMA Typed ==
  TypeOK <=> /\ TypeLife /\ TypeRequest /\ TypeWork /\ TypeMark /\ TypeTrace
             /\ TypeClient /\ TypePool
BY Zenon DEF TypeOK, TypeLife, TypeRequest, TypeWork, TypeMark, TypeTrace, TypeClient, TypePool,
             Client

LEMMA TypedNext ==
  TypeLife' /\ TypeRequest' /\ TypeWork' /\ TypeMark' /\ TypeTrace' /\ TypeClient' /\ TypePool'
    => TypeOK'
BY Zenon DEF TypeOK, TypeLife, TypeRequest, TypeWork, TypeMark, TypeTrace, TypeClient, TypePool,
             Client

Serving(s) == Create(s) \/ Interrupt(s) \/ Work(s)

Streaming(s) == Stream(s) \/ Reconnect(s) \/ \E cursor \in Cursors : Connect(s, cursor)

LEMMA TwoSides ==
  ASSUME ServerAssumption, [Next]_vars
  PROVE  \/ \E s \in Sessions : Serving(s) \/ Streaming(s)
         \/ Stopping
         \/ UNCHANGED vars
BY DEF Next, Serving, Streaming, ServerAssumption

(* The server's side leaves the clients alone, and the clients its.         *)
LEMMA ServingFrame ==
  ASSUME Stopping \/ \E s \in Sessions : Serving(s)
  PROVE  UNCHANGED <<client, drops>>
BY DEF Serving, Stopping, Create, CreateCheck, CreateBuild, CreateInvalid, CreateSubmit,
       Interrupt, Work, Begin, Chunk, NextStep, GraphEnds, NodeWrites, NodePublishes, StepDone,
       NodeRaises, Joined, Finish, FinishRaises, Shutdown, CancelFutures, ShutdownEnds, Follow

LEMMA StreamingFrame ==
  ASSUME NEW s \in Sessions, Streaming(s)
  PROVE  UNCHANGED <<closed, down, creation, dir, status, interrupt, outcome, pool, work, step,
                     node, disk, events, flaggedAt>>
BY DEF Streaming, Stream, Page, Frame, PageDone, Reconnect, Connect, Life, Request, Run, Trace,
       Mark

LEMMA ServingTypes ==
  ASSUME ServerAssumption, TypeOK, WorkInv, PoolInv, NEW s \in Sessions, Serving(s)
  PROVE  TypeLife' /\ TypeRequest' /\ TypeWork' /\ TypeMark' /\ TypeTrace' /\ TypePool'
<1>0. TypeLife /\ TypeRequest /\ TypeWork /\ TypeMark /\ TypeTrace /\ TypePool
  BY Typed
<1>. USE DEF Serving, Create, CreateCheck, CreateBuild, CreateInvalid, CreateSubmit, Refuse,
         Interrupt, Work, Begin, Chunk, NextStep, GraphEnds, NodeWrites, NodePublishes, StepDone,
         NodeRaises, Joined, Finish, FinishRaises, Leave, Life, Request, Run, Trace, Mark
<1>1. TypeLife'
  <2>1. UNCHANGED Life
    OBVIOUS
  <2>. QED  BY <1>0, <2>1 DEF TypeLife
<1>2. TypeRequest'
  <2>1. CASE UNCHANGED <<creation, dir, status>>
    BY <1>0, <2>1 DEF TypeRequest
  <2>2. CASE CreateCheck(s) \/ CreateBuild(s) \/ CreateInvalid(s)
    BY <1>0, <2>2 DEF TypeRequest
  <2>3. CASE CreateSubmit(s)
    BY <1>0, <2>3 DEF TypeRequest
  <2>4. CASE Begin(s)
    <3>1. pool # <<>> /\ s = pool[1] /\ 1 \in 1..Len(pool)
      BY <1>0, <2>4 DEF TypePool
    <3>2. status[s] = "queued"
      BY <3>1 DEF PoolInv
    <3>3. UNCHANGED <<creation, dir>> /\ \E v \in {"interrupted", "running"} : status' = [status EXCEPT ![s] = v]
      BY <2>4
    <3>. QED  BY <1>0, <3>2, <3>3 DEF TypeRequest, Terminal
  <2>5. CASE Finish(s)
    <3>1. outcome[s] \in Terminal /\ status[s] = "running"
      BY <2>5 DEF WorkInv, Active
    <3>2. UNCHANGED <<creation, dir>> /\ status' = [status EXCEPT ![s] = outcome[s]]
      BY <2>5
    <3>. QED  BY <1>0, <3>1, <3>2 DEF TypeRequest, Terminal
  <2>. QED  BY <2>1, <2>2, <2>3, <2>4, <2>5
<1>3. TypeWork'
  <2>1. CASE UNCHANGED Run
    BY <1>0, <2>1 DEF TypeWork
  <2>2. CASE NextStep(s)
    BY <1>0, <2>2 DEF TypeWork, ServerAssumption
  <2>3. CASE \E n \in Nodes : NodeWrites(s, n) \/ NodePublishes(s, n)
    BY <1>0, <2>3 DEF TypeWork
  <2>4. CASE UNCHANGED <<step, node>>
    <3>1. /\ \/ work' = work
             \/ \E w \in {"chunk", "resume", "running", "failing", "ending", "gone"} :
                  work' = [work EXCEPT ![s] = w]
          /\ \/ outcome' = outcome
             \/ \E o \in Terminal : outcome' = [outcome EXCEPT ![s] = o]
      BY <2>4 DEF Terminal
    <3>2. /\ outcome \in [Sessions -> Terminal \cup {"none"}]
          /\ work \in [Sessions -> Active \cup {"none", "gone"}]
      BY <1>0 DEF TypeWork, Active
    <3>3. work' \in [Sessions -> Active \cup {"none", "gone"}]
      BY ONLY <3>1, <3>2 DEF Active
    <3>4. outcome' \in [Sessions -> Terminal \cup {"none"}]
      BY ONLY <3>1, <3>2
    <3>. QED  BY ONLY <1>0, <2>4, <3>3, <3>4 DEF TypeWork, Active
  <2>. QED  BY <2>1, <2>2, <2>3, <2>4
<1>4. TypeMark'
  <2>1. CASE UNCHANGED Mark
    BY <1>0, <2>1 DEF TypeMark
  <2>2. CASE Interrupt(s)
    BY <1>0, <2>2 DEF TypeMark, TypeWork
  <2>. QED  BY <2>1, <2>2
<1>5. TypeTrace'
  <2>1. CASE UNCHANGED Trace
    BY <1>0, <2>1 DEF TypeTrace
  <2>2. ASSUME NEW n \in Nodes, NodeWrites(s, n) \/ NodePublishes(s, n) PROVE TypeTrace'
    <3>1. work[s] \in {"running", "failing"} /\ node[s][n] \in {"ready", "written"}
      BY <2>2 DEF WorkInv
    <3>2. <<step[s], n>> \in Event
      BY <1>0, <3>1 DEF TypeWork, Event, WorkInv, ServerAssumption
    <3>. DEFINE e == <<step[s], n>>
    <3>3. \/ disk' = [disk EXCEPT ![s] = Append(disk[s], e)] /\ events' = events
          \/ events' = [events EXCEPT ![s] = Append(events[s], e)] /\ disk' = disk
      BY <2>2
    <3>4. Append(disk[s], e) \in Seq(Event) /\ Append(events[s], e) \in Seq(Event)
      BY <1>0, <3>2, AppendProperties DEF TypeTrace
    <3>. HIDE DEF e
    <3>. QED  BY ONLY <1>0, <3>3, <3>4 DEF TypeTrace
  <2>. QED  BY <2>1, <2>2
<1>6. TypePool'
  <2>1. CASE UNCHANGED pool
    BY <1>0, <2>1 DEF TypePool
  <2>2. CASE pool' = Append(pool, s)
    BY <1>0, <2>2 DEF TypePool
  <2>3. CASE pool # <<>> /\ pool' = Tail(pool)
    BY <1>0, <2>3 DEF TypePool
  <2>. QED  BY <2>1, <2>2, <2>3
<1>. QED  BY <1>1, <1>2, <1>3, <1>4, <1>5, <1>6

LEMMA StoppingTypes ==
  ASSUME ServerAssumption, TypeOK, Stopping
  PROVE  TypeLife' /\ TypeRequest' /\ TypeWork' /\ TypeMark' /\ TypeTrace' /\ TypePool'
<1>0. TypeLife /\ TypeRequest /\ TypeWork /\ TypeMark /\ TypeTrace /\ TypePool
  BY Typed
<1>. USE DEF Stopping, Shutdown, CancelFutures, ShutdownEnds, Request, Run, Trace, Mark
<1>1. TypeLife'
  BY <1>0 DEF TypeLife
<1>2. TypeRequest'
  BY <1>0 DEF TypeRequest, Terminal
<1>3. TypeWork' /\ TypeTrace'
  BY <1>0 DEF TypeWork, TypeTrace
<1>4. TypeMark'
  BY <1>0 DEF TypeMark, TypeWork
<1>5. TypePool'
  <2>1. pool' = pool \/ pool' = <<>>
    OBVIOUS
  <2>. QED  BY <1>0, <2>1, EmptySeq DEF TypePool
<1>. QED  BY <1>1, <1>2, <1>3, <1>4, <1>5

(***************************************************************************)
(* A step of one session.                                                  *)
(***************************************************************************)
LEMMA OthersUntouched ==
  ASSUME TypeOK, NEW s \in Sessions, Serving(s), NEW t \in Sessions, t # s
  PROVE  /\ status'[t] = status[t] /\ creation'[t] = creation[t]
         /\ work'[t] = work[t] /\ step'[t] = step[t] /\ node'[t] = node[t]
         /\ outcome'[t] = outcome[t]
         /\ interrupt'[t] = interrupt[t] /\ flaggedAt'[t] = flaggedAt[t]
         /\ disk'[t] = disk[t] /\ events'[t] = events[t]
<1>0. TypeRequest /\ TypeWork /\ TypeMark /\ TypeTrace
  BY Typed
<1>. USE DEF Serving, Create, CreateCheck, CreateBuild, CreateInvalid, CreateSubmit, Refuse,
         Interrupt, Work, Begin, Chunk, NextStep, GraphEnds, NodeWrites, NodePublishes, StepDone,
         NodeRaises, Joined, Finish, FinishRaises, Leave, Life, Request, Run, Trace, Mark
<1>1. status'[t] = status[t] /\ creation'[t] = creation[t]
  BY <1>0 DEF TypeRequest
<1>2. work'[t] = work[t] /\ step'[t] = step[t] /\ outcome'[t] = outcome[t]
  BY <1>0 DEF TypeWork
<1>3. node'[t] = node[t]
  BY <1>0 DEF TypeWork
<1>4. interrupt'[t] = interrupt[t] /\ flaggedAt'[t] = flaggedAt[t]
  BY <1>0 DEF TypeMark
<1>5. disk'[t] = disk[t] /\ events'[t] = events[t]
  BY <1>0 DEF TypeTrace
<1>. QED  BY <1>1, <1>2, <1>3, <1>4, <1>5

(* The session the step is about: where its worker may go, and what its     *)
(* status may become.                                                       *)
LEMMA Moves ==
  ASSUME TypeOK, WorkInv, PoolInv, NEW s \in Sessions, Serving(s)
  PROVE  \/ UNCHANGED <<status, work, step, node, outcome, disk, events, pool>>
         \/ /\ status[s] = "none" /\ status'[s] = "queued" /\ pool' = Append(pool, s) /\ ~closed
            /\ UNCHANGED <<work, step, node, outcome, disk, events>>
         \/ /\ pool # <<>> /\ s = Head(pool) /\ pool' = Tail(pool)
            /\ status[s] = "queued" /\ work[s] = "none"
            /\ \/ status'[s] = "interrupted" /\ work'[s] = "gone"
               \/ status'[s] = "running" /\ work'[s] = "chunk" /\ ~interrupt[s]
            /\ UNCHANGED <<step, node, outcome, disk, events>>
         \/ /\ work[s] = "chunk" /\ work'[s] = "resume" /\ ~interrupt[s]
            /\ UNCHANGED <<status, step, node, outcome, disk, events, pool>>
         \/ /\ work[s] \in {"chunk", "resume"} /\ work'[s] = "ending" /\ outcome'[s] \in Terminal
            /\ UNCHANGED <<status, step, node, disk, events, pool>>
         \/ /\ work[s] = "resume" /\ work'[s] = "running" /\ step'[s] = step[s] + 1
            /\ node'[s] = [n \in Nodes |-> "ready"]
            /\ UNCHANGED <<status, outcome, disk, events, pool>>
         \/ /\ work[s] \in {"running", "failing"}
            /\ \E n \in Nodes :
                 \/ /\ node[s][n] = "ready" /\ node'[s] = [node[s] EXCEPT ![n] = "written"]
                    /\ disk'[s] = Append(disk[s], <<step[s], n>>) /\ UNCHANGED events
                 \/ /\ node[s][n] = "written" /\ node'[s] = [node[s] EXCEPT ![n] = "done"]
                    /\ events'[s] = Append(events[s], <<step[s], n>>) /\ UNCHANGED disk
            /\ UNCHANGED <<status, work, step, outcome, pool>>
         \/ /\ work[s] \in {"running", "failing"}
            /\ \/ /\ work'[s] = "failing" /\ outcome'[s] = "failed"
               \/ /\ work'[s] \in {"chunk", "ending"} /\ UNCHANGED outcome
                  /\ work'[s] = "ending" => work[s] = "failing"
                  /\ \A n \in Nodes : node[s][n] # "written"
            /\ UNCHANGED <<status, step, node, disk, events, pool>>
         \/ /\ work[s] = "ending" /\ work'[s] = "gone"
            /\ status'[s] \in {outcome[s], status[s]}
            /\ UNCHANGED <<step, node, outcome, disk, events, pool>>
<1>0. TypeRequest /\ TypeWork /\ TypeTrace /\ TypePool
  BY Typed
<1>. USE DEF Life, Request, Run, Trace, Mark
<1>1. CASE CreateCheck(s) \/ CreateBuild(s) \/ CreateInvalid(s) \/ Interrupt(s)
  BY <1>1 DEF CreateCheck, CreateBuild, CreateInvalid, Interrupt
<1>2. CASE CreateSubmit(s)
  BY <1>0, <1>2 DEF CreateSubmit, TypeRequest
<1>3. CASE Begin(s)
  <2>1. s = pool[1] /\ 1 \in 1..Len(pool)
    BY <1>0, <1>3 DEF TypePool, Begin
  <2>2. status[s] = "queued" /\ work[s] = "none"
    BY <2>1 DEF PoolInv
  <2>. QED  BY <1>0, <1>3, <2>2 DEF Begin, TypeRequest, TypeWork
<1>4. CASE Chunk(s) \/ GraphEnds(s)
  BY <1>0, <1>4 DEF Chunk, GraphEnds, Leave, TypeWork, Terminal
<1>5. CASE NextStep(s)
  BY <1>0, <1>5 DEF NextStep, TypeWork
<1>6. ASSUME NEW n \in Nodes, NodeWrites(s, n) PROVE
            /\ node[s][n] = "ready" /\ node'[s] = [node[s] EXCEPT ![n] = "written"]
            /\ disk'[s] = Append(disk[s], <<step[s], n>>) /\ UNCHANGED events
            /\ work[s] \in {"running", "failing"}
            /\ UNCHANGED <<status, work, step, outcome, pool>>
  BY <1>0, <1>6 DEF NodeWrites, TypeWork, TypeTrace
<1>7. ASSUME NEW n \in Nodes, NodePublishes(s, n) PROVE
            /\ node[s][n] = "written" /\ node'[s] = [node[s] EXCEPT ![n] = "done"]
            /\ events'[s] = Append(events[s], <<step[s], n>>) /\ UNCHANGED disk
            /\ work[s] \in {"running", "failing"}
            /\ UNCHANGED <<status, work, step, outcome, pool>>
  BY <1>0, <1>7 DEF NodePublishes, TypeWork, TypeTrace, WorkInv
<1>8. CASE StepDone(s) \/ NodeRaises(s) \/ Joined(s)
  BY <1>0, <1>8 DEF StepDone, NodeRaises, Joined, TypeWork
<1>9. CASE Finish(s) \/ FinishRaises(s)
  BY <1>0, <1>9 DEF Finish, FinishRaises, TypeWork, TypeRequest
<1>. QED  BY <1>1, <1>2, <1>3, <1>4, <1>5, <1>6, <1>7, <1>8, <1>9 DEF Serving, Create, Work


LEMMA ServingWork ==
  ASSUME ServerAssumption, TypeOK, WorkInv, PoolInv, NEW s \in Sessions, Serving(s)
  PROVE  WorkInv'
<1>0. TypeWork
  BY Typed
<1>1. ASSUME NEW t \in Sessions, t # s
      PROVE  /\ work'[t] \in Active => status'[t] = "running"
             /\ work'[t] # "none" => status'[t] \notin {"none", "queued"}
             /\ \A n \in Nodes : node'[t][n] = "written" => work'[t] \in {"running", "failing"}
             /\ work'[t] \in {"running", "failing"} => step'[t] > 0
             /\ work'[t] \in {"failing", "ending"} => outcome'[t] \in Terminal
  BY <1>1, OthersUntouched DEF WorkInv
<1>2. /\ work[s] \in Active => status[s] = "running"
      /\ work[s] # "none" => status[s] \notin {"none", "queued"}
      /\ \A n \in Nodes : node[s][n] = "written" => work[s] \in {"running", "failing"}
      /\ work[s] \in {"running", "failing"} => step[s] > 0
      /\ work[s] \in {"failing", "ending"} => outcome[s] \in Terminal
  BY DEF WorkInv
<1>3. step[s] \in Nat /\ node[s] \in [Nodes -> {"ready", "written", "done"}]
  BY <1>0 DEF TypeWork, ServerAssumption
<1>4. work'[s] \in Active => status'[s] = "running"
  BY <1>2, Moves DEF Active
<1>5. \A n \in Nodes : node'[s][n] = "written" => work'[s] \in {"running", "failing"}
  BY <1>2, <1>3, Moves
<1>6. work'[s] \in {"running", "failing"} => step'[s] > 0
  BY <1>2, <1>3, Moves
<1>7. work'[s] \in {"failing", "ending"} => outcome'[s] \in Terminal
  BY <1>2, Moves DEF Terminal
<1>8. work'[s] # "none" => status'[s] \notin {"none", "queued"}
  BY <1>2, Moves DEF Active, Terminal
<1>. QED  BY <1>1, <1>4, <1>5, <1>6, <1>7, <1>8 DEF WorkInv

(* Nobody who is done starts again.                                         *)
LEMMA ServingIsFinal ==
  ASSUME TypeOK, WorkInv, PoolInv, NEW s \in Sessions, Serving(s), NEW t \in Sessions,
         status[t] \in Terminal
  PROVE  status'[t] = status[t] /\ events'[t] = events[t]
<1>1. CASE t # s
  BY <1>1, OthersUntouched
<1>2. CASE t = s
  <2>1. work[s] \notin Active /\ status[s] \notin {"none", "queued", "running"}
    BY <1>2 DEF WorkInv, Terminal
  <2>. QED  BY <1>2, <2>1, Moves DEF Active
<1>. QED  BY <1>1, <1>2

LEMMA ServingStop ==
  ASSUME ServerAssumption, TypeOK, WorkInv, PoolInv, StopInv, NEW s \in Sessions, Serving(s)
  PROVE  StopInv'
<1>0. TypeWork /\ TypeMark
  BY Typed
<1>1. ASSUME NEW t \in Sessions, t # s
      PROVE  interrupt'[t] => step'[t] <= flaggedAt'[t] + (IF work'[t] = "resume" THEN 0 ELSE 1)
  BY <1>1, OthersUntouched DEF StopInv
<1>2. step[s] \in Nat /\ flaggedAt[s] \in Nat
  BY <1>0 DEF TypeWork, TypeMark, ServerAssumption
<1>3. CASE Interrupt(s)
  <2>1. flaggedAt'[s] = step[s] /\ step' = step /\ work' = work
    BY <1>0, <1>3 DEF Interrupt, TypeMark, Run
  <2>2. step'[s] <= flaggedAt'[s] + (IF work'[s] = "resume" THEN 0 ELSE 1)
    BY <1>2, <2>1
  <2>. QED  BY <1>1, <2>2 DEF StopInv
<1>4. CASE ~Interrupt(s)
  <2>1. interrupt' = interrupt /\ flaggedAt' = flaggedAt
    BY <1>4 DEF Serving, Create, CreateCheck, CreateBuild, CreateInvalid, CreateSubmit, Work,
         Begin, Chunk, NextStep, GraphEnds, NodeWrites, NodePublishes, StepDone, NodeRaises,
         Joined, Finish, FinishRaises, Mark
  <2>2. interrupt[s] => step[s] <= flaggedAt[s] + (IF work[s] = "resume" THEN 0 ELSE 1)
    BY DEF StopInv
  <2>3. interrupt[s] => step'[s] <= flaggedAt[s] + (IF work'[s] = "resume" THEN 0 ELSE 1)
    BY <1>2, <2>2, Moves
  <2>. QED  BY <1>1, <2>1, <2>3 DEF StopInv
<1>. QED  BY <1>3, <1>4

LEMMA ServingPool ==
  ASSUME TypeOK, WorkInv, PoolInv, OverInv, NEW s \in Sessions, Serving(s)
  PROVE  PoolInv' /\ OverInv'
<1>0. TypePool /\ TypeLife /\ TypeRequest
  BY Typed
<1>1. UNCHANGED <<down, closed>>
  BY DEF Serving, Create, CreateCheck, CreateBuild, CreateInvalid, CreateSubmit, Interrupt, Work,
         Begin, Chunk, NextStep, GraphEnds, NodeWrites, NodePublishes, StepDone, NodeRaises,
         Joined, Finish, FinishRaises, Life
<1>2. \A i \in 1..Len(pool) : pool[i] \in Sessions
  BY <1>0 DEF TypePool
<1>3. \A t \in Sessions : t # s => status'[t] = status[t] /\ work'[t] = work[t]
  BY OthersUntouched
<1>4. OverInv'
  <2>. SUFFICES ASSUME down = "done", NEW t \in Sessions, creation'[t] = "accepted"
                PROVE  status'[t] \in Terminal
    BY <1>1 DEF OverInv
  <2>1. CASE creation[t] = "accepted"
    BY <2>1, ServingIsFinal DEF OverInv
  <2>2. CASE creation[t] # "accepted"
    <3>1. closed
      BY <1>0 DEF TypeLife
    <3>2. t = s
      BY <2>2, OthersUntouched
    <3>3. ~CreateSubmit(s) => creation'[s] = creation[s] \/ creation'[s] # "accepted"
      BY <1>0 DEF TypeRequest, Serving, Create, CreateCheck, CreateBuild, CreateInvalid, Refuse,
           Interrupt, Work, Begin, Chunk, NextStep, GraphEnds, NodeWrites, NodePublishes,
           StepDone, NodeRaises, Joined, Finish, FinishRaises, Request
    <3>. QED  BY <1>0, <2>2, <3>1, <3>2, <3>3 DEF CreateSubmit, Refuse, TypeRequest
  <2>. QED  BY <2>1, <2>2
<1>5. CASE pool' = pool
  <2>1. \A i \in 1..Len(pool) : pool[i] = s => status'[s] = status[s] /\ work'[s] = work[s]
    BY <1>5, Moves DEF PoolInv
  <2>. QED  BY <1>1, <1>2, <1>3, <1>4, <1>5, <2>1 DEF PoolInv
<1>6. CASE pool' = Append(pool, s) /\ status[s] = "none" /\ status'[s] = "queued" /\ ~closed
           /\ work'[s] = work[s]
  <2>1. work[s] = "none" /\ down = "no"
    BY <1>0, <1>6 DEF WorkInv, TypeLife
  <2>2. /\ Len(pool') = Len(pool) + 1 /\ Len(pool) \in Nat
        /\ \A i \in 1..Len(pool) : pool'[i] = pool[i] /\ pool[i] # s
        /\ pool'[Len(pool) + 1] = s
    BY <1>0, <1>2, <1>6 DEF TypePool, PoolInv
  <2>3. \A i \in 1..Len(pool') : i \in 1..Len(pool) \/ i = Len(pool) + 1
    BY <2>2
  <2>4. \A i \in 1..Len(pool') : status'[pool'[i]] = "queued" /\ work'[pool'[i]] = "none"
    BY <1>2, <1>3, <1>6, <2>1, <2>2, <2>3 DEF PoolInv
  <2>5. \A i, j \in 1..Len(pool') : pool'[i] = pool'[j] => i = j
    BY <2>2, <2>3 DEF PoolInv
  <2>. QED  BY <1>1, <1>4, <2>1, <2>4, <2>5 DEF PoolInv
<1>7. CASE pool # <<>> /\ s = Head(pool) /\ pool' = Tail(pool)
  <2>1. /\ Len(pool) \in Nat \ {0} /\ Len(pool') = Len(pool) - 1 /\ s = pool[1]
        /\ \A i \in 1..Len(pool') : pool'[i] = pool[i + 1] /\ i + 1 \in 1..Len(pool)
    BY <1>0, <1>7 DEF TypePool
  <2>2. \A i \in 1..Len(pool') : pool'[i] # s
    BY <2>1 DEF PoolInv
  <2>3. \A i \in 1..Len(pool') : status'[pool'[i]] = "queued" /\ work'[pool'[i]] = "none"
    BY <1>2, <1>3, <2>1, <2>2 DEF PoolInv
  <2>4. \A i, j \in 1..Len(pool') : pool'[i] = pool'[j] => i = j
    BY <2>1 DEF PoolInv
  <2>5. down \notin {"waiting", "done"}
    BY <1>7 DEF PoolInv
  <2>. QED  BY <1>1, <1>4, <2>3, <2>4, <2>5 DEF PoolInv
<1>. QED  BY <1>4, <1>5, <1>6, <1>7, Moves

(***************************************************************************)
(* What is on disk is what the stream has, but for the lines between.      *)
(***************************************************************************)
LEMMA ToSetAppend ==
  ASSUME NEW S, NEW q \in Seq(S), NEW e \in S
  PROVE  ToSet(Append(q, e)) = ToSet(q) \cup {e}
<1>1. /\ Append(q, e) \in Seq(S) /\ Len(Append(q, e)) = Len(q) + 1 /\ Len(q) \in Nat
      /\ \A i \in 1..Len(q) : Append(q, e)[i] = q[i]
      /\ Append(q, e)[Len(q) + 1] = e
  OBVIOUS
<1>2. DOMAIN q = 1..Len(q) /\ DOMAIN Append(q, e) = 1..(Len(q) + 1)
  BY <1>1
<1>. HIDE DEF ToSet
<1>3. \A x : x \in ToSet(Append(q, e)) <=> x \in ToSet(q) \cup {e}
  BY <1>1, <1>2 DEF ToSet
<1>. QED  BY <1>3

LEMMA ServingDisk ==
  ASSUME ServerAssumption, TypeOK, WorkInv, PoolInv, DiskInv, NEW s \in Sessions, Serving(s)
  PROVE  DiskInv'
<1>0. TypeWork /\ TypeTrace
  BY Typed
<1>1. ASSUME NEW t \in Sessions, t # s
      PROVE  ToSet(disk'[t]) = ToSet(events'[t]) \cup Between(t)'
  <2>1. Between(t)' = Between(t)
    BY <1>1, OthersUntouched DEF Between
  <2>. QED  BY <1>1, <2>1, OthersUntouched DEF DiskInv
<1>2. ToSet(disk[s]) = ToSet(events[s]) \cup Between(s)
  BY DEF DiskInv
<1>. DEFINE E(n) == <<step[s], n>>
<1>3. ASSUME NEW n \in Nodes, work[s] \in {"running", "failing"} PROVE E(n) \in Event
  BY <1>0, <1>3 DEF TypeWork, WorkInv, Event, ServerAssumption
<1>4. node[s] \in [Nodes -> {"ready", "written", "done"}] /\ disk[s] \in Seq(Event) /\ events[s] \in Seq(Event)
  BY <1>0 DEF TypeWork, TypeTrace
<1>5. CASE UNCHANGED <<step, node, disk, events>>
  BY <1>2, <1>1, <1>5 DEF Between, DiskInv
<1>6. CASE /\ work[s] = "resume" /\ UNCHANGED <<disk, events>>
           /\ node'[s] = [n \in Nodes |-> "ready"]
  <2>1. Between(s) = {} /\ Between(s)' = {}
    BY <1>6 DEF Between, WorkInv
  <2>. QED  BY <1>1, <1>2, <1>6, <2>1 DEF DiskInv
<1>7. ASSUME NEW n \in Nodes, work[s] \in {"running", "failing"}, step' = step, UNCHANGED events,
             node[s][n] = "ready", node'[s] = [node[s] EXCEPT ![n] = "written"],
             disk'[s] = Append(disk[s], E(n))
      PROVE  DiskInv'
  <2>1. Between(s)' = Between(s) \cup {E(n)}
    BY <1>4, <1>7 DEF Between
  <2>2. ToSet(disk'[s]) = ToSet(disk[s]) \cup {E(n)}
    BY <1>3, <1>4, <1>7, ToSetAppend
  <2>. HIDE DEF E
  <2>. QED  BY <1>1, <1>2, <1>7, <2>1, <2>2 DEF DiskInv
<1>8. ASSUME NEW n \in Nodes, work[s] \in {"running", "failing"}, step' = step, UNCHANGED disk,
             node[s][n] = "written", node'[s] = [node[s] EXCEPT ![n] = "done"],
             events'[s] = Append(events[s], E(n))
      PROVE  DiskInv'
  <2>1. Between(s) = Between(s)' \cup {E(n)}
    BY <1>4, <1>8 DEF Between
  <2>2. ToSet(events'[s]) = ToSet(events[s]) \cup {E(n)}
    BY <1>3, <1>4, <1>8, ToSetAppend
  <2>. HIDE DEF E
  <2>. QED  BY <1>1, <1>2, <1>8, <2>1, <2>2 DEF DiskInv
<1>. QED  BY <1>5, <1>6, <1>7, <1>8, Moves

(***************************************************************************)
(* A shutdown that waits for its workers.                                  *)
(***************************************************************************)
LEMMA StoppingKeeps ==
  ASSUME ServerAssumption, Patient, TypeOK, WorkInv, PoolInv, StopInv, OverInv, DiskInv, Stopping
  PROVE  WorkInv' /\ PoolInv' /\ StopInv' /\ OverInv' /\ DiskInv'
<1>0. TypeRequest /\ TypeWork /\ TypeMark /\ TypeLife
  BY Typed
<1>1. UNCHANGED <<creation, work, step, node, outcome, disk, events>>
  BY DEF Stopping, Shutdown, CancelFutures, ShutdownEnds, Request, Run, Trace
<1>2. DiskInv'
  BY <1>1 DEF DiskInv, Between
<1>3. CASE Shutdown
  <2>1. UNCHANGED <<status, pool>> /\ down' = "draining"
    BY <1>3 DEF Shutdown
  <2>2. \A s \in Sessions : interrupt'[s] => \/ interrupt[s] /\ flaggedAt'[s] = flaggedAt[s]
                                           \/ flaggedAt'[s] = step[s]
    BY <1>0, <1>3 DEF Shutdown, TypeMark
  <2>3. \A s \in Sessions : step[s] \in Nat /\ flaggedAt[s] \in Nat
    BY <1>0 DEF TypeWork, TypeMark, ServerAssumption
  <2>4. StopInv'
    BY <1>1, <2>2, <2>3 DEF StopInv
  <2>. QED  BY <1>1, <1>2, <2>1, <2>4 DEF WorkInv, PoolInv, OverInv
<1>4. CASE CancelFutures
  <2>1. UNCHANGED <<status, interrupt, flaggedAt>> /\ down' = "waiting" /\ pool' = <<>>
    BY <1>4 DEF CancelFutures, Mark
  <2>2. PoolInv'
    BY <2>1 DEF PoolInv
  <2>. QED  BY <1>1, <1>2, <2>1, <2>2 DEF WorkInv, OverInv, StopInv
<1>5. CASE ShutdownEnds
  <2>1. /\ UNCHANGED <<interrupt, flaggedAt, pool>> /\ down' = "done" /\ pool = <<>>
        /\ \A s \in Sessions : work[s] \notin Active
        /\ \A s \in Sessions : \/ status'[s] = status[s] /\ (creation[s] = "accepted" => status[s] \in Terminal)
                              \/ status'[s] = "interrupted"
    BY <1>0, <1>5 DEF ShutdownEnds, Mark, Busy, Active, PoolInv, TypeRequest, TypeWork
  <2>2. PoolInv'
    BY <2>1 DEF PoolInv
  <2>3. OverInv'
    BY <1>1, <2>1 DEF OverInv, Terminal
  <2>4. WorkInv'
    BY <1>1, <2>1, Zenon DEF WorkInv
  <2>5. StopInv'
    BY <1>1, <2>1 DEF StopInv
  <2>. QED  BY <1>2, <2>2, <2>3, <2>4, <2>5
<1>. QED  BY <1>3, <1>4, <1>5 DEF Stopping

LEMMA StoppingIsFinal ==
  ASSUME TypeOK, Stopping, NEW t \in Sessions, status[t] \in Terminal
  PROVE  status'[t] = status[t] /\ events' = events
<1>1. TypeRequest
  BY Typed
<1>. QED  BY <1>1 DEF Stopping, Shutdown, CancelFutures, ShutdownEnds, TypeRequest, Trace

(***************************************************************************)
(* The clients.                                                            *)
(***************************************************************************)
(* An event is added at the end, to a session that is not over.             *)
LEMMA EventsGrow ==
  ASSUME ServerAssumption, TypeOK, WorkInv, PoolInv, NEW t \in Sessions,
         Stopping \/ \E s \in Sessions : Serving(s)
  PROVE  /\ Len(events'[t]) >= Len(events[t])
         /\ \A i \in 1..Len(events[t]) : events'[t][i] = events[t][i]
<1>0. TypeWork /\ TypeTrace
  BY Typed
<1>1. events[t] \in Seq(Event) /\ Len(events[t]) \in Nat
  BY <1>0 DEF TypeTrace
<1>2. CASE events'[t] = events[t]
  BY <1>1, <1>2
<1>3. CASE events'[t] # events[t]
  <2>1. ~Stopping
    BY <1>3 DEF Stopping, Shutdown, CancelFutures, ShutdownEnds, Trace
  <2>2. PICK s \in Sessions : Serving(s)
    BY <2>1
  <2>3. t = s
    BY <1>3, <2>2, OthersUntouched
  <2>4. PICK n \in Nodes : /\ work[s] \in {"running", "failing"}
                            /\ events'[s] = Append(events[s], <<step[s], n>>)
    BY <1>3, <2>2, <2>3, Moves
  <2>5. <<step[s], n>> \in Event
    BY <1>0, <2>4 DEF TypeWork, WorkInv, Event, ServerAssumption
  <2>. QED  BY <1>1, <2>3, <2>4, <2>5
<1>. QED  BY <1>2, <1>3

LEMMA StillFollows ==
  ASSUME NEW c \in Client, NEW ev \in Seq(Event), NEW more \in Seq(Event),
         NEW over, NEW overNow, NEW lost, Follows(c, ev, over, lost),
         Len(more) >= Len(ev), \A i \in 1..Len(ev) : more[i] = ev[i],
         over => overNow /\ more = ev
  PROVE  Follows(c, more, overNow, lost)
<1>1. /\ c.from \in Nat /\ c.position \in Nat /\ Len(c.page) \in Nat /\ Len(c.got) \in Nat
      /\ Len(ev) \in Nat /\ Len(more) \in Nat
  BY DEF Client
<1>2. ASSUME NEW n \in Nat, NEW i \in Nat \ {0}, n + i <= Len(ev)
      PROVE  n + i <= Len(more) /\ more[n + i] = ev[n + i]
  BY <1>1, <1>2
<1>3. \A i \in 1..Len(c.page) : c.position + i <= Len(more) /\ c.page[i] = more[c.position + i]
  <2>. SUFFICES ASSUME NEW i \in 1..Len(c.page)
                PROVE  c.position + i <= Len(more) /\ c.page[i] = more[c.position + i]
    OBVIOUS
  <2>1. c.position + i <= Len(ev) /\ c.page[i] = ev[c.position + i] /\ i \in Nat \ {0}
    BY <1>1 DEF Follows
  <2>. QED  BY <1>1, <1>2, <2>1
<1>4. ASSUME lost = 0 \/ c.from = 0, NEW i \in 1..Len(c.got)
      PROVE  c.from + i <= Len(more) /\ c.got[i] = more[c.from + i]
  <2>1. c.from + i <= Len(ev) /\ c.got[i] = ev[c.from + i] /\ i \in Nat \ {0}
    BY <1>1, <1>4 DEF Follows
  <2>. QED  BY <1>1, <1>2, <2>1
<1>. QED  BY <1>3, <1>4 DEF Follows

LEMMA ServerKeepsClients ==
  ASSUME ServerAssumption, TypeOK, WorkInv, PoolInv, ClientInv,
         Stopping \/ \E s \in Sessions : Serving(s)
  PROVE  ClientInv' /\ TypeClient'
<1>0. TypeClient /\ TypeTrace
  BY Typed
<1>1. UNCHANGED <<client, drops>>
  BY ServingFrame
<1>2. TypeClient'
  BY <1>0, <1>1 DEF TypeClient
<1>3. ASSUME NEW t \in Sessions
      PROVE  Follows(client[t], events'[t], status'[t] \in Terminal, drops)
  <2>1. Follows(client[t], events[t], status[t] \in Terminal, drops)
    BY DEF ClientInv
  <2>2. /\ Len(events'[t]) >= Len(events[t])
        /\ \A i \in 1..Len(events[t]) : events'[t][i] = events[t][i]
    BY EventsGrow
  <2>3. status[t] \in Terminal => status'[t] = status[t] /\ events'[t] = events[t]
    BY ServingIsFinal, StoppingIsFinal
  <2>4. client[t] \in Client /\ events[t] \in Seq(Event)
    BY <1>0 DEF TypeClient, TypeTrace
  <2>5. events'[t] \in Seq(Event)
    BY ServingTypes, StoppingTypes DEF TypeTrace
  <2>. QED  BY <2>1, <2>2, <2>3, <2>4, <2>5, StillFollows
<1>. QED  BY <1>1, <1>2, <1>3 DEF ClientInv

LEMMA Others ==
  ASSUME TypeOK, NEW s \in Sessions, NEW c \in Client, client' = [client EXCEPT ![s] = c]
  PROVE  client' \in [Sessions -> Client] /\ client'[s] = c
         /\ \A t \in Sessions : t # s => client'[t] = client[t]
BY Typed DEF TypeClient

(* It is enough to look at the client that moves.                           *)
LEMMA ClientMoves ==
  ASSUME TypeOK, ClientInv, NEW s \in Sessions, NEW c \in Client,
         client' = [client EXCEPT ![s] = c],
         UNCHANGED <<status, events>>,
         drops' \in 0..MaxDrops, drops' = 0 => drops = 0,
         Follows(c, events[s], status[s] \in Terminal, drops')
  PROVE  ClientInv' /\ TypeClient'
<1>1. client' \in [Sessions -> Client] /\ client'[s] = c
      /\ \A t \in Sessions : t # s => client'[t] = client[t]
  BY Others
<1>2. TypeClient'
  BY <1>1 DEF TypeClient
<1>3. ASSUME NEW t \in Sessions
      PROVE  Follows(client'[t], events[t], status[t] \in Terminal, drops')
  <2>1. CASE t = s
    BY <1>1, <2>1
  <2>2. CASE t # s
    <3>1. Follows(client[t], events[t], status[t] \in Terminal, drops)
      BY DEF ClientInv
    <3>. QED  BY <1>1, <2>2, <3>1 DEF Follows
  <2>. QED  BY <2>1, <2>2
<1>. QED  BY <1>2, <1>3 DEF ClientInv

LEMMA FrameTypes ==
  ASSUME NEW position \in Nat, NEW page \in Seq(Event), NEW got \in Seq(Event), page # <<>>
  PROVE  Tail(page) \in Seq(Event) /\ Append(got, Head(page)) \in Seq(Event)
         /\ position + 1 \in Nat
OBVIOUS

(* A frame leaves the page: what is left of it still follows the cursor ... *)
LEMMA FrameGoes ==
  ASSUME NEW seen \in Seq(Event), NEW position \in Nat, NEW page \in Seq(Event), page # <<>>,
         \A i \in 1..Len(page) : position + i <= Len(seen) /\ page[i] = seen[position + i]
  PROVE  /\ Len(Tail(page)) = Len(page) - 1
         /\ \A i \in 1..Len(Tail(page)) : (position + 1) + i <= Len(seen)
                                           /\ Tail(page)[i] = seen[(position + 1) + i]
<1>1. /\ Len(page) \in Nat /\ Len(page) > 0 /\ Len(Tail(page)) = Len(page) - 1
      /\ \A i \in 1..(Len(page) - 1) : Tail(page)[i] = page[i + 1]
  OBVIOUS
<1>2. ASSUME NEW i \in 1..(Len(page) - 1)
      PROVE  (position + 1) + i <= Len(seen) /\ Tail(page)[i] = seen[(position + 1) + i]
  <2>1. i + 1 \in 1..Len(page) /\ position + (i + 1) = (position + 1) + i
    BY <1>1
  <2>. QED  BY <1>1, <2>1
<1>. QED  BY <1>1, <1>2

(* ... and joins what was received.                                         *)
LEMMA FrameComes ==
  ASSUME NEW seen \in Seq(Event), NEW from \in Nat, NEW position \in Nat,
         NEW page \in Seq(Event), NEW got \in Seq(Event), page # <<>>,
         \A i \in 1..Len(page) : position + i <= Len(seen) /\ page[i] = seen[position + i],
         position = from + Len(got),
         \A i \in 1..Len(got) : from + i <= Len(seen) /\ got[i] = seen[from + i]
  PROVE  /\ position + 1 = from + Len(Append(got, Head(page)))
         /\ \A i \in 1..Len(Append(got, Head(page))) :
              from + i <= Len(seen) /\ Append(got, Head(page))[i] = seen[from + i]
<1>. DEFINE more == Append(got, Head(page))
<1>1. 1 \in 1..Len(page) /\ Head(page) = page[1] /\ Len(got) \in Nat /\ Len(seen) \in Nat
  OBVIOUS
<1>2. position + 1 <= Len(seen) /\ page[1] = seen[position + 1]
  BY <1>1
<1>3. /\ Len(more) = Len(got) + 1 /\ more[Len(got) + 1] = page[1]
      /\ \A i \in 1..Len(got) : more[i] = got[i]
  BY <1>1
<1>. HIDE DEF more
<1>4. ASSUME NEW i \in 1..Len(more) PROVE from + i <= Len(seen) /\ more[i] = seen[from + i]
  <2>1. CASE i \in 1..Len(got)
    BY <1>3, <2>1
  <2>2. CASE i \notin 1..Len(got)
    <3>1. i = Len(got) + 1 /\ from + i = position + 1
      BY <1>1, <1>3, <2>2
    <3>. QED  BY <1>2, <1>3, <3>1
  <2>. QED  BY <2>1, <2>2
<1>5. position + 1 = from + Len(more)
  BY <1>1, <1>3
<1>. QED  BY <1>4, <1>5 DEF more

LEMMA ClientsKeep ==
  ASSUME ServerAssumption, TypeOK, ClientInv, NEW s \in Sessions, Streaming(s)
  PROVE  ClientInv' /\ TypeClient'
<1>. DEFINE c == client[s]  seen == events[s]  over == status[s] \in Terminal
<1>0. c \in Client /\ drops \in 0..MaxDrops /\ MaxDrops \in Nat /\ seen \in Seq(Event)
  BY Typed DEF TypeClient, TypeTrace, ServerAssumption
<1>2. Follows(c, seen, over, drops)
  BY DEF ClientInv
<1>3. UNCHANGED <<status, events>>
  BY StreamingFrame
<1>. HIDE DEF c, seen, over
<1>1. /\ c.from \in Nat /\ c.position \in Nat /\ c.page \in Seq(Event) /\ c.got \in Seq(Event)
      /\ Len(c.page) \in Nat /\ Len(c.got) \in Nat /\ Len(seen) \in Nat
      /\ c.final \in BOOLEAN
  BY <1>0 DEF Client
<1>10. ASSUME NEW d \in Client, client' = [client EXCEPT ![s] = d], drops' \in 0..MaxDrops,
              drops' = 0 => drops = 0, Follows(d, seen, over, drops')
       PROVE  ClientInv' /\ TypeClient'
  BY <1>3, <1>10, ClientMoves DEF seen, over
<1>4. ASSUME NEW cursor \in Cursors, Connect(s, cursor) PROVE ClientInv' /\ TypeClient'
  <2>. DEFINE d == [c EXCEPT !.state = "open", !.from = cursor, !.position = cursor]
  <2>1. client' = [client EXCEPT ![s] = d] /\ drops' = drops /\ c.state = "off" /\ cursor \in Nat
    BY <1>4 DEF Connect, Set, ServerAssumption, c
  <2>2. /\ d \in Client /\ d.state = "open" /\ d.from = cursor /\ d.position = cursor
        /\ d.page = <<>> /\ d.got = <<>> /\ d.final = c.final
    BY <1>0, <1>2, <2>1 DEF Client, Follows
  <2>3. d.final # TRUE
    BY <1>2, <2>1, <2>2 DEF Follows
  <2>4. Len(d.page) = 0 /\ Len(d.got) = 0
    BY <2>2
  <2>. HIDE DEF d
  <2>5. d.position = d.from + Len(d.got) /\ 1..Len(d.page) = {} /\ 1..Len(d.got) = {}
    BY <2>1, <2>2, <2>4
  <2>6. Follows(d, seen, over, drops)
    BY <2>2, <2>3, <2>5, Zenon DEF Follows
  <2>. QED  BY <1>0, <1>10, <2>1, <2>2, <2>6
<1>5. CASE Page(s)
  <2>. DEFINE new == SubSeq(seen, c.position + 1, Len(seen))
              d == [c EXCEPT !.state = "reading", !.page = new, !.final = over]
  <2>1. client' = [client EXCEPT ![s] = d] /\ drops' = drops /\ c.state = "open"
    BY <1>5 DEF Page, Set, c, seen, over
  <2>2. new \in Seq(Event) /\ Len(new) \in Nat /\ c.position + Len(new) >= Len(seen)
        /\ \A i \in 1..Len(new) : c.position + i <= Len(seen) /\ new[i] = seen[c.position + i]
    <3>1. \A i \in (c.position + 1)..Len(seen) : seen[i] \in Event
      BY <1>0, <1>1
    <3>2. /\ new \in Seq(Event)
          /\ Len(new) = IF c.position + 1 <= Len(seen) THEN Len(seen) - c.position ELSE 0
          /\ \A i \in 1..(Len(seen) - c.position) : new[i] = seen[c.position + i]
      BY <1>1, <3>1, SubSeqProperties
    <3>. HIDE DEF new
    <3>. QED  BY <1>1, <3>2
  <2>. HIDE DEF new
  <2>9. over \in BOOLEAN
    BY DEF over
  <2>3. /\ d \in Client /\ d.state = "reading" /\ d.from = c.from /\ d.position = c.position
        /\ d.page = new /\ d.got = c.got /\ (d.final = TRUE => over)
    BY <1>0, <2>2, <2>9 DEF Client
  <2>. HIDE DEF d
  <2>4. Follows(d, seen, over, drops)
    BY <1>2, <2>2, <2>3 DEF Follows
  <2>. QED  BY <1>0, <1>10, <2>1, <2>3, <2>4
<1>6. CASE Frame(s)
  <2>. DEFINE d == [c EXCEPT !.page = Tail(c.page), !.position = c.position + 1,
                             !.got = Append(c.got, Head(c.page))]
  <2>1. client' = [client EXCEPT ![s] = d] /\ drops' = drops /\ c.state = "reading" /\ c.page # <<>>
    BY <1>6 DEF Frame, Set, c
  <2>2. /\ Tail(c.page) \in Seq(Event) /\ Append(c.got, Head(c.page)) \in Seq(Event)
        /\ c.position + 1 \in Nat
    BY <1>1, <2>1, FrameTypes
  <2>3. /\ d \in Client /\ d.state = "reading" /\ d.from = c.from /\ d.position = c.position + 1
        /\ d.page = Tail(c.page) /\ d.got = Append(c.got, Head(c.page)) /\ d.final = c.final
    <3>. DEFINE rest == Tail(c.page)  more == Append(c.got, Head(c.page))
    <3>. HIDE DEF rest, more
    <3>1. rest \in Seq(Event) /\ more \in Seq(Event) /\ c.position + 1 \in Nat
      BY <2>2 DEF rest, more
    <3>2. d = [c EXCEPT !.page = rest, !.position = c.position + 1, !.got = more]
      BY DEF d, rest, more
    <3>. HIDE DEF d
    <3>3. /\ d \in Client /\ d.state = c.state /\ d.from = c.from /\ d.position = c.position + 1
          /\ d.page = rest /\ d.got = more /\ d.final = c.final
      BY <1>0, <3>1, <3>2 DEF Client
    <3>. QED  BY <2>1, <3>3 DEF rest, more
  <2>. HIDE DEF d
  <2>4. \A i \in 1..Len(c.page) : c.position + i <= Len(seen) /\ c.page[i] = seen[c.position + i]
    BY <1>2 DEF Follows
  <2>5. /\ Len(Tail(c.page)) = Len(c.page) - 1
        /\ \A i \in 1..Len(Tail(c.page)) : (c.position + 1) + i <= Len(seen)
                                            /\ Tail(c.page)[i] = seen[(c.position + 1) + i]
    BY <1>0, <1>1, <2>1, <2>4, FrameGoes
  <2>6. drops = 0 \/ d.from = 0 =>
          /\ d.position = d.from + Len(d.got)
          /\ \A i \in 1..Len(d.got) : d.from + i <= Len(seen)
                                      /\ d.got[i] = seen[d.from + i]
    <3>. SUFFICES ASSUME drops = 0 \/ c.from = 0
                  PROVE  /\ d.position = d.from + Len(d.got)
                         /\ \A i \in 1..Len(d.got) : d.from + i <= Len(seen)
                                                     /\ d.got[i] = seen[d.from + i]
      BY <2>3
    <3>. DEFINE position == c.position  page == c.page  from == c.from  got == c.got
    <3>1. position = from + Len(got)
      BY <1>2 DEF Follows
    <3>2. \A i \in 1..Len(got) : from + i <= Len(seen) /\ got[i] = seen[from + i]
      BY <1>2 DEF Follows
    <3>3. /\ seen \in Seq(Event) /\ from \in Nat /\ position \in Nat /\ page \in Seq(Event)
          /\ got \in Seq(Event) /\ page # <<>>
      BY <1>0, <1>1, <2>1
    <3>4. \A i \in 1..Len(page) : position + i <= Len(seen) /\ page[i] = seen[position + i]
      BY <2>4
    <3>5. d.position = position + 1 /\ d.from = from /\ d.got = Append(got, Head(page))
      BY <2>3
    <3>. HIDE DEF position, page, from, got
    <3>6. /\ position + 1 = from + Len(Append(got, Head(page)))
          /\ \A i \in 1..Len(Append(got, Head(page))) :
               from + i <= Len(seen) /\ Append(got, Head(page))[i] = seen[from + i]
      BY <3>1, <3>2, <3>3, <3>4, FrameComes
    <3>. DEFINE more == Append(got, Head(page))
    <3>7. d.got = more /\ position + 1 = from + Len(more)
          /\ \A i \in 1..Len(more) : from + i <= Len(seen) /\ more[i] = seen[from + i]
      BY <3>5, <3>6
    <3>. HIDE DEF more
    <3>. QED  BY <3>5, <3>7
  <2>7. d.final = TRUE => over /\ d.position + Len(d.page) >= Len(seen)
    <3>1. c.final = TRUE => over /\ c.position + Len(c.page) >= Len(seen)
      BY <1>2 DEF Follows
    <3>2. \A m, n \in Nat : (m + 1) + (n - 1) = m + n
      OBVIOUS
    <3>4. (c.position + 1) + (Len(c.page) - 1) = c.position + Len(c.page)
      <4>1. c.position \in Nat /\ Len(c.page) \in Nat
        BY <1>1
      <4>. QED  BY <3>2, <4>1, Zenon
    <3>5. d.position = c.position + 1 /\ d.page = Tail(c.page) /\ Len(Tail(c.page)) = Len(c.page) - 1
      BY <2>3, <2>5
    <3>3. d.position + Len(d.page) = c.position + Len(c.page)
      BY <3>4, <3>5
    <3>. QED  BY <2>3, <3>1, <3>3, Zenon
  <2>8. \A i \in 1..Len(d.page) : d.position + i <= Len(seen) /\ d.page[i] = seen[d.position + i]
    BY <2>3, <2>5
  <2>9. Follows(d, seen, over, drops)
    BY <2>3, <2>6, <2>7, <2>8, Zenon DEF Follows
  <2>. QED  BY <1>0, <1>10, <2>1, <2>3, <2>9
<1>7. CASE PageDone(s)
  <2>. DEFINE d == [c EXCEPT !.state = IF c.final THEN "done" ELSE "open"]
  <2>1. client' = [client EXCEPT ![s] = d] /\ drops' = drops /\ c.state = "reading" /\ c.page = <<>>
    BY <1>7 DEF PageDone, Set, c
  <2>2. /\ d \in Client /\ d.from = c.from /\ d.position = c.position
        /\ d.page = c.page /\ d.got = c.got /\ d.final = c.final
    BY <1>0 DEF Client
  <2>3. (d.state = "done" /\ c.final = TRUE) \/ (d.state = "open" /\ c.final # TRUE)
    BY <1>0, <1>1, Zenon DEF Client
  <2>. HIDE DEF d
  <2>4. Follows(d, seen, over, drops)
    BY <1>2, <2>1, <2>2, <2>3 DEF Follows
  <2>. QED  BY <1>0, <1>10, <2>1, <2>2, <2>4
<1>8. CASE Reconnect(s)
  <2>. DEFINE d == [c EXCEPT !.state = "open", !.page = <<>>, !.final = FALSE, !.position = Resume(c)]
  <2>1. client' = [client EXCEPT ![s] = d] /\ drops' = drops + 1 /\ drops < MaxDrops
    BY <1>8 DEF Reconnect, Set, c
  <2>2. Resume(c) \in Nat /\ (c.from = 0 => Resume(c) = c.position)
    BY <1>1 DEF Resume
  <2>3. /\ d \in Client /\ d.state = "open" /\ d.from = c.from /\ d.position = Resume(c)
        /\ d.page = <<>> /\ d.got = c.got /\ d.final = FALSE
    BY <1>0, <2>2, EmptySeq DEF Client
  <2>4. drops' \in 0..MaxDrops /\ drops' # 0 /\ Len(d.page) = 0
    BY <1>0, <2>1, <2>3
  <2>. HIDE DEF d
  <2>5. Follows(d, seen, over, drops')
    BY <1>2, <2>2, <2>3, <2>4 DEF Follows
  <2>. QED  BY <1>0, <1>10, <2>1, <2>3, <2>4, <2>5
<1>. QED  BY <1>4, <1>5, <1>6, <1>7, <1>8 DEF Streaming, Stream

(***************************************************************************)
(* The invariant and what it gives.                                        *)
(***************************************************************************)
(* What was sent up to the last event is the tail from the cursor on.       *)
LEMMA TailIsSent ==
  ASSUME NEW seen \in Seq(Event), NEW from \in Nat, NEW got \in Seq(Event),
         \A i \in 1..Len(got) : from + i <= Len(seen) /\ got[i] = seen[from + i],
         from + Len(got) >= Len(seen)
  PROVE  got = SubSeq(seen, from + 1, Len(seen))
<1>. DEFINE rest == SubSeq(seen, from + 1, Len(seen))
<1>1. Len(seen) \in Nat /\ Len(got) \in Nat
  OBVIOUS
<1>2. \A i \in (from + 1)..Len(seen) : seen[i] \in Event
  BY <1>1
<1>3. /\ rest \in Seq(Event)
      /\ Len(rest) = IF from + 1 <= Len(seen) THEN Len(seen) - from ELSE 0
      /\ \A i \in 1..(Len(seen) - from) : rest[i] = seen[from + i]
  BY <1>1, <1>2, SubSeqProperties
<1>. HIDE DEF rest
<1>4. Len(got) > 0 => from + Len(got) <= Len(seen)
  BY <1>1
<1>5. Len(got) = Len(rest)
  BY <1>1, <1>3, <1>4
<1>6. \A i \in 1..Len(got) : got[i] = rest[i]
  BY <1>1, <1>3, <1>4
<1>7. got = rest
  BY <1>3, <1>5, <1>6
<1>. QED  BY <1>7 DEF rest

LEMMA InvInit == ASSUME ServerAssumption PROVE Init => IInv
<1>. SUFFICES ASSUME Init PROVE IInv
  OBVIOUS
<1>1. 0 \in 0..MaxSteps /\ 0 \in 0..MaxDrops
  BY DEF ServerAssumption
<1>2. Off \in Client
  BY EmptySeq DEF Off, Client
<1>3. TypeOK
  BY <1>1, <1>2, Typed, EmptySeq DEF Init, TypeLife, TypeRequest, TypeWork, TypeMark, TypeTrace,
     TypeClient, TypePool, Terminal
<1>4. WorkInv /\ PoolInv /\ StopInv /\ OverInv
  BY DEF Init, WorkInv, PoolInv, StopInv, OverInv, Active
<1>5. DiskInv
  BY DEF Init, DiskInv, Between
<1>6. ClientInv
  BY DEF Init, ClientInv, Follows, Off
<1>. QED  BY <1>3, <1>4, <1>5, <1>6 DEF IInv

LEMMA InvNext ==
  ASSUME ServerAssumption, Patient, IInv, [Next]_vars
  PROVE  IInv'
<1>0. TypeOK /\ WorkInv /\ PoolInv /\ StopInv /\ OverInv /\ DiskInv /\ ClientInv
  BY DEF IInv
<1>1. CASE \E s \in Sessions : Serving(s)
  <2>1. PICK s \in Sessions : Serving(s)
    BY <1>1
  <2>2. ClientInv' /\ TypeClient'
    BY <1>0, <1>1, ServerKeepsClients
  <2>3. TypeOK'
    BY <1>0, <2>1, <2>2, ServingTypes, TypedNext
  <2>4. WorkInv' /\ StopInv' /\ PoolInv' /\ OverInv' /\ DiskInv'
    BY <1>0, <2>1, ServingWork, ServingStop, ServingPool, ServingDisk
  <2>. QED  BY <2>2, <2>3, <2>4 DEF IInv
<1>2. CASE Stopping
  <2>2. ClientInv' /\ TypeClient'
    BY <1>0, <1>2, ServerKeepsClients
  <2>3. TypeOK'
    BY <1>0, <1>2, <2>2, StoppingTypes, TypedNext
  <2>. QED  BY <1>0, <1>2, <2>2, <2>3, StoppingKeeps DEF IInv
<1>3. CASE \E s \in Sessions : Streaming(s)
  <2>1. PICK s \in Sessions : Streaming(s)
    BY <1>3
  <2>2. UNCHANGED <<closed, down, creation, dir, status, interrupt, outcome, pool, work, step,
                    node, disk, events, flaggedAt>>
    BY <2>1, StreamingFrame
  <2>3. ClientInv' /\ TypeClient'
    BY <1>0, <2>1, ClientsKeep
  <2>4. TypeOK'
    <3>1. TypeLife /\ TypeRequest /\ TypeWork /\ TypeMark /\ TypeTrace /\ TypePool
      BY <1>0, Typed
    <3>2. TypeLife' /\ TypeRequest' /\ TypeWork' /\ TypeMark' /\ TypeTrace' /\ TypePool'
      BY <2>2, <3>1 DEF TypeLife, TypeRequest, TypeWork, TypeMark, TypeTrace, TypePool
    <3>. QED  BY <2>3, <3>2, TypedNext
  <2>5. WorkInv' /\ PoolInv' /\ StopInv' /\ OverInv'
    BY <1>0, <2>2 DEF WorkInv, PoolInv, StopInv, OverInv
  <2>6. DiskInv'
    BY <1>0, <2>2 DEF DiskInv, Between
  <2>. QED  BY <2>3, <2>4, <2>5, <2>6 DEF IInv
<1>4. CASE UNCHANGED vars
  <2>1. UNCHANGED <<closed, down, creation, dir, status, interrupt, outcome, pool, work, step,
                    node, disk, events, flaggedAt>> /\ UNCHANGED <<client, drops>>
    BY <1>4 DEF vars
  <2>2. TypeOK'
    BY <1>0, <2>1 DEF TypeOK
  <2>3. WorkInv' /\ PoolInv' /\ StopInv' /\ OverInv'
    BY <1>0, <2>1 DEF WorkInv, PoolInv, StopInv, OverInv
  <2>4. DiskInv' /\ ClientInv'
    BY <1>0, <2>1 DEF DiskInv, Between, ClientInv
  <2>. QED  BY <2>2, <2>3, <2>4 DEF IInv
<1>. QED  BY <1>1, <1>2, <1>3, <1>4, TwoSides

LEMMA InvAlways == ASSUME ServerAssumption, Patient PROVE Spec => []IInv
<1>1. Init => IInv
  BY InvInit
<1>2. IInv /\ [Next]_vars => IInv'
  BY InvNext
<1>. QED  BY <1>1, <1>2, PTL DEF Spec

(* The variables keep their types, whatever the sessions, the workers, the  *)
(* clients and the order of their steps.                                    *)
THEOREM TypeCorrect == ASSUME ServerAssumption, Patient PROVE Spec => []TypeOK
<1>1. IInv => TypeOK
  BY DEF IInv
<1>. QED  BY <1>1, InvAlways, PTL

(* A client told "done" has been sent every event from its cursor on, once  *)
(* and in order, whichever connections it lost, and those are the events of *)
(* the trace file.                                                          *)
THEOREM StreamIsTrueAlways == ASSUME ServerAssumption, Patient PROVE Spec => []StreamIsTrue
<1>1. ASSUME IInv PROVE DoneIsWhole
  <2>. SUFFICES ASSUME NEW s \in Sessions, client[s].state = "done",
                       drops = 0 \/ client[s].from = 0
                PROVE  client[s].got = SubSeq(events[s], client[s].from + 1, Len(events[s]))
    BY DEF DoneIsWhole
  <2>. DEFINE got == client[s].got  from == client[s].from  seen == events[s]
  <2>1. TypeClient /\ TypeTrace
    BY <1>1, Typed DEF IInv
  <2>2. got \in Seq(Event) /\ from \in Nat /\ seen \in Seq(Event)
        /\ client[s].position \in Nat
    BY <2>1 DEF TypeClient, TypeTrace, Client
  <2>3. Follows(client[s], seen, status[s] \in Terminal, drops)
    BY <1>1 DEF IInv, ClientInv
  <2>4. client[s].page = <<>> /\ client[s].final = TRUE
    BY <2>3 DEF Follows
  <2>5. client[s].position = from + Len(got)
        /\ \A i \in 1..Len(got) : from + i <= Len(seen) /\ got[i] = seen[from + i]
    BY <2>3 DEF Follows
  <2>6. client[s].position + Len(client[s].page) >= Len(seen) /\ Len(client[s].page) = 0
    BY <2>3, <2>4 DEF Follows
  <2>. HIDE DEF got, from, seen
  <2>7. from + Len(got) >= Len(seen)
    BY <2>2, <2>5, <2>6
  <2>8. got = SubSeq(seen, from + 1, Len(seen))
    BY <2>2, <2>5, <2>7, TailIsSent
  <2>. QED  BY <2>8 DEF got, from, seen
<1>2. ASSUME IInv PROVE SameEvents
  <2>. SUFFICES ASSUME NEW s \in Sessions, status[s] \in Terminal
                PROVE  ToSet(events[s]) = ToSet(disk[s])
    BY DEF SameEvents
  <2>1. work[s] \notin {"running", "failing"}
    BY <1>2 DEF IInv, WorkInv, Active, Terminal
  <2>2. Between(s) = {}
    BY <1>2, <2>1 DEF IInv, WorkInv, Between
  <2>. QED  BY <1>2, <2>2 DEF IInv, DiskInv
<1>3. IInv => StreamIsTrue
  BY <1>1, <1>2 DEF StreamIsTrue
<1>. QED  BY <1>3, InvAlways, PTL

(* An acknowledged interrupt lets at most one more superstep begin, and a   *)
(* shutdown that returned has left no session running.                      *)
THEOREM StopsAreObeyedAlways == ASSUME ServerAssumption, Patient PROVE Spec => []StopsAreObeyed
<1>1. ASSUME IInv PROVE InterruptIsSoon
  <2>. SUFFICES ASSUME NEW s \in Sessions, interrupt[s]
                PROVE  step[s] <= flaggedAt[s] + 1
    BY DEF InterruptIsSoon
  <2>1. step[s] \in Nat /\ flaggedAt[s] \in Nat
    BY <1>1, Typed DEF IInv, TypeWork, TypeMark
  <2>2. step[s] <= flaggedAt[s] + (IF work[s] = "resume" THEN 0 ELSE 1)
    BY <1>1 DEF IInv, StopInv
  <2>. QED  BY <2>1, <2>2
<1>2. IInv => ShutDownIsOver
  BY DEF IInv, OverInv, ShutDownIsOver
<1>3. IInv => StopsAreObeyed
  BY <1>1, <1>2 DEF StopsAreObeyed
<1>. QED  BY <1>3, InvAlways, PTL
================================================================================
