---------------------------- MODULE ServerRuntime -----------------------------
(***************************************************************************)
(* grapharc/server: InProcessRuntime, which runs each session of the HTTP  *)
(* service on a pooled thread, the recorder that writes a trace and feeds  *)
(* the stream from it, and the server-sent events a client follows.        *)
(*                                                                         *)
(* The runtime's lock makes each critical section one step.  The graph is  *)
(* external: a superstep runs its nodes at once, each on a thread of its   *)
(* own, and both drivers join those threads before they return.            *)
(***************************************************************************)
EXTENDS Naturals, Sequences, FiniteSets, SequencesExt

CONSTANTS
  Sessions, Nodes,
  MaxWorkers,       \* of the pool
  MaxSteps,         \* bound: supersteps of a run
  Followed,         \* the sessions a client follows
  Cursors,          \* where it may ask to start
  MaxDrops,         \* bound: connections lost
  Patient,          \* shutdown(wait=True), as the app calls it
  Unshapeable       \* may a final state be one JSON cannot hold?

ASSUME ServerAssumption ==
  /\ MaxWorkers \in Nat \ {0} /\ MaxSteps \in Nat /\ MaxDrops \in Nat
  /\ Cursors \subseteq Nat /\ Followed \subseteq Sessions
  /\ Patient \in BOOLEAN /\ Unshapeable \in BOOLEAN

VARIABLES
  closed, down,                \* _closed, and how far shutdown() has got
  creation, dir,               \* how far create() has got; the trace directory
  status, interrupt, outcome,  \* _Session.status, interrupt_requested; _run's result
  pool,                        \* sessions no worker has taken
  work, step, node,            \* where _run is, its superstep, the superstep's nodes
  disk, events,                \* the trace file, and _Session.events
  client,                      \* the follower of a session's stream
  drops,
  flaggedAt                    \* ghost: the superstep an interrupt was acknowledged in

vars == <<closed, down, creation, dir, status, interrupt, outcome, pool, work, step, node,
          disk, events, client, drops, flaggedAt>>

Terminal == {"succeeded", "failed", "interrupted"}

Life    == <<closed, down>>
Request == <<creation, dir>>
Run     == <<work, step, node, outcome>>
Trace   == <<disk, events>>
Follow  == <<client, drops>>
Mark    == <<interrupt, flaggedAt>>

Busy == {s \in Sessions : work[s] \notin {"none", "gone"}}

Off == [state |-> "off", from |-> 0, position |-> 0, page |-> <<>>, final |-> FALSE, got |-> <<>>]

(***************************************************************************)
(* POST /sessions.                                                         *)
(***************************************************************************)
Refuse(s) == creation' = [creation EXCEPT ![s] = "refused"]

CreateCheck(s) ==
  /\ creation[s] = "none"
  /\ IF closed THEN Refuse(s)
     ELSE creation' = [creation EXCEPT ![s] = "checked"]
  /\ UNCHANGED <<dir, status, pool, Life, Run, Trace, Follow, Mark>>

(* The recorder makes the directory, then the graph is built and the input  *)
(* validated; a request refused here takes its directory away.              *)
CreateBuild(s) ==
  /\ creation[s] = "checked"
  /\ creation' = [creation EXCEPT ![s] = "built"]
  /\ dir' = [dir EXCEPT ![s] = TRUE]
  /\ UNCHANGED <<status, pool, Life, Run, Trace, Follow, Mark>>

CreateInvalid(s) ==
  /\ creation[s] = "built"
  /\ Refuse(s)
  /\ dir' = [dir EXCEPT ![s] = FALSE]
  /\ UNCHANGED <<status, pool, Life, Run, Trace, Follow, Mark>>

(* Mutant: shutdown is looked for once.                                     *)
CreateSubmit_Unchecked(s) ==
  /\ creation[s] = "built"
  /\ creation' = [creation EXCEPT ![s] = "accepted"]
  /\ status' = [status EXCEPT ![s] = "queued"]
  /\ pool' = IF down = "no" THEN Append(pool, s) ELSE pool
  /\ UNCHANGED <<dir, Life, Run, Trace, Follow, Mark>>

(* shutdown() can land between the check and here.                          *)
CreateSubmit(s) ==
  /\ creation[s] = "built"
  /\ IF closed THEN Refuse(s) /\ UNCHANGED <<status, pool>>
     ELSE /\ creation' = [creation EXCEPT ![s] = "accepted"]
          /\ status' = [status EXCEPT ![s] = "queued"]
          /\ pool' = Append(pool, s)
  /\ UNCHANGED <<dir, Life, Run, Trace, Follow, Mark>>

(* POST /sessions/{id}/events: an interrupt that applied.                   *)
Interrupt(s) ==
  /\ creation[s] = "accepted" /\ status[s] \notin Terminal /\ ~interrupt[s]
  /\ interrupt' = [interrupt EXCEPT ![s] = TRUE]
  /\ flaggedAt' = [flaggedAt EXCEPT ![s] = step[s]]
  /\ UNCHANGED <<status, pool, Life, Request, Run, Trace, Follow>>

(***************************************************************************)
(* _run, on a worker.                                                      *)
(***************************************************************************)
(* Mutant: a session interrupted in the queue is left as it is.             *)
Begin_Leaves(s) ==
  /\ pool # <<>> /\ Head(pool) = s /\ Cardinality(Busy) < MaxWorkers
  /\ pool' = Tail(pool)
  /\ IF interrupt[s] THEN work' = [work EXCEPT ![s] = "gone"] /\ UNCHANGED status
     ELSE /\ status' = [status EXCEPT ![s] = "running"]
          /\ work' = [work EXCEPT ![s] = "chunk"]
  /\ UNCHANGED <<step, node, outcome, Life, Request, Trace, Follow, Mark>>

Begin(s) ==
  /\ pool # <<>> /\ Head(pool) = s /\ Cardinality(Busy) < MaxWorkers
  /\ pool' = Tail(pool)
  /\ IF interrupt[s]
     THEN /\ status' = [status EXCEPT ![s] = "interrupted"]
          /\ work' = [work EXCEPT ![s] = "gone"]
     ELSE /\ status' = [status EXCEPT ![s] = "running"]
          /\ work' = [work EXCEPT ![s] = "chunk"]
  /\ UNCHANGED <<step, node, outcome, Life, Request, Trace, Follow, Mark>>

Leave(s, how) ==
  /\ work' = [work EXCEPT ![s] = "ending"]
  /\ outcome' = [outcome EXCEPT ![s] = how]

(* Mutant: the driver looks at the flag before the first superstep only.    *)
Chunk_Once(s) ==
  /\ work[s] = "chunk"
  /\ IF interrupt[s] /\ step[s] = 0 THEN Leave(s, "interrupted")
     ELSE work' = [work EXCEPT ![s] = "resume"] /\ UNCHANGED outcome
  /\ UNCHANGED <<status, pool, step, node, Life, Request, Trace, Follow, Mark>>

(* A chunk of the stream: the input, or the state a superstep left.         *)
Chunk(s) ==
  /\ work[s] = "chunk"
  /\ IF interrupt[s] THEN Leave(s, "interrupted")
     ELSE work' = [work EXCEPT ![s] = "resume"] /\ UNCHANGED outcome
  /\ UNCHANGED <<status, pool, step, node, Life, Request, Trace, Follow, Mark>>

NextStep(s) ==
  /\ work[s] = "resume" /\ step[s] < MaxSteps
  /\ work' = [work EXCEPT ![s] = "running"]
  /\ step' = [step EXCEPT ![s] = @ + 1]
  /\ node' = [node EXCEPT ![s] = [n \in Nodes |-> "ready"]]
  /\ UNCHANGED <<status, pool, outcome, Life, Request, Trace, Follow, Mark>>

GraphEnds(s) ==
  /\ work[s] = "resume"
  /\ Leave(s, "succeeded")
  /\ UNCHANGED <<status, pool, step, node, Life, Request, Trace, Follow, Mark>>

(* A node's event: the line is written, then the subscriber is called.      *)
NodeWrites(s, n) ==
  /\ work[s] \in {"running", "failing"} /\ node[s][n] = "ready"
  /\ disk' = [disk EXCEPT ![s] = Append(@, <<step[s], n>>)]
  /\ node' = [node EXCEPT ![s][n] = "written"]
  /\ UNCHANGED <<status, pool, work, step, outcome, events, Life, Request, Follow, Mark>>

(* Mutant: the subscriber hears of a run only while all goes well.          *)
NodePublishes_Running(s, n) ==
  /\ node[s][n] = "written"
  /\ events' = [events EXCEPT ![s] = IF work[s] = "running" THEN Append(@, <<step[s], n>>) ELSE @]
  /\ node' = [node EXCEPT ![s][n] = "done"]
  /\ UNCHANGED <<status, pool, work, step, outcome, disk, Life, Request, Follow, Mark>>

NodePublishes(s, n) ==
  /\ node[s][n] = "written"
  /\ events' = [events EXCEPT ![s] = Append(@, <<step[s], n>>)]
  /\ node' = [node EXCEPT ![s][n] = "done"]
  /\ UNCHANGED <<status, pool, work, step, outcome, disk, Life, Request, Follow, Mark>>

StepDone(s) ==
  /\ work[s] = "running" /\ \A n \in Nodes : node[s][n] = "done"
  /\ work' = [work EXCEPT ![s] = "chunk"]
  /\ UNCHANGED <<status, pool, step, node, outcome, Life, Request, Trace, Follow, Mark>>

(* A node raised, or the budget ran out.                                    *)
NodeRaises(s) ==
  /\ work[s] = "running" /\ \E n \in Nodes : node[s][n] # "done"
  /\ work' = [work EXCEPT ![s] = "failing"]
  /\ outcome' = [outcome EXCEPT ![s] = "failed"]
  /\ UNCHANGED <<status, pool, step, node, Life, Request, Trace, Follow, Mark>>

(* The driver joins the nodes' threads; those not yet begun are cancelled.  *)
Joined(s) ==
  /\ work[s] = "failing" /\ \A n \in Nodes : node[s][n] # "written"
  /\ work' = [work EXCEPT ![s] = "ending"]
  /\ UNCHANGED <<status, pool, step, node, outcome, Life, Request, Trace, Follow, Mark>>

(* Mutant: shutdown() waits for the workers with the lock in its hand.      *)
Finish_LockHeld(s) ==
  /\ work[s] = "ending" /\ down # "waiting"
  /\ status' = [status EXCEPT ![s] = outcome[s]]
  /\ work' = [work EXCEPT ![s] = "gone"]
  /\ UNCHANGED <<pool, step, node, outcome, Life, Request, Trace, Follow, Mark>>

(* _finish, under the lock: the result is shaped, the session is over.      *)
Finish(s) ==
  /\ work[s] = "ending"
  /\ status' = [status EXCEPT ![s] = outcome[s]]
  /\ work' = [work EXCEPT ![s] = "gone"]
  /\ UNCHANGED <<pool, step, node, outcome, Life, Request, Trace, Follow, Mark>>

(* The shaping raises: it is outside the try, and nobody reads the future.  *)
FinishRaises(s) ==
  /\ Unshapeable
  /\ work[s] = "ending" /\ outcome[s] # "failed"
  /\ work' = [work EXCEPT ![s] = "gone"]
  /\ UNCHANGED <<status, pool, step, node, outcome, Life, Request, Trace, Follow, Mark>>

(***************************************************************************)
(* shutdown().                                                             *)
(***************************************************************************)
Shutdown ==
  /\ ~closed
  /\ closed' = TRUE
  /\ down' = "draining"
  /\ interrupt' = [s \in Sessions |-> interrupt[s] \/ (creation[s] = "accepted"
                                                        /\ status[s] \notin Terminal)]
  /\ flaggedAt' = [s \in Sessions |-> IF interrupt'[s] /\ ~interrupt[s] THEN step[s]
                                      ELSE flaggedAt[s]]
  /\ UNCHANGED <<status, pool, Request, Run, Trace, Follow>>

CancelFutures ==
  /\ down = "draining"
  /\ pool' = <<>>
  /\ down' = "waiting"
  /\ UNCHANGED <<closed, status, Request, Run, Trace, Follow, Mark>>

ShutdownEnds ==
  /\ down = "waiting"
  /\ Patient => Busy = {}
  /\ down' = "done"
  /\ status' = [s \in Sessions |-> IF creation[s] = "accepted" /\ status[s] \notin Terminal
                                   THEN "interrupted" ELSE status[s]]
  /\ UNCHANGED <<closed, pool, Request, Run, Trace, Follow, Mark>>

(***************************************************************************)
(* GET /sessions/{id}/stream.                                              *)
(***************************************************************************)
Set(s, c) == client' = [client EXCEPT ![s] = c]

Connect(s, cursor) ==
  /\ creation[s] = "accepted" /\ client[s].state = "off"
  /\ Set(s, [client[s] EXCEPT !.state = "open", !.from = cursor, !.position = cursor])
  /\ UNCHANGED <<drops, status, pool, Life, Request, Run, Trace, Mark>>

(* Mutant: the status is read before the events, in a section of its own.   *)
Page_Split(s) ==
  /\ client[s].state = "open"
  /\ IF client[s].final
     THEN Set(s, [client[s] EXCEPT !.state = "reading",
                                   !.page = SubSeq(events[s], @ + 1, Len(events[s]))])
     ELSE Set(s, [client[s] EXCEPT !.state = "reading", !.page = <<>>,
                                   !.final = status[s] \in Terminal])
  /\ UNCHANGED <<drops, status, pool, Life, Request, Run, Trace, Mark>>

(* events_since: the events and the status, read in one critical section.   *)
Page(s) ==
  /\ client[s].state = "open"
  /\ LET new == SubSeq(events[s], client[s].position + 1, Len(events[s]))
         over == status[s] \in Terminal
     IN /\ new # <<>> \/ over
        /\ Set(s, [client[s] EXCEPT !.state = "reading", !.page = new, !.final = over])
  /\ UNCHANGED <<drops, status, pool, Life, Request, Run, Trace, Mark>>

Frame(s) ==
  /\ client[s].state = "reading" /\ client[s].page # <<>>
  /\ Set(s, [client[s] EXCEPT !.page = Tail(@), !.position = @ + 1,
                              !.got = Append(@, Head(client[s].page))])
  /\ UNCHANGED <<drops, status, pool, Life, Request, Run, Trace, Mark>>

PageDone(s) ==
  /\ client[s].state = "reading" /\ client[s].page = <<>>
  /\ Set(s, [client[s] EXCEPT !.state = IF client[s].final THEN "done" ELSE "open"])
  /\ UNCHANGED <<drops, status, pool, Life, Request, Run, Trace, Mark>>

(* The last-event-id counts when the request asks for no cursor.            *)
Resume(c) == IF c.from # 0 THEN c.from ELSE c.position

(* The connection is lost; the client asks again, as it asked first, and    *)
(* names the last frame it saw.                                             *)
Reconnect(s) ==
  /\ client[s].state \in {"open", "reading"} /\ drops < MaxDrops
  /\ drops' = drops + 1
  /\ Set(s, [client[s] EXCEPT !.state = "open", !.page = <<>>, !.final = FALSE,
                              !.position = Resume(client[s])])
  /\ UNCHANGED <<status, pool, Life, Request, Run, Trace, Mark>>

Init ==
  /\ closed = FALSE /\ down = "no"
  /\ creation = [s \in Sessions |-> "none"]
  /\ dir = [s \in Sessions |-> FALSE]
  /\ status = [s \in Sessions |-> "none"]
  /\ interrupt = [s \in Sessions |-> FALSE]
  /\ outcome = [s \in Sessions |-> "none"]
  /\ pool = <<>>
  /\ work = [s \in Sessions |-> "none"]
  /\ step = [s \in Sessions |-> 0]
  /\ node = [s \in Sessions |-> [n \in Nodes |-> "done"]]
  /\ disk = [s \in Sessions |-> <<>>]
  /\ events = [s \in Sessions |-> <<>>]
  /\ client = [s \in Sessions |-> Off]
  /\ drops = 0
  /\ flaggedAt = [s \in Sessions |-> 0]

Create(s) == CreateCheck(s) \/ CreateBuild(s) \/ CreateInvalid(s) \/ CreateSubmit(s)

Work(s) ==
  \/ Begin(s) \/ Chunk(s) \/ NextStep(s) \/ GraphEnds(s)
  \/ (\E n \in Nodes : NodeWrites(s, n) \/ NodePublishes(s, n))
  \/ StepDone(s) \/ NodeRaises(s) \/ Joined(s) \/ Finish(s) \/ FinishRaises(s)

Stopping == Shutdown \/ CancelFutures \/ ShutdownEnds

Stream(s) == Page(s) \/ Frame(s) \/ PageDone(s)

Next ==
  \/ \E s \in Sessions : \/ Create(s) \/ Interrupt(s) \/ Work(s) \/ Stream(s) \/ Reconnect(s)
  \/ \E s \in Followed, cursor \in Cursors : Connect(s, cursor)
  \/ Stopping

Spec == Init /\ [][Next]_vars

(* Workers and streams go on; a node returns or its budget ends it.  What   *)
(* shutdown() has begun goes on, a worker permitting.                       *)
FairSpec ==
  /\ Spec
  /\ \A s \in Sessions : WF_vars(Work(s)) /\ WF_vars(Stream(s))
  /\ WF_vars(CancelFutures \/ ShutdownEnds)

(***************************************************************************)
(* Properties.                                                             *)
(***************************************************************************)
Event == (1..MaxSteps) \X Nodes

(* The values the variables range over.                                     *)
TypeOK ==
  /\ closed \in BOOLEAN /\ down \in {"no", "draining", "waiting", "done"}
  /\ closed <=> down # "no"
  /\ creation \in [Sessions -> {"none", "checked", "built", "accepted", "refused"}]
  /\ dir \in [Sessions -> BOOLEAN]
  /\ status \in [Sessions -> Terminal \cup {"none", "queued", "running"}]
  /\ \A s \in Sessions : status[s] = "none" <=> creation[s] # "accepted"
  /\ interrupt \in [Sessions -> BOOLEAN]
  /\ outcome \in [Sessions -> Terminal \cup {"none"}]
  /\ pool \in Seq(Sessions)
  /\ work \in [Sessions -> {"none", "chunk", "resume", "running", "failing", "ending", "gone"}]
  /\ step \in [Sessions -> 0..MaxSteps] /\ flaggedAt \in [Sessions -> 0..MaxSteps]
  /\ node \in [Sessions -> [Nodes -> {"ready", "written", "done"}]]
  /\ disk \in [Sessions -> Seq(Event)] /\ events \in [Sessions -> Seq(Event)]
  /\ client \in [Sessions -> [state : {"off", "open", "reading", "done"}, from : Nat,
                              position : Nat, page : Seq(Event), final : BOOLEAN,
                              got : Seq(Event)]]
  /\ drops \in 0..MaxDrops

(* "A stream that stops on it cannot have dropped one": a client that was   *)
(* told the stream is done has every event from its cursor on, once and in  *)
(* order.  (One that gave a cursor and lost its connection gets frames      *)
(* again when it comes back, since Last-Event-ID is only read when the      *)
(* cursor is 0: it is not spoken of.)                                       *)
DoneIsWhole ==
  \A s \in Sessions :
    client[s].state = "done" /\ (drops = 0 \/ client[s].from = 0) =>
      client[s].got = SubSeq(events[s], client[s].from + 1, Len(events[s]))

(* An acknowledged interrupt, or a shutdown, lets at most one more          *)
(* superstep begin.                                                         *)
InterruptIsSoon == \A s \in Sessions : interrupt[s] => step[s] <= flaggedAt[s] + 1

(* The stream's events are the trace file's.                                *)
SameEvents ==
  \A s \in Sessions : status[s] \in Terminal => ToSet(events[s]) = ToSet(disk[s])

(* A client has been told of all that happened and of nothing else.         *)
StreamIsTrue == DoneIsWhole /\ SameEvents

(* No session slips past a shutdown: when it returns, all are over.  (With  *)
(* the type invariant.)                                                     *)
ShutDownIsOver ==
  /\ TypeOK
  /\ down = "done" => \A s \in Sessions : creation[s] = "accepted" => status[s] \in Terminal

(* Whoever told a session to stop, or all of them, is obeyed.               *)
StopsAreObeyed == InterruptIsSoon /\ ShutDownIsOver

(* Every session that was accepted ends, but for one whose result could not *)
(* be shaped: its worker is gone, and it stays running.                     *)
Unshaped(s) == work[s] = "gone" /\ status[s] = "running"

SessionsEnd ==
  \A s \in Sessions : creation[s] = "accepted" ~> status[s] \in Terminal \/ Unshaped(s)

(* shutdown() returns.                                                      *)
ShutdownReturns == closed ~> down = "done"

(* Nothing hangs: neither a session nor the shutdown.                       *)
EverythingEnds == SessionsEnd /\ ShutdownReturns
=============================================================================
