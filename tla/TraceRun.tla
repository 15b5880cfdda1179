------------------------------- MODULE TraceRun -------------------------------
(***************************************************************************)
(* One planned run, from the events it writes: GovernedLoop's plan,        *)
(* admission, topology, approval, round and stop events, the kernel's      *)
(* start, end and error of every node and the model and stop events of     *)
(* agents. The properties say what the readers of TraceLog make of every   *)
(* prefix of the file, which is what a live page shows.                    *)
(*                                                                         *)
(* A round's nodes run at once. Its graph is its own; its thread is too,   *)
(* so that the steps of every round start from one: a node takes the next  *)
(* when it is entered, and so does everything an agent in it writes.       *)
(***************************************************************************)
EXTENDS TraceLog

CONSTANTS
  Names,      \* the nodes of the first round's plan
  Later,      \* those of the later ones' (bound)
  Priced,     \* the nodes whose models state a price, or leave it out
  MaxRounds,  \* rounds (bound)
  MaxCalls    \* model calls of one node (bound)

VARIABLES
  events,  \* the trace file
  naming,  \* [own: an agent has its node's name, reused: a later round has the same names]
  round,   \* the round under way, 0 before the first
  at,      \* where the loop is
  nodes,   \* [pending, running, done, errored] for each node of the round
  calls,   \* model calls made by each node
  paid,    \* those of them that stated a price
  entered, \* the step each node was entered at, 0 before
  latest,  \* the last step of the round's graph
  stopped, \* the agents of the round that have written their stop event
  spent    \* tokens charged to the run

vars == <<events, naming, round, at, nodes, calls, paid, entered, latest, stopped, spent>>

Plan == IF round <= 1 THEN Names ELSE Later

NodeOf(n) == <<n, IF naming.reused THEN 0 ELSE round>>
AgentOf(n) == IF naming.own THEN NodeOf(n) ELSE <<"kind", 0>>

Event(phase, graph, node, step, tokens, price, reason) ==
  [phase |-> phase, graph |-> graph, node |-> node, step |-> step, attempt |-> 1,
   tokens |-> tokens, paid |-> price, reason |-> reason, shape |-> {}]

LoopStep == Len(SelectSeq(events, LAMBDA e : e.graph = 0)) + 1
LoopEvent(phase, tokens) ==
  Event(phase, 0, <<phase, 0>>, LoopStep, tokens, tokens, FALSE)

(* topology_delta: the nodes and edges of the round's graph.                *)
Start == <<"__start__", 0>>
End == <<"__end__", 0>>
Drawn(label) ==
  [nodes |-> {NodeOf(n) : n \in Plan}, label |-> label,
   edges |-> {<<Start, NodeOf(n)>> : n \in Plan} \union {<<NodeOf(n), End>> : n \in Plan}]
Declares(e, label) == [e EXCEPT !.shape = Drawn(label)]
Topology(label) == Declares(Event("topology", round, <<"topology", 0>>, 0, 0, 0, FALSE), label)
Write(es) == events' = events \o es

Init ==
  /\ events = <<>> /\ naming \in [own : BOOLEAN, reused : BOOLEAN]
  /\ round = 0 /\ at = "boundary" /\ spent = 0
  /\ nodes = [n \in Names |-> "pending"]
  /\ calls = [n \in Names |-> 0] /\ paid = [n \in Names |-> 0] /\ stopped = {}
  /\ entered = [n \in Names |-> 0] /\ latest = 0

(* A round begins: the planner is asked; an unparseable answer costs too.   *)
PlannerAnswers ==
  /\ at = "boundary" /\ round < MaxRounds
  /\ round' = round + 1 /\ at' = "proposed"
  /\ nodes' = [n \in Plan' |-> "pending"]
  /\ calls' = [n \in Plan' |-> 0] /\ paid' = [n \in Plan' |-> 0] /\ stopped' = {}
  /\ entered' = [n \in Plan' |-> 0] /\ latest' = 0
  /\ spent' = spent + 1
  /\ Write(<<LoopEvent("plan", 1)>>)
  /\ UNCHANGED naming

PlannerFails ==
  /\ at = "proposed" /\ at' = "closing"
  /\ UNCHANGED <<events, naming, round, nodes, calls, paid, entered, latest, stopped, spent>>

(* The checker's verdict; an admitted plan is built and shown.              *)
CheckerRejects ==
  /\ at = "proposed" /\ at' = "closing"
  /\ Write(<<LoopEvent("admission", 0)>>)
  /\ UNCHANGED <<naming, round, nodes, calls, paid, entered, latest, stopped, spent>>

CheckerAdmits ==
  /\ at = "proposed" /\ at' = "parked"
  /\ Write(<<LoopEvent("admission", 0),
             Topology({round}),
             [Declares(LoopEvent("approval_request", 0), {round}) EXCEPT !.step = @ + 1]>>)
  /\ UNCHANGED <<naming, round, nodes, calls, paid, entered, latest, stopped, spent>>

(* The gate's answer; one that raises is written as a denial.               *)
GateAnswers ==
  /\ at = "parked" /\ at' \in {"approved", "stopping"}
  /\ Write(<<LoopEvent("approval_response", 0)>>)
  /\ UNCHANGED <<naming, round, nodes, calls, paid, entered, latest, stopped, spent>>

(* invoke states the shape once more, without a label.                      *)
GraphStarts ==
  /\ at = "approved" /\ at' = "running"
  /\ Write(<<Topology({})>>)
  /\ UNCHANGED <<naming, round, nodes, calls, paid, entered, latest, stopped, spent>>

(* _enter: a node is started, or refused by the budget before it starts.    *)
NodeEnters(n) ==
  /\ at = "running" /\ nodes[n] = "pending"
  /\ latest' = latest + 1 /\ entered' = [entered EXCEPT ![n] = latest']
  /\ \/ /\ nodes' = [nodes EXCEPT ![n] = "running"]
        /\ Write(<<Event("start", round, NodeOf(n), latest', 0, 0, FALSE)>>)
     \/ /\ nodes' = [nodes EXCEPT ![n] = "errored"]
        /\ Write(<<Event("error", round, NodeOf(n), latest', 0, 0, FALSE)>>)
  /\ UNCHANGED <<naming, round, at, calls, paid, stopped, spent>>

NodeCallsModel(n) ==
  /\ at = "running" /\ nodes[n] = "running" /\ n \notin stopped /\ calls[n] < MaxCalls
  /\ calls' = [calls EXCEPT ![n] = @ + 1] /\ spent' = spent + 1 /\ latest' = latest + 1
  /\ \E price \in 0..(IF n \in Priced THEN 1 ELSE 0) :
       /\ paid' = [paid EXCEPT ![n] = @ + price]
       /\ Write(<<Event("model", round, AgentOf(n), latest', 1, price, FALSE)>>)
  /\ UNCHANGED <<naming, round, at, nodes, entered, stopped>>

AgentStops(n) ==
  /\ at = "running" /\ nodes[n] = "running" /\ n \notin stopped
  /\ stopped' = stopped \union {n} /\ latest' = latest + 1
  /\ Write(<<Event("stop", round, AgentOf(n), latest', 0, 0, TRUE)>>)
  /\ UNCHANGED <<naming, round, at, nodes, calls, paid, entered, spent>>

(* The node's own event carries all it spent, its model calls included, and *)
(* the sum of the prices they stated, if one did.                           *)
NodeEnds(n) ==
  /\ at = "running" /\ nodes[n] = "running"
  /\ \E ok \in BOOLEAN :
       /\ ok => n \in stopped
       /\ nodes' = [nodes EXCEPT ![n] = IF ok THEN "done" ELSE "errored"]
       /\ Write(<<Event(IF ok THEN "end" ELSE "error", round, NodeOf(n), entered[n], calls[n],
                        paid[n], FALSE)>>)
  /\ UNCHANGED <<naming, round, at, calls, paid, entered, latest, stopped, spent>>

(* The subgraph is over: every node has ended, or one has failed and the    *)
(* others were never scheduled.                                             *)
SubgraphReturns ==
  /\ at = "running" /\ \A n \in Plan : nodes[n] # "running"
  /\ \/ \A n \in Plan : nodes[n] # "pending"
     \/ \E n \in Plan : nodes[n] = "errored"
  /\ at' \in {"closing", "stopping"}
  /\ UNCHANGED <<events, naming, round, nodes, calls, paid, entered, latest, stopped, spent>>

(* _record, and the run's own stop event after the last round.              *)
RoundCloses ==
  /\ at \in {"closing", "stopping"}
  /\ at' = IF at = "closing" /\ round < MaxRounds THEN "boundary" ELSE "stop"
  /\ Write(<<LoopEvent("round", 0)>>)
  /\ UNCHANGED <<naming, round, nodes, calls, paid, entered, latest, stopped, spent>>

RunStops ==
  /\ at \in {"boundary", "stop"} /\ at' = "over"
  /\ Write(<<LoopEvent("stop", 0)>>)
  /\ UNCHANGED <<naming, round, nodes, calls, paid, entered, latest, stopped, spent>>

Next ==
  \/ PlannerAnswers \/ PlannerFails \/ CheckerRejects \/ CheckerAdmits \/ GateAnswers \/ GraphStarts
  \/ \E n \in Plan : NodeEnters(n) \/ NodeCallsModel(n) \/ AgentStops(n) \/ NodeEnds(n)
  \/ SubgraphReturns \/ RoundCloses \/ RunStops

Spec == Init /\ [][Next]_vars

(***************************************************************************)
(* Properties.                                                             *)
(***************************************************************************)
TypeOK ==
  /\ at \in {"boundary", "proposed", "parked", "approved", "running", "closing", "stopping", "stop", "over"}
  /\ round \in 0..MaxRounds /\ spent \in Nat
  /\ nodes \in [Plan -> {"pending", "running", "done", "errored"}]
  /\ calls \in [Plan -> 0..MaxCalls] /\ paid \in [Plan -> 0..MaxCalls] /\ stopped \subseteq Plan
  /\ entered \in [Plan -> 0..latest] /\ \A n \in Plan : entered[n] = 0 <=> nodes[n] = "pending"

Uncounted == {n \in Plan : nodes[n] = "running"}
Outstanding == FoldFunctionOnSet(+, 0, calls, Uncounted)
Unambiguous == naming.own /\ ~naming.reused

(* Whatever was read so far, a replay counts every token of the nodes that  *)
(* have ended once, and summarize agrees with it, when an agent has its     *)
(* node's name and no later round uses that name again.                     *)
CountedOnce ==
  Unambiguous =>
    LET tokens == Tokens(Replay(events))
    IN tokens = spent - Outstanding /\ Summarized(events) = tokens

(* The bill, at every moment: it holds the price of each call that stated   *)
(* one, but for nodes still running, and what was priced, what nobody       *)
(* priced and what a node's one price hides of its calls without a price    *)
(* add up to the tokens counted, failed nodes included.                     *)
Hidden(run) ==
  LET half == SelectSeq(run.order, LAMBDA x : x.paid > 0) IN SumOver(half) - PaidIn(half)

Stated == PaidIn(SelectSeq(events, LAMBDA e : e.phase \in {"model", "plan"}))

BillIsTrue ==
  LET run == Replay(events) IN
  /\ Recorded(run) + Unpriced(run) + Hidden(run) = Tokens(run)
  /\ Unambiguous => Recorded(run) = Stated - FoldFunctionOnSet(+, 0, paid, Uncounted)

(* The page tells the truth about a run at every moment: each node of the   *)
(* round as it is in the round, whatever the other rounds called theirs,    *)
(* what it has spent so far, the round's label though the kernel states     *)
(* the graph again, the spans it draws open, whether a person is asked for, *)
(* and that the run is over once it is.                                     *)
ShownSpent(n) == IF naming.own \/ n \notin Uncounted THEN calls[n] ELSE 0

PageIsTrue ==
  LET view == View(events)
      here == Len(Declared(events))
      id(n) == IF here > 1 THEN <<here, NodeOf(n)>> ELSE <<NodeOf(n)>>
  IN /\ at \in {"running", "closing"} /\ nodes # [n \in Plan |-> "pending"] =>
          /\ {v \in view.nodes : v.id \in {id(n) : n \in Plan}} =
               {[id |-> id(n), label |-> NodeOf(n), status |-> nodes[n], live |-> IF n \in Uncounted THEN ShownSpent(n) ELSE 0,
                 tokens |-> IF n \in Uncounted THEN 0 ELSE calls[n],
                 executions |-> IF nodes[n] \in {"done", "errored"} THEN 1 ELSE 0] : n \in Plan}
          /\ here > 1 => view.clusters[here] = {round}
     /\ OpenSpans(events) = {<<round, <<NodeOf(n), entered[n], 1>>>> : n \in Uncounted}
     /\ Awaiting(events) = (at = "parked")
     /\ at = "over" => Finished(events)

(* A person in Slack, one at the page and one with the diagram see the same *)
(* of every node of every round, and who is asked to approve sees the plan  *)
(* of the round that waits, no more marks than it, and no node that runs.   *)
PicturesAgree ==
  LET view == View(events) slack == Progress(events) drawn == Mermaid(events) IN
  /\ at = "parked" => slack.plan = {PlanLines([shape |-> Drawn({})])} /\ Uncounted = {}
  /\ at # "parked" /\ Declared(events) # <<>> =>
       {<<v.label, v.status>> : v \in view.nodes} = {<<m[2], m[3]>> : m \in slack.marks}
  /\ Declared(events) # <<>> =>
       /\ drawn.class = {<<v.id, v.status>> : v \in view.nodes}
       /\ drawn.edges = view.edges
       /\ {f[2] : f \in drawn.failed} = {v.label : v \in {w \in view.nodes : w.status = "errored"}}
  /\ Unambiguous => slack.nodes - slack.done = Cardinality(Uncounted) /\ slack.tokens = spent - Outstanding

(* A trace that declares no graph, as an older one does not, still shows    *)
(* every node that was entered: the open ones too, and what they spent.     *)
Undeclared == SelectSeq(events, LAMBDA e : e.phase # "topology")

UndeclaredIsShown ==
  Unambiguous /\ at = "running" =>
    LET view == View(Undeclared)
        entrants == {n \in Plan : nodes[n] # "pending"}
    IN IF Replay(events).order = <<>> THEN view.kind = "empty"
       ELSE /\ {<<v.label, v.status, v.tokens + v.live>> : v \in {w \in view.nodes : w.label \in {NodeOf(n) : n \in Plan}}}
                 = {<<NodeOf(n), nodes[n], calls[n]>> : n \in entrants}
            /\ {f[2] : f \in Mermaid(Undeclared).failed} = {v.label : v \in {w \in view.nodes : w.status = "errored"}}

(* What is exported as spans adds up to what the run's own span says, each  *)
(* parent comes before its children, and a node is open in it while it runs. *)
SpansAddUp ==
  LET spans == Spans(events)
      top == SelectSeq(spans, LAMBDA x : x.parent = Run)
  IN /\ spans[1].tokens = SumOver(top)
     /\ \A i \in 2..Len(spans) : \E j \in 1..i - 1 : spans[j].id = spans[i].parent
     /\ Unambiguous =>
          {x.name : x \in {y \in ToSet(spans) : y.status = "unset"}} = {NodeOf(n) : n \in Uncounted}

(* Whoever reads the trace of a run, whenever: what it spent, what that     *)
(* cost, and what is going on.                                              *)
ReadersAreRight ==
  /\ TypeOK /\ CountedOnce /\ BillIsTrue /\ PageIsTrue /\ PicturesAgree /\ UndeclaredIsShown
  /\ SpansAddUp

(* Said in the repository and refuted by TLC; README.md tells each.         *)

(* "a phase's stop" must not end the run: the page says done only when it   *)
(* is over.                                                                 *)
OpenUntilOver == Finished(events) => at = "over"

(* "The two sets are disjoint, so nothing is counted twice": a replay never *)
(* counts more than was spent, whatever the agents are called.              *)
NothingTwice == Tokens(Replay(events)) <= spent

(* "True when no counted token was left unpriced" (RunCost.complete): a bill *)
(* without unpriced tokens prices every token it counts.                    *)
CompleteIsWhole == LET run == Replay(events) IN Unpriced(run) = 0 => Recorded(run) = Tokens(run)
=============================================================================
