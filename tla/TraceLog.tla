------------------------------ MODULE TraceLog -------------------------------
(***************************************************************************)
(* What grapharc/observe and the live page make of a run's events: the     *)
(* executions a replay pairs them into, totals and prices, node statuses,  *)
(* and the page's own flags.                                               *)
(*                                                                         *)
(* An event is [phase, graph, node, step, attempt, tokens, paid, reason,   *)
(* shape]. A sub-step's node is the part before the colon; paid is the     *)
(* provider's price on it, a unit for each token of a call that stated     *)
(* one, and 0 when none did; reason says whether its delta holds a         *)
(* termination_reason; shape is what it declares: nodes, edges, and the    *)
(* round's label if it has one.                                            *)
(***************************************************************************)
EXTENDS Integers, Sequences, FiniteSets, SequencesExt, TLC

NodePhases == {"start", "end", "error"}
TerminalPhases == {"end", "error"}
LoopPhases == {"plan", "admission", "round"}
ShapePhases == {"topology", "approval_request", "approval_response"}

Key(e) == <<e.node, e.step, e.attempt>>
NoKey == <<>>

(* _attach: the open execution of that name, else the only one open.        *)
Attach(open, e) ==
  LET named == {i \in DOMAIN open : open[i][1] = e.node} IN
  IF named # {} THEN open[Max(named)]
  ELSE IF Len(open) = 1 THEN open[1] ELSE NoKey

(* _build_executions, an event at a time.                                   *)
Opened(e) ==
  [key |-> Key(e), tokens |-> 0, paid |-> 0, completed |-> FALSE, ok |-> FALSE, subs |-> <<>>]

Closed(x, e) ==
  [x EXCEPT !.tokens = e.tokens, !.paid = e.paid, !.completed = TRUE, !.ok = e.phase = "end"]

OnKey(order, key) == CHOOSE i \in DOMAIN order : order[i].key = key

(* Mutant: only a success closes it.                                        *)
StillOpen_Errors(open, key, e) ==
  SelectSeq(open, LAMBDA k : k # key \/ e.phase = "error")

StillOpen(open, key, e) == SelectSeq(open, LAMBDA k : k # key)

Build(run, e) ==
  LET key == IF e.phase \in NodePhases THEN Key(e) ELSE Attach(run.open, e)
      known == \E i \in DOMAIN run.order : run.order[i].key = key
      order == IF known THEN run.order ELSE Append(run.order, Opened(e))
  IN CASE e.phase \notin NodePhases /\ key = NoKey ->
            [run EXCEPT !.orphans = Append(@, e)]
       [] e.phase \notin NodePhases ->
            [run EXCEPT !.order[OnKey(run.order, key)].subs = Append(@, e)]
       [] e.phase = "start" ->
            [run EXCEPT !.order = order, !.open = IF known THEN @ ELSE Append(@, key)]
       [] OTHER ->
            [run EXCEPT !.order = [order EXCEPT ![OnKey(order, key)] = Closed(@, e)],
                        !.open = StillOpen(@, key, e)]

(* A replay reads the events in order; a recursive function where FoldLeft  *)
(* would look for the next index anew at every event.                       *)
Replay(events) ==
  LET upTo[i \in 0..Len(events)] ==
        IF i = 0 THEN [order |-> <<>>, open |-> <<>>, orphans |-> <<>>]
        ELSE Build(upTo[i - 1], events[i])
  IN upTo[Len(events)]

SumOver(seq) ==
  LET upTo[i \in 0..Len(seq)] == IF i = 0 THEN 0 ELSE upTo[i - 1] + seq[i].tokens
  IN upTo[Len(seq)]

PaidIn(seq) == SumOver([i \in DOMAIN seq |-> [tokens |-> seq[i].paid]])

(* ReplayedRun.tokens, and what metrics.summarize counts.                   *)
Tokens(run) == SumOver(run.order) + SumOver(run.orphans)

Summarized(events) ==
  SumOver(SelectSeq(events, LAMBDA e : e.phase \in TerminalPhases))
  + SumOver(Replay(events).orphans)

(* cost._price_run without a rate card, and recorded_cost_usd: what the     *)
(* providers priced, and the tokens of executions nobody priced, failed     *)
(* ones included. One price in an execution is the price of it all.         *)
Recorded(run) == PaidIn(run.order) + PaidIn(run.orphans)

(* Mutant: only executions that succeeded have unpriced tokens.             *)
Unpriced_Succeeded(run) ==
  SumOver(SelectSeq(run.order, LAMBDA x : x.ok /\ x.paid = 0))
  + SumOver(SelectSeq(run.orphans, LAMBDA e : e.paid = 0))

Unpriced(run) ==
  SumOver(SelectSeq(run.order, LAMBDA x : x.completed /\ x.paid = 0))
  + SumOver(SelectSeq(run.orphans, LAMBDA e : e.paid = 0))

(* status.node_states over one graph's events, and its rule.                *)
Status(events, graph, node) ==
  LET own == SelectSeq(events, LAMBDA e : e.graph = graph /\ e.node = node)
      count(phase) == Len(SelectSeq(own, LAMBDA e : e.phase = phase))
      ended == count("end")
  IN IF count("error") > 0 THEN "errored"
     ELSE IF count("start") > ended THEN "running"
     ELSE IF ended > 0 THEN "done" ELSE "pending"

(* latest_topologies, and _planned_lines' own copy: the graphs in the order *)
(* they were declared, each as it was last declared. The kernel states one  *)
(* again without the label the loop gave it, which stays.                    *)
Declared(events) ==
  LET said == SelectSeq(events, LAMBDA e : e.phase = "topology")
      upTo[i \in 0..Len(said)] ==
        IF i = 0 THEN <<>>
        ELSE LET so == upTo[i - 1] IN IF Contains(so, said[i].graph) THEN so ELSE Append(so, said[i].graph)
  IN upTo[Len(said)]

Said(events, graph) == SelectSeq(events, LAMBDA e : e.phase = "topology" /\ e.graph = graph)

Shape(events, graph) ==
  LET labelled == SelectSeq(Said(events, graph), LAMBDA e : e.shape.label # {})
  IN [Last(Said(events, graph)).shape EXCEPT
        !.label = IF labelled = <<>> THEN {} ELSE Last(labelled).shape.label]

(* _node_measures: what the terminal events of a node of a graph say it     *)
(* spent, and, while it runs, what its sub-steps said since the last one.   *)
Measures(events, graph, node) ==
  LET own == {i \in DOMAIN events : events[i].graph = graph /\ events[i].node = node}
      ended == {i \in own : events[i].phase \in TerminalPhases}
      since == {i \in own : \A j \in ended : j < i}
      said(is) == MapThenSumSet(LAMBDA i : events[i].tokens, is)
  IN [tokens |-> said(ended), executions |-> Cardinality(ended),
      live |-> IF Status(events, graph, node) = "running" THEN said(since) ELSE 0]

(* _topology_view: every declared node, with its status in its own graph;   *)
(* ids say the graph when there are several. A planned graph has no fan-out *)
(* whose workers would be drawn as they start.                              *)
TopologyView(events) ==
  LET graphs == Declared(events)
      id(i, n) == IF Len(graphs) > 1 THEN <<i, n>> ELSE <<n>>
      node(i, n) == [id |-> id(i, n), label |-> n, status |-> Status(events, graphs[i], n)]
                      @@ Measures(events, graphs[i], n)
      views(i) == {node(i, n) : n \in Shape(events, graphs[i]).nodes}
      edges(i) == {<<id(i, e[1]), id(i, e[2])>> : e \in Shape(events, graphs[i]).edges}
  IN [kind |-> "topology",
      nodes |-> UNION {views(i) : i \in DOMAIN graphs},
      edges |-> UNION {edges(i) : i \in DOMAIN graphs},
      clusters |-> IF Len(graphs) > 1 THEN [i \in DOMAIN graphs |-> Shape(events, graphs[i]).label]
                   ELSE <<>>]

(* One after another, unless the first failed; the page leaves out those    *)
(* drawn as one node.                                                       *)
Path(seq) == {<<seq[i].id, seq[i + 1].id>> : i \in {j \in 1..Len(seq) - 1 : ~seq[j].failed}}
Chain(seq) == {e \in Path(seq) : e[1] # e[2]}

(* What there is of a run that no node span holds; a lone stop is no path.  *)
Feed(events) ==
  LET feed == SelectSeq(Replay(events).orphans, LAMBDA e : e.phase \notin ShapePhases \union LoopPhases)
  IN IF \A i \in DOMAIN feed : feed[i].phase = "stop" THEN <<>> ELSE feed

(* _feed_view: an event of a feed is a node of its name and step, and only  *)
(* a terminal event has an error here.                                      *)
FeedView(feed) ==
  LET id(e) == <<e.node, e.step>>
      firsts == {i \in DOMAIN feed : \A j \in 1..i - 1 : id(feed[j]) # id(feed[i])}
      node(e) == [id |-> id(e), label |-> e.node, status |-> "done",
                  tokens |-> e.tokens, live |-> 0, executions |-> 1]
  IN [kind |-> "path", nodes |-> {node(feed[i]) : i \in firsts},
      edges |-> Chain([i \in DOMAIN feed |-> [id |-> id(feed[i]), failed |-> FALSE]])]

(* _path_view, of a trace that declares nothing: the executions, open ones  *)
(* included, drawn once for each name and step; else its feed.              *)
PathView(events) ==
  LET order == Replay(events).order
      id(x) == <<x.key[1], x.key[2]>>
      firsts == {i \in DOMAIN order : \A j \in 1..i - 1 : id(order[j]) # id(order[i])}
      failed(x) == x.completed /\ ~x.ok
      node(x) ==
        [id |-> id(x), label |-> x.key[1],
         status |-> IF failed(x) THEN "errored" ELSE IF x.completed THEN "done" ELSE "running",
         tokens |-> x.tokens, live |-> IF x.completed THEN 0 ELSE SumOver(x.subs), executions |-> 1]
  IN IF order = <<>>
     THEN IF Feed(events) = <<>> THEN [kind |-> "empty", nodes |-> {}, edges |-> {}]
          ELSE FeedView(Feed(events))
     ELSE [kind |-> "path", nodes |-> {node(order[i]) : i \in firsts},
          edges |-> Chain([i \in DOMAIN order |-> [id |-> id(order[i]), failed |-> failed(order[i])]])]

(* build_graph_view.                                                        *)
View(events) == IF Declared(events) = <<>> THEN PathView(events) ELSE TopologyView(events)

(* _topology_mermaid: a class for every declared node, a mark for every     *)
(* error of its graph, and a line between the clusters.                     *)
TopologyMermaid(events) ==
  LET graphs == Declared(events)
      id(i, n) == IF Len(graphs) > 1 THEN <<i, n>> ELSE <<n>>
      class(i) == {<<id(i, n), Status(events, graphs[i], n)>> : n \in Shape(events, graphs[i]).nodes}
      edges(i) == {<<id(i, e[1]), id(i, e[2])>> : e \in Shape(events, graphs[i]).edges}
  IN [class |-> UNION {class(i) : i \in DOMAIN graphs},
      edges |-> UNION {edges(i) : i \in DOMAIN graphs},
      failed |-> {<<e.graph, e.node>> : e \in
                    {x \in ToSet(events) : x.phase = "error" /\ x.graph \in ToSet(graphs)}}]

(* to_mermaid: the declared graph, else the terminal events in the order    *)
(* they came, else the feed.                                                *)
Mermaid(events) ==
  LET ended == SelectSeq(events, LAMBDA e : e.phase \in TerminalPhases)
      path == IF ended # <<>> THEN ended ELSE Feed(events)
      step(e) == [id |-> <<e.node, e.step>>, failed |-> e.phase = "error"]
  IN IF Declared(events) # <<>> THEN TopologyMermaid(events)
     ELSE [class |-> {}, edges |-> Path([i \in DOMAIN path |-> step(path[i])]),
           failed |-> {<<e.graph, e.node>> : e \in {x \in ToSet(path) : x.phase = "error"}}]

(* render_progress: the plan that waits for a person, else a mark for every *)
(* declared node (_planned_lines), else for every execution, else the feed. *)
PlanLines(request) == [nodes |-> request.shape.nodes, edges |-> request.shape.edges]

Planned(events) ==
  UNION {{<<g, n, Status(events, g, n)>> : n \in Shape(events, g).nodes} : g \in ToSet(Declared(events))}

(* compose_snapshot.                                                        *)
(* Mutant: a question stays until the run is over.                          *)
Awaiting_Ever(events) == \E e \in ToSet(events) : e.phase = "approval_request"

Awaiting(events) ==
  LET talk == SelectSeq(events, LAMBDA e : e.phase \in {"approval_request", "approval_response"})
  IN talk # <<>> /\ Last(talk).phase = "approval_request"

Progress(events) ==
  LET run == Replay(events)
      requests == SelectSeq(events, LAMBDA e : e.phase = "approval_request")
  IN [plan |-> IF Awaiting(events) THEN {PlanLines(Last(requests))} ELSE {},
      marks |-> IF Awaiting(events) \/ Declared(events) = <<>> THEN {} ELSE Planned(events),
      nodes |-> Len(run.order),
      done |-> Len(SelectSeq(run.order, LAMBDA x : x.completed)),
      tokens |-> Tokens(run)]

(* viewmodel._timeline: the spans no terminal event has closed. An event of *)
(* a graph nobody declared resolves to no node.                             *)
OpenSpans(events) ==
  LET spans(phases) == {<<e.graph, Key(e)>> : e \in
        {x \in ToSet(events) : x.phase \in phases /\ x.graph \in ToSet(Declared(events))}}
  IN spans({"start"}) \ spans(TerminalPhases)

Finished(events) ==
  \/ \E e \in ToSet(events) : e.reason
  \/ \E e \in ToSet(Replay(events).orphans) : e.phase = "stop"

(* summarize_planning: a slot is filled by the planner's and the checker's  *)
(* events and closed by the loop's.                                         *)
InFlight(events) ==
  LET paper == SelectSeq(events, LAMBDA e : e.phase \in {"plan", "admission", "round"})
  IN paper # <<>> /\ Last(paper).phase # "round"

(* A quiet file is idle, unless something is known to be under way; quiet   *)
(* is "no", "some" or "long" (past OPEN_NODE_GRACE_SECONDS).                *)
Active(events, quiet) ==
  \/ quiet = "no"
  \/ /\ ~Finished(events)
     /\ \/ Awaiting(events)
        \/ quiet # "long" /\ (Replay(events).open # <<>> \/ InFlight(events))
(* to_spans: the run, its executions in the order they began with their     *)
(* sub-steps after each, and what no execution holds but for topologies. A  *)
(* span's id is its step and attempt, a sub-step's its phase as well.       *)
Span(id, parent, name, tokens, status) ==
  [id |-> id, parent |-> parent, name |-> name, tokens |-> tokens, status |-> status]

Run == <<"run">>
SubSpan(e, parent) ==
  Span(<<e.step, e.attempt, e.phase>>, parent, e.node, e.tokens, "sub")

NodeSpans(x) ==
  LET id == <<x.key[2], x.key[3]>>
      status == IF ~x.completed THEN "unset" ELSE IF x.ok THEN "ok" ELSE "error"
  IN <<Span(id, Run, x.key[1], x.tokens, status)>> \o [i \in DOMAIN x.subs |-> SubSpan(x.subs[i], id)]

Spans(events) ==
  LET run == Replay(events)
      failed == \E i \in DOMAIN run.order : run.order[i].completed /\ ~run.order[i].ok
      worked == SelectSeq(run.orphans, LAMBDA e : e.phase # "topology")
  IN <<Span(Run, <<>>, "graph", Tokens(run), IF failed THEN "error" ELSE "ok")>>
       \o FlattenSeq([i \in DOMAIN run.order |-> NodeSpans(run.order[i])])
       \o [i \in DOMAIN worked |-> SubSpan(worked[i], Run)]
=============================================================================
