------------------------------ MODULE GraphKernel ------------------------------
(***************************************************************************)
(* runtime/graph.py: a graph is declared, compiled, run superstep by       *)
(* superstep and edited between runs. LangGraph schedules; the wrapper     *)
(* checks what is declared, what every node returns and where it routes.   *)
(*                                                                         *)
(* A declared graph is [dag, static, cond, fan, ghost]: its static edges,  *)
(* the targets of each node's router, the nodes with a dispatcher, and     *)
(* whether a mapping names a node that does not exist. A task is           *)
(* [node, fits]: a node to run, and whether the payload a Send handed it   *)
(* is of its input schema.                                                 *)
(***************************************************************************)
EXTENDS Integers, Sequences, FiniteSets, FiniteSetsExt

CONSTANTS
  Nodes, Fields,
  Entry,         \* the node START leads to
  Declared,      \* the fields each node declares it writes
  MaxNodeRuns    \* the budget's ceiling

VARIABLES
  graph,   \* what was declared
  place,   \* declared, refused, running, over, failed
  tasks,   \* this superstep's tasks
  results, \* what the finished ones returned, once checked
  chan,    \* each field: who wrote it, and whether the value is of its type
  owed,    \* the tasks the last superstep asked for, where that was checked
  count    \* [iterations, depth: supersteps since a node last routed]

graphVars == <<graph, place, tasks, results, chan, owed, count>>

Ghost == "ghost"
End == "END"

ASSUME GraphAssumption ==
  /\ IsFiniteSet(Nodes) /\ Entry \in Nodes
  /\ {Ghost, End, "stray", "nobody"} \intersect Nodes = {}

Task(n) == [node |-> n, fits |-> TRUE]

(* A place to go: a name, or a Send with a payload.                         *)
PlaceAt(n) == [node |-> n, send |-> FALSE, fits |-> TRUE]
SendTo(n, fits) == [node |-> n, send |-> TRUE, fits |-> fits]
Places == {PlaceAt(n) : n \in Nodes \union {End, Ghost}}
          \union {SendTo(n, fits) : n \in Nodes \union {Ghost}, fits \in BOOLEAN}

-------------------------------------------------------------------------------
(* compile: _assert_acyclic's depth-first search of the static edges, and   *)
(* what add_conditional_edge and add_fanout_edge refuse as it is declared.  *)
Adjacent(g, n) == {e[2] : e \in {x \in g.static : x[1] = n}}

Visits(g, n, path) ==
  LET visit[v \in Nodes \X SUBSET Nodes] ==  \* a node, and what is on the path to it
        \/ v[1] \in v[2]
        \/ \E next \in Adjacent(g, v[1]) : visit[<<next, v[2] \union {v[1]}>>]
  IN visit[<<n, path>>]

(* Mutant: the search starts from nodes nothing leads to.                   *)
IsCyclic_Roots(g) ==
  \E n \in {e[1] : e \in g.static} \ {e[2] : e \in g.static} : Visits(g, n, {})

IsCyclic(g) == \E n \in {e[1] : e \in g.static} : Visits(g, n, {})

Refused(g) ==
  \/ g.dag /\ (g.cond # {} \/ g.fan # {} \/ IsCyclic(g))
  \/ g.ghost

Compile ==
  /\ place = "declared"
  /\ place' = IF Refused(graph) THEN "refused" ELSE "running"
  /\ tasks' = IF Refused(graph) THEN {} ELSE {Task(Entry)}
  /\ UNCHANGED <<graph, results, chan, owed, count>>

-------------------------------------------------------------------------------
(* A node's return: what it writes, whether its values are of their types,  *)
(* and the Command's destination, if it is one.                             *)
ReturnValues ==
  [writes : SUBSET Fields, typed : BOOLEAN, goto : {{}} \union {{p} : p \in Places}]

(* _check_update.                                                           *)
GoodUpdate(n, fields, typed) == fields \subseteq Declared[n] /\ typed

(* _check_goto_target and _check_send_payload.                              *)
(* Mutant: only names are looked up.                                        *)
GoodPlace_Names(p) == p.send \/ p.node \in Nodes \union {End}

GoodPlace(p) ==
  IF p.send THEN p.node \in Nodes /\ p.fits ELSE p.node \in Nodes \union {End}

(* _check_result. Mutant: a Command's update is taken as it is.             *)
GoodResult_Dict(n, r) ==
  (r.goto = {} => GoodUpdate(n, r.writes, r.typed)) /\ \A p \in r.goto : GoodPlace(p)

GoodResult(n, r) ==
  GoodUpdate(n, r.writes, r.typed) /\ \A p \in r.goto : GoodPlace(p)

Fails ==
  /\ place' = "failed" /\ tasks' = {} /\ results' = {} /\ owed' = {}

(* _wrap around one task: the budget, the body, the checks.                 *)
RefuseTask(t) ==
  /\ place = "running" /\ t \in tasks /\ count.iterations >= MaxNodeRuns
  /\ Fails
  /\ UNCHANGED <<graph, chan, count>>

Run(t) ==
  /\ place = "running" /\ t \in tasks /\ t \notin {r.task : r \in results}
  /\ count.iterations < MaxNodeRuns
  /\ count' = [count EXCEPT !.iterations = @ + 1]
  /\ \E r \in ReturnValues :
       IF GoodResult(t.node, r)
       THEN results' = results \union {[task |-> t, ret |-> r]} /\ UNCHANGED <<place, tasks, owed>>
       ELSE Fails
  /\ UNCHANGED <<graph, chan>>

Raise(t) ==
  /\ place = "running" /\ t \in tasks /\ t \notin {r.task : r \in results}
  /\ count.iterations < MaxNodeRuns
  /\ count' = [count EXCEPT !.iterations = @ + 1]
  /\ Fails
  /\ UNCHANGED <<graph, chan>>

(* A node's router answers keys of its mapping, or a stray one, which is    *)
(* refused; a Send among them is let through as it is, its target and its   *)
(* payload unread (one Send an answer, here). A dispatcher answers a Send.  *)
Dispatches == {{SendTo(m, fits)} : m \in Nodes \union {Ghost}, fits \in BOOLEAN}

Mapped(n) == {e[2] : e \in {x \in graph.cond : x[1] = n}}
Stray == [keys |-> {"stray"}, sends |-> {}]
RouterAnswers(n) == [keys : SUBSET Mapped(n), sends : {{}} \union Dispatches] \union {Stray}

Routed == {t \in tasks : Mapped(t.node) # {}}
Fanned == {t \in tasks : t.node \in graph.fan}

(* LangGraph's side of a superstep: the writes land together, and the next  *)
(* tasks are the static successors and the places that exist.               *)
Landed ==
  [f \in Fields |->
     LET by == {r \in results : f \in r.ret.writes} IN
     IF by = {} THEN chan[f]
     ELSE LET r == CHOOSE x \in by : TRUE IN [by |-> r.task.node, typed |-> r.ret.typed]]

Wanted(places) == {[node |-> p.node, fits |-> p.fits] : p \in {q \in places : q.node # End}}
Known(ts) == {t \in ts : t.node \in Nodes}
Static == {Task(n) : n \in UNION {Adjacent(graph, r.task.node) : r \in results}}

(* Where the finished nodes, their routers' keys and their dispatchers      *)
(* point, which is checked; and the routers' Sends, which are not.          *)
Named(says, sent) ==
  (UNION {r.ret.goto : r \in results})
    \union (UNION {{PlaceAt(k) : k \in says[t].keys} : t \in Routed})
    \union (UNION {sent[t] : t \in Fanned})
Unchecked(says) == UNION {says[t].sends : t \in Routed}

Goes(checked, unchecked) ==
  LET asked == Wanted(checked \union unchecked) IN
  /\ owed' = Wanted(checked)
  /\ tasks' = Static \union Known(asked)
  /\ results' = {}
  /\ place' = IF tasks' = {} THEN "over" ELSE "running"
  /\ count' = [count EXCEPT !.depth = IF asked = {} THEN @ + 1 ELSE 1]

Superstep ==
  /\ place = "running" /\ {r.task : r \in results} = tasks
  /\ \A r, q \in results : r # q => r.ret.writes \intersect q.ret.writes = {}
  /\ chan' = Landed
  /\ \E says \in [Routed -> UNION {RouterAnswers(t.node) : t \in Routed}],
        sent \in [Fanned -> Dispatches] :
       /\ \A t \in Routed : says[t] \in RouterAnswers(t.node)
       /\ IF \/ \E t \in Routed : says[t] = Stray
             \/ \E t \in Fanned : \E p \in sent[t] : ~GoodPlace(p)
          THEN Fails /\ UNCHANGED count
          ELSE Goes(Named(says, sent), Unchecked(says))
  /\ UNCHANGED graph

(* Two nodes of a superstep write one field without a reducer: LangGraph    *)
(* raises.                                                                  *)
Conflict ==
  /\ place = "running" /\ {r.task : r \in results} = tasks
  /\ \E r, q \in results : r # q /\ r.ret.writes \intersect q.ret.writes # {}
  /\ Fails
  /\ UNCHANGED <<graph, chan, count>>

(* update_state, as a node or as nobody.                                    *)
Edit ==
  /\ place \in {"over", "failed"}
  /\ \E as \in Nodes \union {"nobody"}, fields \in SUBSET Fields, typed \in BOOLEAN :
       /\ fields # {}
       /\ IF as = "nobody" THEN typed ELSE GoodUpdate(as, fields, typed)
       /\ chan' = [f \in Fields |-> IF f \in fields THEN [by |-> as, typed |-> typed] ELSE chan[f]]
  /\ UNCHANGED <<graph, place, tasks, results, owed, count>>

-------------------------------------------------------------------------------
Pairs == Nodes \X Nodes
Graphs ==
  [dag : BOOLEAN, static : SUBSET Pairs, cond : {{}} \union {{e} : e \in Pairs},
   fan : {{}} \union {{n} : n \in Nodes}, ghost : BOOLEAN]

GraphInit ==
  /\ graph \in Graphs /\ place = "declared"
  /\ tasks = {} /\ results = {} /\ owed = {}
  /\ chan = [f \in Fields |-> [by |-> "nobody", typed |-> TRUE]]
  /\ count = [iterations |-> 0, depth |-> 1]

GraphNext ==
  \/ Compile \/ Superstep \/ Conflict \/ Edit
  \/ \E t \in tasks : RefuseTask(t) \/ Run(t) \/ Raise(t)

GraphSpec == GraphInit /\ [][GraphNext]_graphVars

(***************************************************************************)
(* Properties.                                                             *)
(***************************************************************************)
(* A value in the state was declared by whoever wrote it and is of its      *)
(* field's type, whether it came in a dict, a Command or an edit.           *)
OnlyDeclaredLands ==
  \A f \in Fields :
    chan[f].typed /\ (chan[f].by \in Nodes => f \in Declared[chan[f].by])

(* A transition that silently does not happen is a defect: every place      *)
(* GraphARC checks, which is a node's Command, a router's key and a         *)
(* dispatcher's Send, is a task of the next superstep if it was let         *)
(* through, and its worker accepts the payload. Only a router's own Send,   *)
(* which the declared scope of the check leaves out, can be lost, or hand a *)
(* worker what it does not accept.                                          *)
RoutesAreTaken ==
  /\ owed \subseteq tasks /\ \A t \in owed : t.fits
  /\ graph.cond = {} => \A t \in tasks : t.fits

(* The static edges of a graph compiled as a DAG never lead a run through   *)
(* more supersteps than the graph has nodes, from wherever a Command left   *)
(* it.                                                                      *)
DagIsShallow == graph.dag /\ place = "running" => count.depth <= Cardinality(Nodes)

(* What lands and where a run goes is what the graph declared.              *)
GraphIsAsDeclared == OnlyDeclaredLands /\ RoutesAreTaken /\ DagIsShallow
=============================================================================
