------------------------------- MODULE PlanGate -------------------------------
(***************************************************************************)
(* From a planner's turn to the supersteps of what it proposed: PlannerNode*)
(* proposes, AdmissionChecker.check decides, Materializer.materialize      *)
(* builds, and the graph runs on what was left of the budget.  The caller  *)
(* that holds a proposal and a verdict may edit the one, keep an old copy  *)
(* of the other, and register kinds in between.                            *)
(***************************************************************************)
EXTENDS Admission

CONSTANTS
  Plans,       \* the plans a first reply holds
  Others,      \* bound: those later replies hold and callers put in its place
  Gates,       \* what an operator may configure, with what is left of the budget
  Factory,     \* what a kind's factory does: "builds", "raises" or "none"
  Late,        \* the kinds somebody may register while planning goes on
  MaxTurns, MaxEdits,   \* bounds: planner turns; edits of a proposal in hand
  MaxSteps     \* bound: supersteps of a run, LangGraph's recursion limit

ASSUME PlanGateAssumption ==
  /\ NoPlan \notin Plans /\ Name \cap Sentinel = {} /\ Name \cap Live = {}
  /\ Others \subseteq Plans
  /\ Cost \in [Kind -> Nat \ {0}]  \* an execution is an iteration at least
  /\ DOMAIN Factory = Kind /\ Late \subseteq Kind
  /\ {MaxTurns, MaxEdits, MaxSteps} \subseteq Nat

VARIABLES
  gate,       \* the checker's configuration
  registry,   \* the kinds of the NodeRegistry
  frozen,     \* its freeze() was called
  turns, edits,
  proposal,   \* the proposal in hand, or NoPlan
  verdict,    \* the AdmissionResult in hand, or NoPlan
  trace,      \* every AdmissionResult there was, as the trace records them
  graph,      \* the proposal the running graph was built from, or NoPlan
  tasks,      \* the executions due in the next superstep, per node
  ran,        \* how often each node was executed
  sends,      \* how many Sends were delivered
  taken,      \* the transition a body of the last superstep asked for and got
  step, phase

planning == <<turns, edits, proposal>>
running == <<graph, tasks, ran, sends, taken, step>>
vars == <<gate, registry, frozen, planning, verdict, trace, running, phase>>

Idle == [n \in Name |-> 0]

Init ==
  /\ gate \in Gates /\ registry = Kind \ Late /\ frozen \in BOOLEAN
  /\ turns = 0 /\ edits = 0
  /\ proposal = NoPlan /\ verdict = NoPlan /\ trace = {} /\ graph = NoPlan
  /\ tasks = Idle /\ ran = Idle /\ sends = 0 /\ taken = {} /\ step = 0
  /\ phase = "planning"

(***************************************************************************)
(* Planning and deciding.                                                  *)
(***************************************************************************)
(* PlannerNode.__call__: a turn without a plan writes None.  BudgetExceeded *)
(* passes through and nothing is written.                                   *)
Turn(structured, reply) ==
  /\ phase = "planning" /\ turns < MaxTurns /\ reply.fails # "budget"
  /\ LET plan == Outcome(structured, reply).plan
     IN proposal' = IF plan = NoPlan THEN NoPlan ELSE Stamp(plan, turns + 1)
  /\ turns' = turns + 1
  /\ UNCHANGED <<gate, registry, frozen, edits, verdict, trace, running, phase>>

(* The caller puts another plan under the id it holds.                      *)
Edit(plan) ==
  /\ phase = "planning" /\ proposal # NoPlan /\ edits < MaxEdits
  /\ plan # proposal.plan
  /\ proposal' = [proposal EXCEPT !.plan = plan]
  /\ edits' = edits + 1
  /\ UNCHANGED <<gate, registry, frozen, turns, verdict, trace, running, phase>>

(* register(): refused for a kind there is, and once frozen.                *)
Register(kind) ==
  /\ phase = "planning" /\ ~frozen /\ kind \in Late \ registry
  /\ registry' = registry \cup {kind}
  /\ UNCHANGED <<gate, frozen, planning, verdict, trace, running, phase>>

(* AdmissionChecker.check: decides, writes the trace, charges nothing.      *)
Check ==
  /\ phase = "planning" /\ proposal # NoPlan
  /\ verdict' = [status |-> Status(proposal.plan, gate, registry),
                 fingerprint |-> Fingerprint(proposal),
                 id |-> proposal.id, plan |-> proposal.plan]
  /\ trace' = trace \cup {verdict'}
  /\ UNCHANGED <<gate, registry, frozen, planning, running, phase>>

(* Mutant: the id tells the proposal.                                       *)
Authorised_ById(v, p) == v.status = "admitted" /\ v.id = p.id

(***************************************************************************)
(* Materializer.materialize.                                               *)
(***************************************************************************)
(* _require_admission: what runs is what was admitted.                      *)
Authorised(v, p) ==
  v.status = "admitted" /\ v.fingerprint = Fingerprint(p) /\ v.id = p.id

(* _require_buildable: one flat graph, complete in itself, that START enters*)
Buildable(plan) ==
  /\ DOMAIN plan = {<<>>} /\ Nodes(Root(plan)) # {}
  /\ \A e \in Root(plan).edges : {e[1], e[2]} \subseteq Nodes(Root(plan)) \cup Sentinel
  /\ \E e \in Root(plan).edges : e[1] = Start
  /\ Nodes(Root(plan)) \subseteq Reachable(Root(plan))

(* _body: the registry's factory makes every body, of args it re-validates. *)
HasBody(scope, n) ==
  /\ scope.kind[n] \in registry
  /\ Factory[scope.kind[n]] = "builds"
  /\ ~(n \in scope.bad /\ scope.kind[n] \in Schema)

(* compile(): LangGraph refuses an edge out of END and one into START.      *)
Assembles(scope) == \A e \in scope.edges : e[1] # End /\ e[2] # Start

Materializes(v, p) ==
  /\ Authorised(v, p)
  /\ Buildable(p.plan)
  /\ \A n \in Nodes(Root(p.plan)) : HasBody(Root(p.plan), n)
  /\ Assembles(Root(p.plan))

Due(edges, from) == [n \in Name |-> IF \E v \in from : <<v, n>> \in edges THEN 1 ELSE 0]

Build ==
  /\ phase = "planning" /\ proposal # NoPlan /\ verdict # NoPlan
  /\ Materializes(verdict, proposal)
  /\ graph' = proposal /\ phase' = "running"
  /\ tasks' = Due(Root(proposal.plan).edges, {Start})
  /\ UNCHANGED <<gate, registry, frozen, planning, verdict, trace, ran, sends, taken, step>>

(* MaterializationError: nothing was compiled and nothing ran.              *)
Refuse ==
  /\ phase = "planning" /\ proposal # NoPlan /\ verdict # NoPlan
  /\ ~Materializes(verdict, proposal)
  /\ phase' = "refused"
  /\ UNCHANGED <<gate, registry, frozen, planning, verdict, trace, running>>

(***************************************************************************)
(* The run: LangGraph's supersteps, over the admitted edges.  One body of  *)
(* a superstep may return a Command.                                       *)
(***************************************************************************)
Total(f) == MapThenSumSet(LAMBDA n : f[n], Name)
Running == {n \in Name : tasks[n] > 0}

(* _confine: a goto goes where the plan has an edge, or to END.             *)
Confined(n, to) == to = End \/ <<n, to>> \in Root(graph.plan).edges

(* The meter each execution enters holds what the gate was told was left.   *)
Fits == Total(ran) + Total(tasks) <= gate.left

(* The static edges are followed whatever a body returns; a goto adds to    *)
(* them, and a Send is an execution of its own.                             *)
Superstep(next, sent) ==
  /\ phase = "running" /\ Running # {} /\ Fits /\ step < MaxSteps
  /\ ran' = [n \in Name |-> ran[n] + tasks[n]]
  /\ LET due == Due(Root(graph.plan).edges, Running)
     IN tasks' = [n \in Name |-> (IF n \in next THEN 1 ELSE due[n]) + (IF n \in sent THEN 1 ELSE 0)]
  /\ sends' = sends + Cardinality(sent)
  /\ step' = step + 1
  /\ UNCHANGED <<gate, registry, frozen, planning, verdict, trace, graph, phase>>

Plain == Superstep({}, {}) /\ taken' = {}

Goto(n, to) ==
  /\ n \in Running /\ to # Start /\ Confined(n, to)
  /\ Superstep({to} \cap Name, {})
  /\ taken' = {<<n, to>>}

Send(n, to) ==
  /\ n \in Running /\ to \in Name /\ Confined(n, to) /\ sends = 0
  /\ Superstep({}, {to})
  /\ taken' = {<<n, to>>}

(* UnadmittedTransition, from within the run.                               *)
Stray(n, to) ==
  /\ phase = "running" /\ n \in Running /\ Fits /\ ~Confined(n, to)
  /\ phase' = "failed"
  /\ UNCHANGED <<gate, registry, frozen, planning, verdict, trace, running>>

(* BudgetExceeded, or LangGraph's limit on supersteps.                      *)
Exhaust ==
  /\ phase = "running" /\ Running # {} /\ (~Fits \/ step = MaxSteps)
  /\ phase' = "exhausted"
  /\ UNCHANGED <<gate, registry, frozen, planning, verdict, trace, running>>

Finish ==
  /\ phase = "running" /\ Running = {}
  /\ phase' = "finished"
  /\ UNCHANGED <<gate, registry, frozen, planning, verdict, trace, running>>

Next ==
  \/ \E plan \in IF turns = 0 THEN Plans ELSE Others :
       \E structured \in BOOLEAN, reply \in Replies(plan) :
         Turn(structured, reply)
  \/ \E plan \in Others : Edit(plan)
  \/ \E kind \in Late : Register(kind)
  \/ Check \/ Build \/ Refuse
  \/ Plain \/ Exhaust \/ Finish
  \/ \E n \in Name, to \in Vertex : Goto(n, to) \/ Send(n, to) \/ Stray(n, to)

Spec == Init /\ [][Next]_vars

(***************************************************************************)
(* Properties.                                                             *)
(***************************************************************************)
(* What runs is what was admitted: the graph was built from a proposal the  *)
(* checker said yes to as it stands, whatever was edited, proposed again or *)
(* registered between the two calls; and what a body adds to its edges is a *)
(* transition the edge policy allows, kind to kind, or END.                 *)
OnlyAdmittedRuns ==
  graph # NoPlan =>
    /\ \E v \in trace : v.status = "admitted" /\ v.id = graph.id /\ v.plan = graph.plan
    /\ \A t \in taken : t[2] # End =>
         LET kind == Root(graph.plan).kind
         IN EdgeDecision(gate.edgePolicy, kind[t[1]], kind[t[2]]) = "allow"

(* A checker that requires an entry leaves materialize() nothing to refuse  *)
(* in a flat plan of its own nodes: a mistake of the planner's comes back as*)
(* a rejection it can act on, never as a build that failed.                 *)
AdmittedPlanBuilds ==
  phase = "refused" /\ Authorised(verdict, proposal) /\ gate.requireEntry =>
    LET root == Root(proposal.plan)
    IN \/ DOMAIN proposal.plan # {<<>>} \/ Nodes(root) = {}
       \/ \E e \in root.edges : {e[1], e[2]} \cap Live # {}
       \/ \E n \in Nodes(root) : Factory[root.kind[n]] # "builds"

(* The worst case admission reserves covers the run: without a Send no node *)
(* of an acyclic plan runs more often than it was counted, and an admitted  *)
(* plan whose kinds cost what they declare never exhausts the budget.       *)
EstimateCoversTheRun ==
  graph # NoPlan /\ sends = 0 /\ gate.requireAcyclic =>
    /\ \A n \in Nodes(Root(graph.plan)) : ran[n] <= Multiplier(Root(graph.plan), n)
    /\ phase # "exhausted"

(* Renaming its nodes changes nothing about what a plan is allowed.         *)
Renamed(plan, f) ==
  [path \in DOMAIN plan |->
    LET to(v) == IF v \in Name THEN f[v] ELSE v
    IN [kind |-> [n \in {f[m] : m \in Nodes(plan[path])} |->
                    plan[path].kind[CHOOSE m \in Nodes(plan[path]) : f[m] = n]],
        bad |-> {f[m] : m \in plan[path].bad},
        edges |-> {<<to(e[1]), to(e[2])>> : e \in plan[path].edges}]]

NamesDoNotMatter ==
  verdict # NoPlan /\ phase = "planning" /\ DOMAIN verdict.plan = {<<>>} =>
    \A m, n \in Nodes(Root(verdict.plan)) :
      LET swap == [v \in Name |-> CASE v = m -> n [] v = n -> m [] OTHER -> v]
      IN Status(Renamed(verdict.plan, swap), gate, registry)
           = Status(verdict.plan, gate, registry)

(* A verdict turns on what the plan does and not on what it is called, and  *)
(* what it reserves is enough.                                              *)
VerdictIsSound == NamesDoNotMatter /\ EstimateCoversTheRun
=============================================================================
