------------------------------ MODULE Admission ------------------------------
(***************************************************************************)
(* AdmissionChecker.check of grapharc/planner/admission.py: the seven      *)
(* gates, each the pairs <<check, code>> it rejects a proposal with.        *)
(***************************************************************************)
EXTENDS Proposal

CONSTANTS
  LiveKind,   \* what the caller said of each live node, or "" when it did not
  Schema,     \* the kinds whose NodeSpec declares an args_schema
  Cost        \* a kind's worst_case; one dimension of CostEstimate stands for all

Decision == {"deny", "ask", "allow"}

(* rule_for and decide over the rules that match: every deny is tried       *)
(* before every ask, every ask before every allow; unmatched gets the       *)
(* default.  A rule holds the set of kinds its pattern matches.             *)
Decide(policy, matching) ==
  LET hit(action) == \E r \in matching : r.action = action
  IN CASE hit("deny") -> "deny"
       [] ~hit("deny") /\ hit("ask") -> "ask"
       [] ~hit("deny") /\ ~hit("ask") /\ hit("allow") -> "allow"
       [] OTHER -> policy.default

EdgeDecision(policy, from, to) ==
  Decide(policy, {r \in policy.rules : from \in r.source /\ to \in r.target})

NodeDecision(policy, kind) == Decide(policy, {r \in policy.rules : kind \in r.match})

(* _check_endpoints: the sentinels face one way, other names must exist.    *)
WrongWay(e) == e[1] = End \/ e[2] = Start
UnknownEnd(scope, e) ==
  \E i \in 1..2 : e[i] \notin Sentinel \cup Nodes(scope) \cup Live

(* _check_registry.                                                         *)
RegistryCodes(scope, registry) ==
     {<<"registry", "unregistered_node">> : n \in {m \in Nodes(scope) : scope.kind[m] \notin registry}}
  \cup {<<"registry", "name_collides">> : n \in Nodes(scope) \cap Live}
  \cup {<<"registry", "sentinel_wrong_direction">> : e \in {f \in scope.edges : WrongWay(f)}}
  \cup {<<"registry", "unknown_edge_endpoint">> : e \in {f \in scope.edges : UnknownEnd(scope, f)}}

(* _check_args: an unregistered kind is the registry's complaint.           *)
ArgsCodes(scope, registry) ==
  {<<"args", "args_schema_violation">> :
     n \in {m \in scope.bad : scope.kind[m] \in Schema \cap registry}}

(* _kind_of: a sentinel is itself, a node what it declared, a live node     *)
(* what the caller said.                                                    *)
KindOf(scope, v) ==
  CASE v \in Sentinel -> v
    [] v \in Nodes(scope) -> scope.kind[v]
    [] v \in Live \ Nodes(scope) -> LiveKind[v]
    [] OTHER -> ""

(* _check_node_policy; node_policy = None is a policy that allows by default.*)
NodeCodes(scope, policy) ==
  {<<"node", d>> : d \in {NodeDecision(policy, scope.kind[n]) : n \in Nodes(scope)} \ {"allow"}}

(* _check_policy and _unresolved_endpoints.                                 *)
EdgeCodes(scope, policy) ==
  LET code(e) == LET from == KindOf(scope, e[1]) to == KindOf(scope, e[2])
                 IN IF "" \in {from, to} THEN <<"policy", "unresolved_endpoint_kind">>
                    ELSE <<"edge", EdgeDecision(policy, from, to)>>
  IN {code(e) : e \in scope.edges} \ {<<"edge", "allow">>}

(***************************************************************************)
(* _worst_case: the steps at which each node can be reached, by a worklist *)
(* from START and from the live nodes the scope has edges out of.          *)
(***************************************************************************)
Reached(scope) ==
  LET limit == Cardinality(Nodes(scope)) + 1
      known == Nodes(scope) \cup Live \cup {Start}
      next(steps, v) == [w \in known |->
        steps[w] \cup IF <<v, w>> \in scope.edges
                      THEN {k + 1 : k \in {j \in steps[v] : j < limit}} ELSE {}]
      work[queue \in SUBSET known, steps \in [known -> SUBSET (0..limit)]] ==
        IF queue = {} THEN steps
        ELSE LET v == CHOOSE x \in queue : TRUE
                 after == next(steps, v)
             IN work[(queue \ {v}) \cup {w \in known : after[w] # steps[w]}, after]
  IN work[{Start} \cup {v \in Live : \E e \in scope.edges : e[1] = v},
          [v \in known |-> IF v = Start \/ v \in Live \ Nodes(scope) THEN {0} ELSE {}]]

(* Mutant: every node is counted once, whatever leads to it.                *)
Multiplier_One(scope, n) == 1

Multiplier(scope, n) == Max({1, Cardinality(Reached(scope)[n])})

(* A kind that is not registered leaves the sum a lower bound.              *)
ScopeCost(scope, registry) ==
  MapThenSumSet(LAMBDA n : Cost[scope.kind[n]] * Multiplier(scope, n),
                {n \in Nodes(scope) : scope.kind[n] \in registry})

(* A sum over the paths: two scopes of a plan may be equal.                 *)
WorstCase(plan, registry) ==
  MapThenSumSet(LAMBDA path : ScopeCost(plan[path], registry), DOMAIN plan)

(* What edges lead to from a set, those in the set included.                *)
Closure(edges, from) ==
  LET grow[seen \in SUBSET Vertex] ==
        LET more == seen \cup {e[2] : e \in {f \in edges : f[1] \in seen}}
        IN IF more = seen THEN seen ELSE grow[more]
  IN grow[from]

(* _reachable_from_start: END leads nowhere.                                *)
Reachable(scope) == Closure({e \in scope.edges : e[1] # End}, {Start})

(* Mutant: an edge into a node is taken for a way in.                       *)
EntryCodes_AnyEdge(scope) ==
  {<<"reachability", "unreachable_node">> : n \in {m \in Nodes(scope) : \A e \in scope.edges : e[2] # m}}

(* _check_reachability: an entry first, then a way in for every node.       *)
EntryCodes(scope) ==
  CASE Nodes(scope) = {} -> {}
    [] Nodes(scope) # {} /\ \A e \in scope.edges : e[1] # Start -> {<<"reachability", "no_entry_edge">>}
    [] OTHER -> {<<"reachability", "unreachable_node">> : n \in Nodes(scope) \ Reachable(scope)}

(* _find_cycle looks at the scope's own nodes alone.                        *)
Cyclic(scope) ==
  LET own == {e \in scope.edges : {e[1], e[2]} \subseteq Nodes(scope)}
  IN \E e \in own : e[1] \in Closure(own, {e[2]})

(***************************************************************************)
(* check(): every gate runs, on every proposal.  `gate' holds what the     *)
(* operator configured and what is left of the budget.                     *)
(***************************************************************************)
Codes(plan, gate, registry) ==
     UNION {RegistryCodes(s, registry) \cup ArgsCodes(s, registry)
              \cup NodeCodes(s, gate.nodePolicy) \cup EdgeCodes(s, gate.edgePolicy)
              \cup (IF gate.requireEntry THEN EntryCodes(s) ELSE {})
              \cup (IF gate.requireAcyclic /\ Cyclic(s) THEN {<<"acyclicity", "cycle">>} ELSE {})
            : s \in Scopes(plan)}
  \cup (IF WorstCase(plan, registry) > gate.left THEN {<<"budget", "over_budget">>} ELSE {})
  \cup (IF gate.parentDepth + NestingDepth(plan) > gate.maxDepth THEN {<<"depth", "too_deep">>} ELSE {})

(* _status_for: a pending approval is a stop, not a slow yes.               *)
StatusFor(codes) ==
  CASE codes = {} -> "admitted"
    [] codes # {} /\ codes \subseteq {<<"node", "ask">>, <<"edge", "ask">>} -> "needs_approval"
    [] OTHER -> "rejected"

Status(plan, gate, registry) == StatusFor(Codes(plan, gate, registry))
=============================================================================
