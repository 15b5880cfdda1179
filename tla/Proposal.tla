------------------------------- MODULE Proposal -------------------------------
(***************************************************************************)
(* grapharc/planner/proposal.py: what a planner may say, and how one turn  *)
(* of PlannerNode becomes a proposal or the reason there is none.          *)
(*                                                                         *)
(* A plan maps the path of each of its scopes (the names of the nodes that *)
(* own it; <<>> for the root) to the scope: the kinds of its nodes, the    *)
(* nodes whose args the kind's schema would refuse, and its edges.         *)
(***************************************************************************)
EXTENDS Naturals, Sequences, FiniteSets, FiniteSetsExt

CONSTANTS
  Name,      \* the names a planner may give its nodes
  Live,      \* the names of known_nodes, in a graph that already runs
  Kind,      \* the kinds it may claim, registered or not
  NoPlan     \* a turn without a proposal

Start == "START"
End == "END"
Sentinel == {Start, End}
Vertex == Name \cup Live \cup Sentinel

(* node_names(): a scope declares each name once, and never a sentinel.     *)
Nodes(scope) == DOMAIN scope.kind

(* scopes(): every scope of the proposal, nested ones included.             *)
Scopes(plan) == {plan[path] : path \in DOMAIN plan}

Root(plan) == plan[<<>>]

Edges(plan) == UNION {s.edges : s \in Scopes(plan)}

(* nesting_depth(): a scope without nodes authorises nothing.               *)
NestingDepth(plan) ==
  Max({0} \cup {Len(p) + 1 : p \in {q \in DOMAIN plan : Nodes(plan[q]) # {}}})

(* fingerprint(): a hash of the proposal's own bytes, its id among them.    *)
Fingerprint(proposal) == proposal

(* PlanProposal.to_subgraph: the slim shape has no nested subgraph to read. *)
Slim(plan) == [path \in {<<>>} |-> Root(plan)]

(***************************************************************************)
(* A turn.  `fails' is how the call of the model went; `parsed' what the   *)
(* structured path made of the reply; `text' the plan its text holds, in   *)
(* the shape of a Subgraph or in the slim one.                             *)
(***************************************************************************)
Fails == {"no", "invalid", "unreachable", "other", "budget"}
Replies(plan) ==
  [fails : Fails, parsed : {plan, NoPlan}, text : {plan, NoPlan}, slim : BOOLEAN]

(* A parsed object that does not validate leaves its raw message behind.    *)
Heard(structured, reply) ==
  reply.fails = "no" \/ (structured /\ reply.fails = "invalid")

Structured(structured, reply) ==
  IF structured /\ reply.fails = "no" THEN reply.parsed ELSE NoPlan

(* _from_text: the full shape is tried first.                               *)
FromText(reply) ==
  CASE reply.text = NoPlan -> NoPlan
    [] reply.text # NoPlan /\ reply.slim -> Slim(reply.text)
    [] OTHER -> reply.text

(* propose(): structured output, and the text when there was none.          *)
Outcome(structured, reply) ==
  LET given == Structured(structured, reply)
      plan  == IF given = NoPlan /\ Heard(structured, reply) THEN FromText(reply) ELSE given
  IN [plan |-> plan,
      charged |-> Heard(structured, reply),
      unreachable |-> reply.fails = "unreachable" /\ plan = NoPlan]

(* _stamp: an id of this turn's own and the planner's name, whatever the    *)
(* reply said.                                                              *)
Stamp(plan, id) == [plan |-> plan, id |-> id, origin |-> "planner"]
=============================================================================
