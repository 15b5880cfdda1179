------------------------------ MODULE MCAgents ------------------------------
(***************************************************************************)
(* For TLC: in part "turns" the agents of one superstep (AgentTurns), in   *)
(* part "gateway" the chat model they share (Gateway). AgentTurns leaves   *)
(* to chance what Gateway does, so nothing is lost by checking them apart. *)
(***************************************************************************)
EXTENDS AgentTurns, Gateway, TLC

CONSTANTS a1, a2

(* Two fixers, or a fixer beside a check or beside a run of the Claude CLI. *)
MCKinds == {a1 :> "fix_one" @@ a2 :> k : k \in {"fix_one", "verify_fixes", "claude"}}

MCRule(effect, match, role) ==
  [effect |-> effect, match |-> match, role |-> role, tenants |-> {"t", "u"}]

(* One allows every tool; the other asks a lead before an edit and does not *)
(* let anyone rewrite a file.                                               *)
MCDocuments ==
  { [tenants |-> {}, default |-> "allow", rules |-> {}],
    [tenants |-> {"t"}, default |-> "deny",
     rules |-> {MCRule("allow", WriteTools, ""), MCRule("deny", {"write_file"}, ""),
                MCRule("ask", {"edit_file", "write_file"}, "lead")}] }

ASSUME \A d \in MCDocuments : IsDocument(d)

VARIABLE part

MCInit ==
  /\ part \in {"turns", "gateway"}
  /\ Init /\ GatewayInit
  /\ part = "turns" => backend = "cli"
  /\ part = "gateway" => doc.tenants = {} /\ kind[a2] = "fix_one"

Turns(step) == part = "turns" /\ step /\ UNCHANGED <<part, gatewayVars>>

MCNext ==
  \/ Turns(Next)
  \/ part = "gateway" /\ GatewayNext /\ UNCHANGED <<part, vars>>

MCSpec ==
  /\ MCInit /\ [][MCNext]_<<part, vars, gatewayVars>>
  /\ \A a \in Agent : WF_vars(Turns(Step(a)))

(* Agents stop, in the part that has agents.                                *)
EveryAgentStops == part = "turns" => AgentsStop
=============================================================================
