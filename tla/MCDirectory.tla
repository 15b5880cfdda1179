----------------------------- MODULE MCDirectory ------------------------------
(***************************************************************************)
(* For TLC, what processes do to a directory they share and nobody locks,  *)
(* one file of it in each part: the generated policy and the run ids of a  *)
(* trace (CommandRun), plan.json (PlanFile) and the approval handshake     *)
(* (ApprovalFile).                                                         *)
(***************************************************************************)
EXTENDS MCCommandRun, PlanFile, ApprovalFile

VARIABLE part

ASSUME HandshakeAssumption

MCInit ==
  /\ part \in {"commands", "plan", "handshake"}
  /\ part # "handshake" => plan = [g \in Gates |-> CHOOSE fp \in Plans : TRUE]
  /\ Init /\ PlanInit /\ ApprovalInit

MCNext ==
  \/ part = "commands" /\ Next /\ UNCHANGED <<part, approvalVars, planVars>>
  \/ part = "plan" /\ PlanNext /\ UNCHANGED <<part, vars, approvalVars>>
  \/ part = "handshake" /\ ApprovalNext /\ UNCHANGED <<part, vars, planVars>>

(* The fairness of the handshake.                                           *)
InHandshake(step) == part = "handshake" /\ step /\ UNCHANGED <<part, vars, planVars>>

MCSpec ==
  /\ MCInit /\ [][MCNext]_<<part, vars, approvalVars, planVars>>
  /\ \A g \in Gates : WF_approvalVars(InHandshake(GateStep(g)))
=============
