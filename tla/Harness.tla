------------------------------- MODULE Harness -------------------------------
(***************************************************************************)
(* What a tool call is allowed to do, before anything runs: the policy     *)
(* document and its engine (grapharc/policy), the PermissionPolicy it is   *)
(* compiled to, the harness's reading of it (grapharc/harness), and the    *)
(* approval router an `ask` goes through. A pattern is the set of names it *)
(* matches.                                                                *)
(***************************************************************************)
EXTENDS Naturals, Sequences

Tiers == <<"deny", "ask", "allow">>

Strictest(effects) ==
  Tiers[CHOOSE i \in 1..3 : Tiers[i] \in effects /\ \A j \in 1..(i - 1) : Tiers[j] \notin effects]

(* The effect of the first tier with a rule that matches, else the default. *)
Effect(rules, default, tool) ==
  LET effects == {r.effect : r \in {q \in rules : tool \in q.match}}
  IN IF effects = {} THEN default ELSE Strictest(effects)

(* PolicyDocument: an `ask` rule names its approver; no default of `ask`.   *)
IsDocument(doc) ==
  /\ doc.default \in {"deny", "allow"}
  /\ \A r \in doc.rules : (r.effect = "ask") <=> (r.role # "")
  /\ \A r \in doc.rules : doc.tenants # {} => r.tenants \cap doc.tenants # {}

Declares(doc, tenant) == doc.tenants = {} \/ tenant \in doc.tenants
RulesFor(doc, tenant) == {r \in doc.rules : tenant \in r.tenants}

(* PolicyEngine._evaluate for a tool.                                       *)
Evaluate(doc, tenant, tool) ==
  IF Declares(doc, tenant) THEN Effect(RulesFor(doc, tenant), doc.default, tool) ELSE "deny"

(* permission_policy: the same rules, compiled for one tenant.              *)
Compiled(doc, tenant) ==
  IF Declares(doc, tenant) THEN [rules |-> RulesFor(doc, tenant), default |-> doc.default]
  ELSE [rules |-> {}, default |-> "deny"]

(* default_harness: a literal allow for each of the kind's tools.           *)
Allowlist(tools) ==
  [rules |-> {[effect |-> "allow", match |-> tools]}, default |-> "deny"]

Decide(policy, tool) == Effect(policy.rules, policy.default, tool)

(* CombinedPolicy.decide: the strictest of its policies.                    *)
Combined(policies, tool) ==
  Strictest({Decide(p, tool) : p \in policies})

(* ApprovalRouter._resolve asks the engine again. The handler's answer is   *)
(* "yes", "no" or "raises"; a role without a handler is never granted.      *)
Routed(doc, tenant, handlers, tool, answer) ==
  LET effect == Evaluate(doc, tenant, tool)
      asks == {r \in RulesFor(doc, tenant) : r.effect = "ask" /\ tool \in r.match}
  IN CASE effect = "deny" -> {FALSE}
       [] effect = "allow" -> {TRUE}
       [] OTHER -> {r.role \in handlers /\ answer = "yes" : r \in asks}
=============================================================================
