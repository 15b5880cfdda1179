----------------------------- MODULE BudgetMeter -----------------------------
(***************************************************************************)
(* One run's BudgetMeter (grapharc/runtime/budget.py) shared by the node   *)
(* executions of a graph, with the places the runtime uses it: the node    *)
(* wrapper's _enter and _leave (runtime/graph.py) and the usage callback   *)
(* (runtime/usage.py).                                                     *)
(*                                                                         *)
(* Charging takes the meter's lock; the checks read without it.  So every  *)
(* charge and every check is a step of its own, and the executions         *)
(* interleave between them.                                                *)
(***************************************************************************)
EXTENDS Naturals, Sequences, FiniteSets, FiniteSetsExt

CONSTANTS
  Node,           \* node executions, each in a scope of its own
  Call,           \* model calls
  Cost,           \* call -> its total_tokens
  Unseen,         \* sizes of the charges a node makes without naming a call
  MaxTokens,      \* Budget.max_tokens
  MaxIterations,  \* Budget.max_iterations
  Width,          \* Budget.max_concurrency: executions the kernel runs at once
  MaxUnseen       \* bound: charges that name no call

ASSUME BudgetAssumption ==
  /\ IsFiniteSet(Node) /\ IsFiniteSet(Call) /\ Call # {}
  /\ Cost \in [Call -> Nat \ {0}]
  /\ Unseen \subseteq Nat \ {0}
  /\ MaxTokens \in Nat \ {0} /\ MaxIterations \in Nat \ {0}
  /\ Width \in Nat \ {0} /\ MaxUnseen \in Nat

VARIABLES
  iterations, tokens,   \* the meter
  wrapper,              \* node -> where its wrapper is
  scope,                \* node -> tokens charged in its scope
  unclaimed,            \* node -> calls metered in its scope, not re-reported yet
  maker,                \* call -> the node that made it
  told,                 \* calls some node has reported by hand
  reported,             \* node -> tokens on its terminal trace event
  unseen                \* ghost: sizes of the charges that named no call

meterVars == <<iterations, tokens, wrapper, scope, unclaimed, maker, told, reported, unseen>>

Made == DOMAIN maker

At(n, step) == wrapper[n] = step

MovesTo(n, step) == wrapper' = [wrapper EXCEPT ![n] = step]

TokensExceeded == tokens >= MaxTokens

Exceeded == iterations >= MaxIterations \/ TokensExceeded

(* Add k to the run, and to the scope that spent it.                        *)
Charge(n, k) ==
  /\ tokens' = tokens + k
  /\ scope' = [scope EXCEPT ![n] = @ + k]

(* The scope closes: its tally goes on the node's end or error event.       *)
Stop(n, step) ==
  /\ MovesTo(n, step)
  /\ reported' = [reported EXCEPT ![n] = scope[n]]

(***************************************************************************)
(* _enter.                                                                 *)
(***************************************************************************)
RefuseEntry(n) ==
  /\ At(n, "new")
  /\ Exceeded
  /\ MovesTo(n, "refused")
  /\ UNCHANGED <<iterations, tokens, scope, unclaimed, maker, told, reported, unseen>>

Running == {n \in Node : wrapper[n] \in {"admitted", "body", "checking"}}

Admit(n) ==
  /\ At(n, "new")
  /\ Cardinality(Running) < Width
  /\ ~Exceeded
  /\ MovesTo(n, "admitted")
  /\ UNCHANGED <<iterations, tokens, scope, unclaimed, maker, told, reported, unseen>>

ChargeIteration(n) ==
  /\ At(n, "admitted")
  /\ iterations' = iterations + 1
  /\ MovesTo(n, "body")
  /\ UNCHANGED <<tokens, scope, unclaimed, maker, told, reported, unseen>>

(***************************************************************************)
(* The body.                                                               *)
(***************************************************************************)
(* on_llm_end: the call is charged, and remembered under its own identity.  *)
LlmEnd(n, c) ==
  /\ At(n, "body")
  /\ c \in Call \ Made
  /\ maker' = [x \in Made \cup {c} |-> IF x = c THEN n ELSE maker[x]]
  /\ Charge(n, Cost[c])
  /\ unclaimed' = [unclaimed EXCEPT ![n] = @ \cup {c}]
  /\ MovesTo(n, "checking")
  /\ UNCHANGED <<iterations, told, reported, unseen>>

(* Mutant: the ceiling waits for the node boundary.                         *)
LlmCheck_None(n) ==
  /\ At(n, "checking")
  /\ MovesTo(n, "body")
  /\ UNCHANGED <<iterations, tokens, scope, unclaimed, maker, told, reported, unseen>>

LlmCheck(n) ==
  /\ At(n, "checking")
  /\ ~TokensExceeded
  /\ MovesTo(n, "body")
  /\ UNCHANGED <<iterations, tokens, scope, unclaimed, maker, told, reported, unseen>>

(* BudgetExceeded out of the callback ends the node.                        *)
LlmRaises(n) ==
  /\ At(n, "checking")
  /\ TokensExceeded
  /\ Stop(n, "raised")
  /\ UNCHANGED <<iterations, tokens, scope, unclaimed, maker, told, unseen>>

(* charge_tokens(source=c): the node hand-reports a call, once.             *)

Report(n, c) ==
  /\ At(n, "body")
  /\ c \in Made \ told
  /\ maker[c] = n
  /\ told' = told \cup {c}
  /\ IF c \in unclaimed[n]
     THEN /\ unclaimed' = [unclaimed EXCEPT ![n] = @ \ {c}]
          /\ UNCHANGED <<tokens, scope>>
     ELSE Charge(n, Cost[c]) /\ UNCHANGED unclaimed
  /\ UNCHANGED <<iterations, wrapper, maker, reported, unseen>>

(* Mutant: a charge is matched with a metered call by its size.             *)
ChargeUnseen_BySize(n, k) ==
  /\ At(n, "body")
  /\ Len(unseen) < MaxUnseen
  /\ unseen' = Append(unseen, k)
  /\ IF \E c \in unclaimed[n] : Cost[c] = k
     THEN UNCHANGED <<tokens, scope>> ELSE Charge(n, k)
  /\ UNCHANGED <<iterations, wrapper, unclaimed, maker, told, reported>>

(* charge_tokens(k): spend the callback could not see.                      *)
ChargeUnseen(n, k) ==
  /\ At(n, "body")
  /\ Len(unseen) < MaxUnseen
  /\ unseen' = Append(unseen, k)
  /\ Charge(n, k)
  /\ UNCHANGED <<iterations, wrapper, unclaimed, maker, told, reported>>

(* Mutant: only a node that returns reports what it spent.                  *)
BodyRaises_Silent(n) ==
  /\ At(n, "body")
  /\ MovesTo(n, "raised")
  /\ UNCHANGED <<iterations, tokens, scope, unclaimed, maker, told, reported, unseen>>

(* The body raises, or its deadline does.                                   *)
BodyRaises(n) ==
  /\ At(n, "body")
  /\ Stop(n, "raised")
  /\ UNCHANGED <<iterations, tokens, scope, unclaimed, maker, told, unseen>>

(***************************************************************************)
(* _leave: the spend made inside the node can stop the run here.           *)
(***************************************************************************)
LeaveNode(n) ==
  /\ At(n, "body")
  /\ Stop(n, IF TokensExceeded THEN "raised" ELSE "ended")
  /\ UNCHANGED <<iterations, tokens, scope, unclaimed, maker, told, unseen>>

MeterInit ==
  /\ iterations = 0 /\ tokens = 0
  /\ wrapper = [n \in Node |-> "new"]
  /\ scope = [n \in Node |-> 0]
  /\ unclaimed = [n \in Node |-> {}]
  /\ maker = <<>>
  /\ told = {}
  /\ reported = [n \in Node |-> 0]
  /\ unseen = <<>>

MeterNext ==
  \E n \in Node :
    \/ RefuseEntry(n) \/ Admit(n) \/ ChargeIteration(n)
    \/ \E c \in Call : LlmEnd(n, c) \/ Report(n, c)
    \/ LlmCheck(n) \/ LlmRaises(n)
    \/ \E k \in Unseen : ChargeUnseen(n, k)
    \/ BodyRaises(n) \/ LeaveNode(n)

MeterSpec == MeterInit /\ [][MeterNext]_meterVars

(***************************************************************************)
(* Properties.                                                             *)
(***************************************************************************)
Total(f) == MapThenSumSet(LAMBDA x : f[x], DOMAIN f)

Done == {n \in Node : wrapper[n] \in {"refused", "raised", "ended"}}

(* The values the variables range over.                                     *)
MeterTypeOK ==
  /\ iterations \in Nat /\ tokens \in Nat
  /\ wrapper \in [Node -> {"new", "admitted", "body", "checking", "refused", "raised", "ended"}]
  /\ scope \in [Node -> Nat]
  /\ unclaimed \in [Node -> SUBSET Call]
  /\ maker \in UNION {[S -> Node] : S \in SUBSET Call}
  /\ told \subseteq Made
  /\ reported \in [Node -> Nat]

(* The meter reads what was really spent: every call once, whether or not   *)
(* a node also reports it by hand and whatever its siblings do meanwhile,   *)
(* and every charge that names no call, even of the size of one that was    *)
(* metered.  (With the type invariant.)                                     *)
SpendIsExact == MeterTypeOK /\ tokens = Total([c \in Made |-> Cost[c]]) + Total(unseen)

(* The terminal events of a run's nodes add up to the run's total: no       *)
(* node's event carries what a sibling spent while it was running.          *)
EventsAddUp == Done = Node => Total(reported) = tokens

(* The call that crosses the line is the last one a node makes: a run whose *)
(* spend is all seen overshoots max_tokens by less than one call for each   *)
(* node that runs at the time.                                              *)
OvershootIsOneCallEach ==
  unseen = <<>> => tokens < MaxTokens + Width * Max({Cost[c] : c \in Call})

(* The three together: what a run spent, whose it was, and where it stops.  *)
MeterIsTrue == SpendIsExact /\ EventsAddUp /\ OvershootIsOneCallEach
=============================================================================
