------------------------------ MODULE MCPlanning ------------------------------
(***************************************************************************)
(* For TLC: in part "plan" one plan from its planner to the end of its run *)
(* (PlanGate), in part "loop" the rounds that make one plan after another  *)
(* (GovernedLoop).  The loop leaves to chance what PlanGate decides, and   *)
(* hands a plan nothing but what is left of its budget.                    *)
(***************************************************************************)
EXTENDS PlanGate, GovernedLoop, TLC

(* The names a planner gives are those of kinds, so that one node may bear   *)
(* the name of another's kind.                                              *)
MCKind == {"work", "deploy", "rogue"}
MCName == {"work", "deploy", "gone"}
MCLive == {"live"}
MCLiveKind == [v \in MCLive |-> "work"]
MCCost == [k \in MCKind |-> IF k = "deploy" THEN 2 ELSE 1]
MCFactory == [k \in MCKind |-> "builds"]

(* Edges among two nodes, and one that leads somewhere it may not.          *)
Inner == {<<Start, "work">>, <<Start, "deploy">>, <<"work", "deploy">>,
          <<"deploy", "work">>, <<"work", "work">>, <<"deploy", End>>}
Odd == {<<End, "work">>, <<"work", Start>>, <<"live", "work">>, <<"work", "live">>,
        <<"work", "gone">>, <<Start, End>>}

Flat(kind, bad, edges) == [path \in {<<>>} |-> [kind |-> kind, bad |-> bad, edges |-> edges]]
Honest == [n \in {"work", "deploy"} |-> n]
Swapped == ("work" :> "deploy") @@ ("deploy" :> "work")
One == ("work" :> "work")
Line == {<<Start, "work">>, <<"work", "deploy">>, <<"deploy", End>>}

Nested == [path \in {<<>>, <<"work">>} |->
             IF path = <<>> THEN [kind |-> One, bad |-> {}, edges |-> {<<Start, "work">>}]
             ELSE [kind |-> "deploy" :> "work", bad |-> {}, edges |-> {<<Start, "deploy">>}]]

MCOthers == {Flat(Honest, {}, Line), Flat(Honest, {}, Line \cup {<<Start, "deploy">>})}
MCPlans ==
  MCOthers \cup {Nested, Flat(One, {}, {<<Start, "work">>, <<"work", End>>})}
  \cup {Flat(Honest, {}, edges) : edges \in SUBSET Inner}
  \cup {Flat(Swapped, {}, Line \ {e}) : e \in Line \cup {<<End, End>>}}
  \cup {Flat(Honest, {}, Line \cup {e}) : e \in Odd}
  \cup {Flat(Honest, {"deploy"}, Line), Flat("work" :> "rogue", {}, {<<Start, "work">>}),
        [path \in {<<>>} |-> [kind |-> <<>>, bad |-> {}, edges |-> {}]]}

Rule(action, source, target) == [action |-> action, source |-> source, target |-> target]
Every == MCKind \cup Sentinel
Open == [rules |-> {Rule("allow", Every, Every)}, default |-> "deny"]
NoDeploy == [rules |-> {Rule("allow", Every, Every), Rule("deny", Every \ {"work"}, {"deploy"})},
             default |-> "deny"]
AskDeploy == [rules |-> {Rule("ask", Every, {"deploy"}), Rule("allow", Every, Every)}, default |-> "deny"]
Ungoverned == [rules |-> {}, default |-> "allow"]

Gate(edgePolicy, entry, acyclic, left, depth) ==
  [edgePolicy |-> edgePolicy, nodePolicy |-> Ungoverned, requireEntry |-> entry,
   requireAcyclic |-> acyclic, left |-> left, maxDepth |-> depth, parentDepth |-> 0]
MCGates == {Gate(Open, TRUE, TRUE, 4, 1), Gate(NoDeploy, FALSE, TRUE, 5, 2),
            Gate(Open, TRUE, FALSE, 5, 2), Gate(AskDeploy, TRUE, TRUE, 5, 1)}

(* A loop that executes, with a gate or without; one that only plans.       *)
Executing == [goal : BOOLEAN, gate : BOOLEAN, planOnly : {FALSE}]
PlanningOnly == [goal : {TRUE}, gate : BOOLEAN, planOnly : {TRUE}]
MCModes == Executing \cup PlanningOnly

VARIABLE part

MCInit ==
  /\ part \in {"plan", "loop"}
  /\ Init /\ LoopInit
  /\ part = "plan" => current = (CHOOSE s \in World : TRUE)
                       /\ mode = [goal |-> TRUE, gate |-> TRUE, planOnly |-> TRUE]
  /\ part = "loop" => frozen /\ gate = Gate(AskDeploy, TRUE, TRUE, 5, 1)

MCNext ==
  \/ part = "plan" /\ Next /\ UNCHANGED <<part, loopVars>>
  \/ part = "loop" /\ LoopNext /\ UNCHANGED <<part, vars>>

(* The loop's fairness, and none for part "plan".                           *)
MCSpec ==
  /\ MCInit /\ [][MCNext]_<<part, vars, loopVars>>
  /\ WF_loopVars(part = "loop" /\ Loop /\ UNCHANGED <<part, vars>>)

(* What a run that stops is, in part "loop"; the other properties are those  *)
(* of the modules extended.                                                 *)
LoopStops == part = "loop" => RunStops
=============
