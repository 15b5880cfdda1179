--------------------------- MODULE AgentTurnsProofs ----------------------------
(* Proofs about AgentTurns, for any agents, paths, documents and bounds.    *)
EXTENDS AgentTurns, TLAPS

FileState == [edits : SUBSET Agent, whole : BOOLEAN]
Details == FileState \cup {"denied", "refused", "leased", "not found", "written"}
Calls == Call \cup {Invalid}
NodeState ==
  [iterations : Nat, stalled : Nat, progressed : BOOLEAN,
   seen : SUBSET ({c.tool : c \in Calls} \X {c.path : c \in Calls} \X Details),
   calls : Seq(Calls),
   reason : {"", "budget_exhausted", "max_iterations", "error", "target_met", "no_progress", "deadline"}]
Steps == {"idle", "delegate", "communicate", "top", "model", "call", "approval", "hook", "read",
          "open", "write", "release", "done"}

(* The values the variables range over, but for those nothing here turns on.*)
TypeOK ==
  /\ doc \in Documents /\ pc \in [Agent -> Steps] /\ node \in [Agent -> NodeState]
  /\ approved \in [Agent -> BOOLEAN] /\ buffer \in [Agent -> SUBSET Agent]
  /\ lease \in [Path -> Agent \cup {None}] /\ file \in [Path -> FileState]
  /\ sure \in [Path -> SUBSET Agent] /\ torn \subseteq Path /\ cut \subseteq Agent

(***************************************************************************)
(* What a decision says.                                                   *)
(***************************************************************************)
LEMMA StrictestIs ==
  ASSUME NEW E, E \subseteq {"deny", "ask", "allow"}, E # {}
  PROVE  /\ Strictest(E) \in E
         /\ Strictest(E) = "allow" => E = {"allow"}
         /\ Strictest(E) = "ask" => "deny" \notin E
<1>. DEFINE P(i) == Tiers[i] \in E /\ \A j \in 1..(i - 1) : Tiers[j] \notin E
            k == CHOOSE i \in 1..3 : P(i)
<1>1. Tiers[1] = "deny" /\ Tiers[2] = "ask" /\ Tiers[3] = "allow"
  BY DEF Tiers
<1>2. \E i \in 1..3 : P(i)
  <2>1. CASE "deny" \in E
    <3>1. P(1)
      BY <1>1, <2>1
    <3>. QED  BY <3>1
  <2>2. CASE "deny" \notin E /\ "ask" \in E
    <3>1. P(2)
      BY <1>1, <2>2
    <3>. QED  BY <3>1
  <2>3. CASE "deny" \notin E /\ "ask" \notin E
    <3>1. "allow" \in E
      BY <2>3
    <3>2. \A j \in 1..(3 - 1) : j = 1 \/ j = 2
      OBVIOUS
    <3>3. P(3)
      BY <1>1, <2>3, <3>1, <3>2
    <3>. QED  BY <3>3
  <2>. QED  BY <2>1, <2>2, <2>3
<1>3. k \in 1..3 /\ P(k)
  BY <1>2
<1>4. Strictest(E) = Tiers[k]
  BY DEF Strictest
<1>. HIDE DEF k
<1>5. k = 1 \/ k = 2 \/ k = 3
  BY <1>3
<1>6. CASE k = 1
  BY <1>1, <1>3, <1>4, <1>6
<1>7. CASE k = 2
  <2>1. Tiers[1] \notin E /\ Tiers[2] \in E
    BY <1>3, <1>7
  <2>. QED  BY <1>1, <1>4, <1>7, <2>1
<1>8. CASE k = 3
  <2>1. Tiers[1] \notin E /\ Tiers[2] \notin E /\ Tiers[3] \in E
    BY <1>3, <1>8
  <2>. QED  BY <1>1, <1>4, <1>8, <2>1
<1>. QED  BY <1>5, <1>6, <1>7, <1>8

LEMMA EffectIs ==
  ASSUME NEW rules, NEW default, NEW tool,
         \A r \in rules : r.effect \in {"deny", "ask", "allow"},
         default \in {"deny", "ask", "allow"}
  PROVE  Effect(rules, default, tool) \in {"deny", "ask", "allow"}
<1>. DEFINE E == {r.effect : r \in {q \in rules : tool \in q.match}}
<1>1. E \subseteq {"deny", "ask", "allow"}
  OBVIOUS
<1>. HIDE DEF E
<1>2. E # {} => Strictest(E) \in {"deny", "ask", "allow"}
  BY <1>1, StrictestIs
<1>. QED  BY <1>2 DEF Effect, E

LEMMA EvaluateIs ==
  ASSUME NEW d \in Documents, NEW tool
  PROVE  /\ Evaluate(d, Tenant, tool) \in {"deny", "ask", "allow"}
         /\ Decide(Compiled(d, Tenant), tool) = Evaluate(d, Tenant, tool)
<1>1. \A r \in RulesFor(d, Tenant) : r.effect \in {"deny", "ask", "allow"}
  BY AgentAssumption DEF RulesFor
<1>2. Effect(RulesFor(d, Tenant), d.default, tool) \in {"deny", "ask", "allow"}
  BY <1>1, EffectIs, AgentAssumption
<1>3. Effect({}, "deny", tool) = "deny"
  BY DEF Effect
<1>. QED  BY <1>2, <1>3 DEF Evaluate, Compiled, Decide

LEMMA AllowlistIs ==
  ASSUME NEW tools, NEW tool
  PROVE  /\ Decide(Allowlist(tools), tool) \in {"deny", "allow"}
         /\ Decide(Allowlist(tools), tool) # "deny" => tool \in tools
<1>. DEFINE rule == [effect |-> "allow", match |-> tools]
            E == {r.effect : r \in {q \in {rule} : tool \in q.match}}
<1>1. Decide(Allowlist(tools), tool) = IF E = {} THEN "deny" ELSE Strictest(E)
  BY DEF Decide, Allowlist, Effect
<1>2. tool \notin tools => E = {}
  OBVIOUS
<1>3. E # {} => E = {"allow"}
  OBVIOUS
<1>. HIDE DEF E
<1>4. E # {} => Strictest(E) = "allow"
  <2>. SUFFICES ASSUME E = {"allow"} PROVE Strictest(E) = "allow"
    BY <1>3
  <2>1. Strictest(E) \in E
    BY StrictestIs
  <2>. QED  BY <2>1
<1>. QED  BY <1>1, <1>2, <1>4

(* What the tool registry, the kind's allowlist and the document say of a   *)
(* call that a harness lets through or sends to an approver.                *)
LEMMA DecisionIs ==
  ASSUME TypeOK, NEW a \in Agent, NEW tool, Decision(a, tool) \in {"ask", "allow"}
  PROVE  /\ tool \in ToolsFor(a)
         /\ Decision(a, tool) = "allow" => Evaluate(doc, Tenant, tool) = "allow"
<1>. DEFINE A == Decide(Allowlist(ToolsFor(a)), tool)
            C == Decide(Compiled(doc, Tenant), tool)
            E == {Decide(q, tool) : q \in {Allowlist(ToolsFor(a)), Compiled(doc, Tenant)}}
<1>1. Decision(a, tool) = Strictest(E)
  BY DEF Decision, Combined
<1>2. E = {A, C}
  OBVIOUS
<1>3. A \in {"deny", "allow"} /\ (A # "deny" => tool \in ToolsFor(a))
  BY AllowlistIs
<1>4. C \in {"deny", "ask", "allow"} /\ C = Evaluate(doc, Tenant, tool)
  BY EvaluateIs DEF TypeOK
<1>. HIDE DEF A, C, E
<1>5. E \subseteq {"deny", "ask", "allow"} /\ E # {}
  BY <1>2, <1>3, <1>4
<1>6. /\ Strictest(E) = "allow" => E = {"allow"}
      /\ Strictest(E) = "ask" => "deny" \notin E
  BY <1>5, StrictestIs
<1>. QED  BY <1>1, <1>2, <1>3, <1>4, <1>6

(***************************************************************************)
(* The inductive invariant.                                                *)
(***************************************************************************)
InCall == {"approval", "hook", "read", "open", "write"}

(* A call under way is one of a registered tool, and was let through.       *)
Licensed(a) ==
  pc[a] \in InCall =>
    /\ node[a].calls # <<>> /\ Now(a) \in Call
    /\ Now(a).tool \in LeasedTools => kind[a] = "fix_one"
    /\ pc[a] # "approval" =>
         \/ Evaluate(doc, Tenant, Now(a).tool) = "allow"
         \/ Evaluate(doc, Tenant, Now(a).tool) = "ask" /\ approved[a]

(* From the hook on, who writes a file holds its lease, and what it is      *)
(* about to write over is what it has read.                                 *)
Writes(a) == pc[a] \in {"open", "write"} \/ (pc[a] = "read" /\ Now(a).tool = "edit_file")

Owns(a) ==
  Writes(a) =>
    /\ Now(a).tool \in LeasedTools /\ lease[Now(a).path] = a
    /\ pc[a] = "open" /\ Now(a).tool = "edit_file" => buffer[a] = file[Now(a).path].edits
    /\ pc[a] = "write" /\ Now(a).tool = "edit_file" =>
         sure[Now(a).path] \subseteq buffer[a] \/ Now(a).path \in torn

IInv ==
  /\ TypeOK /\ EditsSurvive /\ LeaseEndsWithItsNode
  /\ \A a \in Agent : Licensed(a) /\ Owns(a)

(* A step of agent x, seen from another one: its place, what it holds and   *)
(* the files it has leased are as they were.                                *)
Only(x) ==
  /\ doc' = doc /\ kind' = kind
  /\ \A b \in Agent : b # x => /\ pc'[b] = pc[b] /\ node'[b] = node[b]
                               /\ approved'[b] = approved[b] /\ buffer'[b] = buffer[b]
  /\ \A p \in Path : lease[p] \in Agent /\ lease[p] # x =>
       /\ lease'[p] = lease[p] /\ file'[p] = file[p] /\ sure'[p] = sure[p]
       /\ p \in torn => p \in torn'

LEMMA OthersKeep ==
  ASSUME IInv, NEW x \in Agent, Only(x), NEW b \in Agent, b # x
  PROVE  Licensed(b)' /\ Owns(b)'
<1>1. Licensed(b) /\ Owns(b)
  BY DEF IInv
<1>2. /\ doc' = doc /\ kind' = kind /\ pc'[b] = pc[b] /\ node'[b] = node[b]
      /\ approved'[b] = approved[b] /\ buffer'[b] = buffer[b] /\ Now(b)' = Now(b)
  BY DEF Only, Now
<1>3. Licensed(b)'
  BY <1>1, <1>2 DEF Licensed, Now
<1>4. ASSUME Writes(b)
      PROVE  /\ Now(b).path \in Path /\ lease[Now(b).path] = b
             /\ lease'[Now(b).path] = b /\ file'[Now(b).path] = file[Now(b).path]
             /\ sure'[Now(b).path] = sure[Now(b).path]
             /\ Now(b).path \in torn => Now(b).path \in torn'
  <2>1. Now(b) \in Call
    BY <1>1, <1>4 DEF Licensed, Writes, InCall
  <2>2. Now(b).path \in Path
    BY <2>1 DEF Call
  <2>. QED  BY <1>1, <1>4, <2>2 DEF Owns, Only
<1>5. Writes(b)' = Writes(b)
  BY <1>2 DEF Writes
<1>6. Owns(b)'
  BY <1>1, <1>2, <1>4, <1>5 DEF Owns
<1>. QED  BY <1>3, <1>6

(* A step that leaves leases and files alone.                               *)
LEMMA QuietKeeps ==
  ASSUME IInv, NEW x \in Agent, TypeOK', Only(x), UNCHANGED <<lease, file, sure>>,
         torn \subseteq torn', cut \subseteq cut',
         Licensed(x)', Owns(x)',
         pc[x] = "write" => Now(x).path \in torn',
         pc'[x] \notin {"idle", "done"} \/ x \in cut' \/ (\A p \in Path : lease[p] # x)
  PROVE  IInv'
<1>1. \A b \in Agent : Licensed(b)' /\ Owns(b)'
  BY OthersKeep
<1>2. EditsSurvive'
  <2>. SUFFICES ASSUME NEW p \in Path,
                       \A a \in Agent : ~(At(a, "write") /\ Now(a).path = p)'
                PROVE  sure[p] \subseteq file[p].edits \/ p \in torn'
    BY DEF EditsSurvive
  <2>1. \A a \in Agent : a # x => ~(At(a, "write") /\ Now(a).path = p)
    BY DEF Only, At, Now
  <2>2. CASE pc[x] = "write" /\ Now(x).path = p
    BY <2>2
  <2>3. CASE ~(pc[x] = "write" /\ Now(x).path = p)
    BY <2>1, <2>3 DEF IInv, EditsSurvive, At
  <2>. QED  BY <2>2, <2>3
<1>3. LeaseEndsWithItsNode'
  <2>. SUFFICES ASSUME NEW p \in Path, lease[p] # None
                PROVE  Running(lease[p])' \/ lease[p] \in cut'
    BY DEF LeaseEndsWithItsNode
  <2>1. CASE lease[p] = x
    BY <2>1 DEF Running
  <2>2. CASE lease[p] # x
    <3>1. lease[p] \in Agent
      BY DEF IInv, TypeOK
    <3>2. Running(lease[p]) \/ lease[p] \in cut
      BY DEF IInv, LeaseEndsWithItsNode
    <3>. QED  BY <2>2, <3>1, <3>2 DEF Running, Only
  <2>. QED  BY <2>1, <2>2
<1>. QED  BY <1>1, <1>2, <1>3 DEF IInv

LEMMA InitIsInv == Init => IInv
<1>. SUFFICES ASSUME Init PROVE IInv
  OBVIOUS
<1>1. Fresh \in NodeState
  BY DEF Fresh, NodeState
<1>2. TypeOK
  BY <1>1 DEF Init, TypeOK, Steps, FileState
<1>3. EditsSurvive /\ LeaseEndsWithItsNode
  BY DEF Init, EditsSurvive, LeaseEndsWithItsNode
<1>4. \A a \in Agent : Licensed(a) /\ Owns(a)
  BY DEF Init, Licensed, Owns, Writes, InCall
<1>. QED  BY <1>2, <1>3, <1>4 DEF IInv

(***************************************************************************)
(* How the variables keep their types.                                     *)
(***************************************************************************)
(* The end of a call.                                                       *)
LEMMA RecordIs ==
  ASSUME TypeOK, NEW x \in Agent, NEW ok \in BOOLEAN, NEW detail \in Details,
         node[x].calls # <<>>, Record(x, ok, detail)
  PROVE  /\ node' \in [Agent -> NodeState] /\ approved' \in [Agent -> BOOLEAN]
         /\ buffer' \in [Agent -> SUBSET Agent] /\ pc' \in [Agent -> Steps]
         /\ pc'[x] = "call"
         /\ \A b \in Agent : b # x => /\ pc'[b] = pc[b] /\ node'[b] = node[b]
                                      /\ approved'[b] = approved[b] /\ buffer'[b] = buffer[b]
<1>. DEFINE s == node[x]
            key == <<Now(x).tool, Now(x).path, detail>>
            r == [s EXCEPT !.calls = Tail(@),
                           !.progressed = @ \/ (ok /\ key \notin s.seen),
                           !.seen = IF ok THEN @ \cup {key} ELSE @]
<1>1. s \in NodeState
  BY DEF TypeOK
<1>2. s.calls \in Seq(Calls) /\ s.calls # <<>>
  BY <1>1 DEF NodeState
<1>3. Now(x) \in Calls /\ Tail(s.calls) \in Seq(Calls)
  BY <1>2 DEF Now
<1>4. key \in {c.tool : c \in Calls} \X {c.path : c \in Calls} \X Details
  BY <1>3
<1>5. r \in NodeState
  <2>. HIDE DEF key
  <2>. QED  BY <1>1, <1>3, <1>4 DEF NodeState
<1>6. node' = [node EXCEPT ![x] = r]
  BY DEF Record, TypeOK
<1>. HIDE DEF r
<1>7. node' \in [Agent -> NodeState] /\ \A b \in Agent : b # x => node'[b] = node[b]
  BY <1>5, <1>6 DEF TypeOK
<1>. QED  BY <1>7 DEF Record, Goto, TypeOK, Steps

(***************************************************************************)
(* The steps.                                                              *)
(***************************************************************************)
(* The step concerns agent x alone.                                         *)
Alone(x) ==
  /\ doc' = doc /\ kind' = kind
  /\ node' \in [Agent -> NodeState] /\ approved' \in [Agent -> BOOLEAN]
  /\ buffer' \in [Agent -> SUBSET Agent] /\ pc' \in [Agent -> Steps]
  /\ torn' \subseteq Path /\ cut' \subseteq Agent
  /\ \A b \in Agent : b # x => /\ pc'[b] = pc[b] /\ node'[b] = node[b]
                               /\ approved'[b] = approved[b] /\ buffer'[b] = buffer[b]

(* Steps outside a call, and out of one.                                    *)
LEMMA OutsideKeeps ==
  ASSUME IInv, NEW x \in Agent, Alone(x), UNCHANGED <<lease, file, sure>>,
         torn \subseteq torn', cut \subseteq cut',
         pc'[x] \notin InCall, pc'[x] \notin {"idle", "done"} \/ x \in cut',
         pc[x] = "write" => Now(x).path \in torn'
  PROVE  IInv'
<1>1. TypeOK'
  BY DEF IInv, TypeOK, Alone
<1>2. Only(x)
  BY DEF Only, Alone
<1>3. Licensed(x)' /\ Owns(x)'
  BY DEF Licensed, Owns, Writes, InCall
<1>. QED  BY <1>1, <1>2, <1>3, QuietKeeps

LEMMA RecordKeeps ==
  ASSUME IInv, NEW x \in Agent, NEW ok \in BOOLEAN, NEW detail \in Details,
         node[x].calls # <<>>, Record(x, ok, detail), pc[x] # "write",
         UNCHANGED <<doc, kind, lease, file, sure, torn, cut>>
  PROVE  IInv'
<1>1. /\ Alone(x) /\ pc'[x] = "call"
  BY RecordIs DEF Alone, IInv, TypeOK
<1>. QED  BY <1>1, OutsideKeeps DEF InCall

LEMMA StopKeeps ==
  ASSUME IInv, NEW x \in Agent,
         NEW why \in {"budget_exhausted", "max_iterations", "error", "target_met", "deadline"},
         Stop(x, why), UNCHANGED <<doc, kind, lease, file, sure, cut, approved, buffer>>,
         torn \subseteq torn', torn' \subseteq Path, pc[x] = "write" => Now(x).path \in torn'
  PROVE  IInv'
<1>1. node[x] \in NodeState
  BY DEF IInv, TypeOK
<1>2. [node[x] EXCEPT !.reason = why] \in NodeState
  BY <1>1 DEF NodeState
<1>3. node' \in [Agent -> NodeState] /\ \A b \in Agent : b # x => node'[b] = node[b]
  BY <1>2 DEF Stop, IInv, TypeOK
<1>4. Alone(x) /\ pc'[x] = "release"
  BY <1>3 DEF Alone, Stop, Goto, IInv, TypeOK, Steps
<1>. QED  BY <1>4, OutsideKeeps DEF InCall

LEMMA StartKeeps == ASSUME IInv, NEW x \in Agent, Start(x) PROVE IInv'
<1>1. pc'[x] \in {"delegate", "top"} /\ pc[x] # "write"
  BY DEF Start, Goto, At, IInv, TypeOK
<1>2. Alone(x)
  BY DEF Start, Goto, Same, Alone, IInv, TypeOK, Steps
<1>. QED  BY <1>1, <1>2, OutsideKeeps DEF Start, Same, SameFiles, InCall

LEMMA TopKeeps == ASSUME IInv, NEW x \in Agent, Top(x) PROVE IInv'
<1>1. CASE \E why \in {"budget_exhausted", "max_iterations"} : Stop(x, why)
  BY <1>1, StopKeeps DEF Top, Same, SameFiles, At, IInv, TypeOK
<1>2. CASE /\ Goto(x, "model")
           /\ node' = [node EXCEPT ![x].iterations = @ + 1, ![x].progressed = FALSE]
  <2>1. node[x] \in NodeState
    BY DEF IInv, TypeOK
  <2>2. [node[x] EXCEPT !.iterations = @ + 1, !.progressed = FALSE] \in NodeState
    <3>0. node[x].iterations \in Nat
      BY <2>1 DEF NodeState
    <3>1. node[x].iterations + 1 \in Nat
      BY <3>0
    <3>. DEFINE i == node[x].iterations + 1
    <3>. HIDE DEF i
    <3>2. [node[x] EXCEPT !.iterations = i] \in NodeState
      BY <2>1, <3>1 DEF NodeState, i
    <3>3. [[node[x] EXCEPT !.iterations = i] EXCEPT !.progressed = FALSE] \in NodeState
      BY <3>2 DEF NodeState
    <3>. QED  BY <3>3 DEF i
  <2>3. node' \in [Agent -> NodeState] /\ \A b \in Agent : b # x => node'[b] = node[b]
    BY <1>2, <2>2 DEF IInv, TypeOK
  <2>4. Alone(x) /\ pc'[x] = "model"
    BY <1>2, <2>3 DEF Top, Goto, Same, Alone, IInv, TypeOK, Steps
  <2>. QED  BY <2>4, OutsideKeeps DEF Top, At, Same, SameFiles, InCall
<1>. QED  BY <1>1, <1>2 DEF Top

LEMMA RepliesKeeps == ASSUME IInv, NEW x \in Agent, Replies(x) PROVE IInv'
<1>1. CASE \E why \in {"error", "target_met"} : Stop(x, why)
  BY <1>1, StopKeeps DEF Replies, Same, SameFiles, At, IInv, TypeOK
<1>2. CASE \E n \in 0..MaxCalls : \E calls \in [1..n -> Call], invalid \in {<<>>, <<Invalid>>} :
             /\ node' = [node EXCEPT ![x].calls = calls \o invalid] /\ Goto(x, "call")
  <2>0. PICK n \in 0..MaxCalls : \E calls \in [1..n -> Call], invalid \in {<<>>, <<Invalid>>} :
          /\ node' = [node EXCEPT ![x].calls = calls \o invalid] /\ Goto(x, "call")
    BY <1>2
  <2>1. PICK calls \in [1..n -> Call], invalid \in {<<>>, <<Invalid>>} :
          /\ node' = [node EXCEPT ![x].calls = calls \o invalid] /\ Goto(x, "call")
    BY <2>0
  <2>2. calls \in Seq(Calls) /\ invalid \in Seq(Calls)
    <3>1. n \in Nat /\ Call \subseteq Calls /\ Invalid \in Calls
      BY AgentAssumption DEF Calls
    <3>2. calls \in [1..n -> Calls]
      BY <3>1
    <3>3. calls \in Seq(Calls)
      BY <3>1, <3>2
    <3>4. <<>> \in Seq(Calls) /\ <<Invalid>> \in Seq(Calls)
      <4>. HIDE DEF Calls
      <4>. QED  BY <3>1
    <3>5. invalid = <<>> \/ invalid = <<Invalid>>
      OBVIOUS
    <3>. QED  BY <3>3, <3>4, <3>5
  <2>3. calls \o invalid \in Seq(Calls)
    BY <2>2
  <2>4. node[x] \in NodeState
    BY DEF IInv, TypeOK
  <2>5. [node[x] EXCEPT !.calls = calls \o invalid] \in NodeState
    BY <2>3, <2>4 DEF NodeState
  <2>6. node' \in [Agent -> NodeState] /\ \A b \in Agent : b # x => node'[b] = node[b]
    BY <2>1, <2>5 DEF IInv, TypeOK
  <2>7. Alone(x) /\ pc'[x] = "call"
    BY <2>1, <2>6 DEF Replies, Goto, Same, Alone, IInv, TypeOK, Steps
  <2>. QED  BY <2>7, OutsideKeeps DEF Replies, At, Same, SameFiles, InCall
<1>. QED  BY <1>1, <1>2 DEF Replies

LEMMA EndTurnKeeps == ASSUME IInv, NEW x \in Agent, EndTurn(x) PROVE IInv'
<1>. DEFINE stalled == IF node[x].progressed THEN 0 ELSE node[x].stalled + 1
            why == IF stalled >= MaxStalled THEN "no_progress" ELSE node[x].reason
<1>1. node[x] \in NodeState
  BY DEF IInv, TypeOK
<1>2. stalled \in Nat
  <2>1. node[x].stalled \in Nat
    BY <1>1 DEF NodeState
  <2>. QED  BY <2>1
<1>9. node[x].reason \in {"", "budget_exhausted", "max_iterations", "error",
                                            "target_met", "no_progress", "deadline"}
  BY <1>1 DEF NodeState
<1>3. why \in {"", "budget_exhausted", "max_iterations", "error", "target_met", "no_progress",
               "deadline"}
  BY <1>9
<1>4. node' = [node EXCEPT ![x] = [node[x] EXCEPT !.stalled = stalled, !.reason = why]]
  BY DEF EndTurn, IInv, TypeOK
<1>5. pc' = [pc EXCEPT ![x] = IF stalled >= MaxStalled THEN "release" ELSE "top"]
  BY DEF EndTurn, Goto
<1>. HIDE DEF stalled, why
<1>6. [node[x] EXCEPT !.stalled = stalled, !.reason = why] \in NodeState
  BY <1>1, <1>2, <1>3 DEF NodeState
<1>7. node' \in [Agent -> NodeState] /\ \A b \in Agent : b # x => node'[b] = node[b]
  BY <1>4, <1>6 DEF IInv, TypeOK
<1>8. Alone(x) /\ pc'[x] \in {"release", "top"}
  BY <1>5, <1>7 DEF EndTurn, Same, Alone, IInv, TypeOK, Steps
<1>. QED  BY <1>8, OutsideKeeps DEF EndTurn, At, Same, SameFiles, InCall

(* A call under way goes one step further, its licence and lease in hand.   *)
LEMMA FurtherKeeps ==
  ASSUME IInv, NEW x \in Agent, NEW step \in Steps, Goto(x, step), UNCHANGED node,
         approved' \in [Agent -> BOOLEAN], buffer' \in [Agent -> SUBSET Agent],
         \A b \in Agent : b # x => approved'[b] = approved[b] /\ buffer'[b] = buffer[b],
         UNCHANGED <<doc, kind, lease, file, sure, torn, cut>>,
         pc[x] # "write", step \in InCall, Licensed(x)', Owns(x)'
  PROVE  IInv'
<1>1. Alone(x) /\ pc'[x] = step
  BY DEF Alone, Goto, IInv, TypeOK
<1>2. TypeOK'
  BY <1>1 DEF IInv, TypeOK, Alone
<1>3. Only(x)
  BY <1>1 DEF Only, Alone
<1>4. step \notin {"idle", "done"}
  BY DEF InCall
<1>. QED  BY <1>1, <1>2, <1>3, <1>4, QuietKeeps

LEMMA InvalidIs == ASSUME NEW c \in Calls PROVE c # Invalid <=> c \in Call
<1>1. Invalid \notin Call
  BY AgentAssumption DEF Invalid, Call
<1>. QED  BY <1>1 DEF Calls

LEMMA PermitKeeps == ASSUME IInv, NEW x \in Agent, Permit(x) PROVE IInv'
<1>. DEFINE decision == IF Now(x) = Invalid THEN "deny" ELSE Decision(x, Now(x).tool)
<1>1. /\ pc[x] = "call" /\ node[x].calls # <<>> /\ UNCHANGED <<doc, kind, lease, file, sure, torn, cut>>
      /\ \/ Record(x, FALSE, "denied")
         \/ decision = "ask" /\ Goto(x, "approval") /\ UNCHANGED <<node, approved, buffer>>
         \/ decision = "allow" /\ Goto(x, "hook") /\ UNCHANGED <<node, approved, buffer>>
  BY DEF Permit, At, Same, SameFiles
<1>2. Now(x) \in Calls
  <2>1. node[x] \in NodeState
    BY DEF IInv, TypeOK
  <2>2. node[x].calls \in Seq(Calls)
    BY <2>1 DEF NodeState
  <2>. QED  BY <1>1, <2>2 DEF Now
<1>3. ASSUME decision \in {"ask", "allow"}
      PROVE  /\ Now(x) \in Call /\ decision = Decision(x, Now(x).tool)
             /\ Now(x).tool \in ToolsFor(x)
             /\ decision = "allow" => Evaluate(doc, Tenant, Now(x).tool) = "allow"
  <2>1. Now(x) \in Call /\ decision = Decision(x, Now(x).tool)
    BY <1>2, <1>3, InvalidIs
  <2>2. Decision(x, Now(x).tool) \in {"ask", "allow"}
    BY <1>3, <2>1
  <2>3. TypeOK
    BY DEF IInv
  <2>. HIDE DEF decision
  <2>. QED  BY <2>1, <2>2, <2>3, DecisionIs
<1>4. CASE Record(x, FALSE, "denied")
  BY <1>1, <1>4, RecordKeeps DEF Details
<1>5. ASSUME decision \in {"ask", "allow"}, NEW step \in {"approval", "hook"},
             step = "hook" => decision = "allow",
             Goto(x, step), UNCHANGED <<node, approved, buffer>>
      PROVE  IInv'
  <2>1. pc'[x] = step /\ step \in Steps /\ step \in InCall
    BY <1>5 DEF Goto, IInv, TypeOK, Steps, InCall
  <2>2. Now(x)' = Now(x)
    BY <1>5 DEF Now
  <2>3. Now(x).tool \in LeasedTools => kind[x] = "fix_one"
    BY <1>3, <1>5 DEF ToolsFor, LeasedTools, ReadTools
  <2>4. step = "hook" => Evaluate(doc, Tenant, Now(x).tool) = "allow"
    BY <1>3, <1>5
  <2>5. Now(x) \in Call
    BY <1>3, <1>5
  <2>. HIDE DEF decision
  <2>6. Licensed(x)'
    BY <1>1, <1>5, <2>1, <2>2, <2>3, <2>4, <2>5 DEF Licensed
  <2>7. Owns(x)'
    BY <1>5, <2>1 DEF Owns, Writes
  <2>8. approved' \in [Agent -> BOOLEAN] /\ buffer' \in [Agent -> SUBSET Agent]
    BY <1>5 DEF IInv, TypeOK
  <2>. QED  BY <1>1, <1>5, <2>1, <2>6, <2>7, <2>8, FurtherKeeps
<1>. QED  BY <1>1, <1>4, <1>5

LEMMA ApprovalKeeps == ASSUME IInv, NEW x \in Agent, Approval(x) PROVE IInv'
<1>1. /\ pc[x] = "approval" /\ UNCHANGED <<doc, kind, lease, file, sure, torn, cut>>
      /\ \E answer \in {"yes", "no", "raises"} :
           \E granted \in Routed(doc, Tenant, Handlers, Now(x).tool, answer) :
             IF granted
             THEN /\ approved' = [approved EXCEPT ![x] = TRUE]
                  /\ Goto(x, "hook") /\ UNCHANGED <<node, buffer>>
             ELSE Record(x, FALSE, "refused")
  BY DEF Approval, At, Same, SameFiles
<1>2. PICK answer \in {"yes", "no", "raises"} :
        \E granted \in Routed(doc, Tenant, Handlers, Now(x).tool, answer) :
          IF granted
          THEN /\ approved' = [approved EXCEPT ![x] = TRUE]
               /\ Goto(x, "hook") /\ UNCHANGED <<node, buffer>>
          ELSE Record(x, FALSE, "refused")
  BY <1>1
<1>3. PICK granted \in Routed(doc, Tenant, Handlers, Now(x).tool, answer) :
        IF granted
        THEN /\ approved' = [approved EXCEPT ![x] = TRUE]
             /\ Goto(x, "hook") /\ UNCHANGED <<node, buffer>>
        ELSE Record(x, FALSE, "refused")
  BY <1>2
<1>4. Licensed(x)
  BY DEF IInv
<1>5. CASE ~granted
  <2>1. Record(x, FALSE, "refused") /\ node[x].calls # <<>> /\ "refused" \in Details
    BY <1>1, <1>3, <1>4, <1>5 DEF Licensed, InCall, Details
  <2>. QED  BY <1>1, <2>1, RecordKeeps
<1>6. CASE granted
  <2>1. /\ approved' = [approved EXCEPT ![x] = TRUE]
        /\ Goto(x, "hook") /\ UNCHANGED <<node, buffer>>
    BY <1>3, <1>6
  <2>2. Now(x)' = Now(x) /\ pc'[x] = "hook"
    BY <2>1 DEF Now, Goto, IInv, TypeOK
  <2>3. Evaluate(doc, Tenant, Now(x).tool) \in {"allow", "ask"}
    <3>1. Evaluate(doc, Tenant, Now(x).tool) \in {"deny", "ask", "allow"}
      BY EvaluateIs DEF IInv, TypeOK
    <3>2. CASE Evaluate(doc, Tenant, Now(x).tool) = "deny"
      <4>1. Routed(doc, Tenant, Handlers, Now(x).tool, answer) = {FALSE}
        BY <3>2 DEF Routed
      <4>2. granted \in {FALSE}
        BY <4>1
      <4>. QED  BY <4>2, <1>6
    <3>. QED  BY <3>1, <3>2
  <2>4. Licensed(x)'
    BY <1>1, <1>4, <2>1, <2>2, <2>3 DEF Licensed, InCall, IInv, TypeOK
  <2>5. Owns(x)'
    BY <2>2 DEF Owns, Writes
  <2>6. /\ approved' \in [Agent -> BOOLEAN] /\ buffer' \in [Agent -> SUBSET Agent]
        /\ \A b \in Agent : b # x => approved'[b] = approved[b] /\ buffer'[b] = buffer[b]
    BY <2>1 DEF IInv, TypeOK
  <2>. QED  BY <1>1, <2>1, <2>4, <2>5, <2>6, FurtherKeeps DEF Steps, InCall
<1>. QED  BY <1>5, <1>6

LEMMA HookKeeps == ASSUME IInv, NEW x \in Agent, Hook(x) PROVE IInv'
<1>. DEFINE p == Now(x).path
            tool == Now(x).tool
<1>1. pc[x] = "hook" /\ UNCHANGED <<doc, kind, file, sure, torn, cut>>
  BY DEF Hook, At, Same
<1>2. /\ TypeOK /\ Licensed(x) /\ node[x].calls # <<>> /\ Now(x) \in Call /\ p \in Path
      /\ tool \in {"read_file", "edit_file", "write_file", "run_command"}
  BY <1>1 DEF IInv, Licensed, InCall, Call
<1>3. CASE Leased(tool) /\ lease[p] \notin {None, x}
  <2>1. Record(x, FALSE, "leased") /\ UNCHANGED lease
    BY <1>3 DEF Hook
  <2>. QED  BY <1>1, <1>2, <2>1, RecordKeeps DEF Details
<1>4. CASE ~(Leased(tool) /\ lease[p] \notin {None, x})
  <2>1. /\ lease' = IF Leased(tool) THEN [lease EXCEPT ![p] = x] ELSE lease
        /\ Goto(x, IF tool = "write_file" THEN "open" ELSE "read")
        /\ UNCHANGED <<node, approved, buffer>>
    BY <1>4 DEF Hook
  <2>2. pc'[x] = (IF tool = "write_file" THEN "open" ELSE "read") /\ Now(x)' = Now(x)
    BY <1>2, <2>1 DEF Goto, Now, TypeOK
  <2>3. \A q \in Path : lease'[q] = IF Leased(tool) /\ q = p THEN x ELSE lease[q]
    BY <1>2, <2>1 DEF TypeOK
  <2>4. TypeOK'
    <3>1. lease' \in [Path -> Agent \cup {None}]
      BY <1>2, <2>1 DEF TypeOK
    <3>2. pc' \in [Agent -> Steps]
      BY <1>2, <2>1 DEF TypeOK, Goto, Steps
    <3>. QED  BY <1>1, <1>2, <2>1, <3>1, <3>2 DEF TypeOK
  <2>5. Only(x)
    <3>1. \A q \in Path : lease[q] \in Agent /\ lease[q] # x => lease'[q] = lease[q]
      BY <1>4, <2>3, AgentAssumption
    <3>. QED  BY <1>1, <2>1, <3>1 DEF Only, Goto, IInv, TypeOK
  <2>6. Licensed(x)'
    BY <1>1, <1>2, <2>1, <2>2 DEF Licensed, InCall
  <2>7. Owns(x)'
    <3>. SUFFICES ASSUME Writes(x)' PROVE Owns(x)'
      BY DEF Owns
    <3>1. tool \in LeasedTools
      BY <2>2 DEF Writes, LeasedTools
    <3>2. lease'[p] = x
      BY <1>2, <2>3, <3>1 DEF Leased
    <3>. QED  BY <2>2, <3>1, <3>2 DEF Owns
  <2>8. \A b \in Agent : Licensed(b)' /\ Owns(b)'
    BY <2>5, <2>6, <2>7, OthersKeep
  <2>9. EditsSurvive'
    BY <1>1, <2>1, <2>2 DEF IInv, EditsSurvive, At, Now, Goto, TypeOK
  <2>10. LeaseEndsWithItsNode'
    <3>. SUFFICES ASSUME NEW q \in Path, lease'[q] # None
                  PROVE  pc'[lease'[q]] \notin {"idle", "done"} \/ lease'[q] \in cut'
      BY DEF LeaseEndsWithItsNode, Running
    <3>1. CASE lease'[q] = x
      BY <2>2, <3>1
    <3>2. CASE lease'[q] # x
      <4>1. lease'[q] = lease[q] /\ lease[q] \in Agent
        BY <1>2, <2>3, <3>2 DEF TypeOK
      <4>2. Running(lease[q]) \/ lease[q] \in cut
        BY <4>1 DEF IInv, LeaseEndsWithItsNode
      <4>. QED  BY <1>1, <2>5, <3>2, <4>1, <4>2 DEF Running, Only
    <3>. QED  BY <3>1, <3>2
  <2>. QED  BY <2>4, <2>8, <2>9, <2>10 DEF IInv
<1>. QED  BY <1>3, <1>4

LEMMA ReadKeeps == ASSUME IInv, NEW x \in Agent, Read(x) PROVE IInv'
<1>. DEFINE here == file[Now(x).path]
<1>1. pc[x] = "read" /\ UNCHANGED <<doc, kind, lease, file, sure, torn, cut>>
  BY DEF Read, At, Same, SameFiles
<1>2. /\ TypeOK /\ Licensed(x) /\ Owns(x) /\ node[x].calls # <<>> /\ Now(x) \in Call
      /\ Now(x).path \in Path /\ here \in FileState
  BY <1>1 DEF IInv, Licensed, InCall, Call, TypeOK
<1>3. CASE Record(x, TRUE, here) \/ Record(x, FALSE, "not found")
  BY <1>1, <1>2, <1>3, RecordKeeps DEF Details
<1>4. CASE /\ buffer' = [buffer EXCEPT ![x] = here.edits] /\ Now(x).tool = "edit_file"
           /\ Goto(x, "open") /\ UNCHANGED <<node, approved>>
  <2>1. here.edits \in SUBSET Agent
    BY <1>2 DEF FileState
  <2>2. /\ approved' \in [Agent -> BOOLEAN] /\ buffer' \in [Agent -> SUBSET Agent]
        /\ \A b \in Agent : b # x => approved'[b] = approved[b] /\ buffer'[b] = buffer[b]
        /\ buffer'[x] = here.edits /\ pc'[x] = "open" /\ Now(x)' = Now(x)
    BY <1>2, <1>4, <2>1 DEF TypeOK, Goto, Now
  <2>3. Licensed(x)'
    BY <1>1, <1>2, <1>4, <2>2 DEF Licensed, InCall
  <2>4. Owns(x)'
    BY <1>1, <1>2, <1>4, <2>2 DEF Owns, Writes
  <2>. QED  BY <1>1, <1>4, <2>2, <2>3, <2>4, FurtherKeeps DEF Steps, InCall
<1>5. \/ Record(x, TRUE, here) \/ Record(x, FALSE, "not found")
      \/ /\ buffer' = [buffer EXCEPT ![x] = here.edits] /\ Now(x).tool = "edit_file"
         /\ Goto(x, "open") /\ UNCHANGED <<node, approved>>
  BY DEF Read
<1>. QED  BY <1>3, <1>4, <1>5

LEMMA OpenKeeps == ASSUME IInv, NEW x \in Agent, Open(x) PROVE IInv'
<1>. DEFINE p == Now(x).path
<1>1. /\ pc[x] = "open" /\ Goto(x, "write")
      /\ file' = [file EXCEPT ![p] = [edits |-> {}, whole |-> FALSE]]
      /\ UNCHANGED <<doc, kind, late, child, sure, torn, cut, lease, node, approved, buffer>>
  BY DEF Open, At, Same
<1>2. /\ TypeOK /\ Licensed(x) /\ Owns(x) /\ Now(x) \in Call /\ p \in Path /\ lease[p] = x
  BY <1>1 DEF IInv, Licensed, InCall, Call, Owns, Writes
<1>3. pc'[x] = "write" /\ Now(x)' = Now(x) /\ \A b \in Agent : b # x => pc'[b] = pc[b]
  BY <1>1, <1>2 DEF Goto, Now, TypeOK
<1>4. TypeOK'
  <2>1. file' \in [Path -> FileState]
    BY <1>1, <1>2 DEF TypeOK, FileState
  <2>. QED  BY <1>1, <1>2, <2>1 DEF TypeOK, Goto, Steps
<1>5. Only(x)
  BY <1>1, <1>2, <1>3 DEF Only, TypeOK
<1>6. sure[p] \subseteq file[p].edits \/ p \in torn
  <2>1. \A b \in Agent : ~(At(b, "write") /\ Now(b).path = p)
    <3>. SUFFICES ASSUME NEW b \in Agent, pc[b] = "write", Now(b).path = p PROVE FALSE
      BY DEF At
    <3>1. lease[p] = b
      BY DEF IInv, Owns, Writes
    <3>. QED  BY <1>1, <1>2, <3>1
  <2>. QED  BY <1>2, <2>1 DEF IInv, EditsSurvive
<1>7. Licensed(x)'
  BY <1>1, <1>2, <1>3 DEF Licensed, InCall
<1>8. Owns(x)'
  BY <1>1, <1>2, <1>3, <1>6 DEF Owns, Writes
<1>9. \A b \in Agent : Licensed(b)' /\ Owns(b)'
  BY <1>5, <1>7, <1>8, OthersKeep
<1>10. EditsSurvive'
  <2>. SUFFICES ASSUME NEW q \in Path,
                       \A b \in Agent : ~(At(b, "write") /\ Now(b).path = q)'
                PROVE  sure'[q] \subseteq file'[q].edits \/ q \in torn'
    BY DEF EditsSurvive
  <2>1. q # p
    BY <1>3 DEF At
  <2>2. \A b \in Agent : ~(At(b, "write") /\ Now(b).path = q)
    BY <1>1, <1>3 DEF At, Now
  <2>3. sure[q] \subseteq file[q].edits \/ q \in torn
    BY <2>2 DEF IInv, EditsSurvive
  <2>. QED  BY <1>1, <1>2, <2>1, <2>3 DEF TypeOK
<1>11. LeaseEndsWithItsNode'
  BY <1>1, <1>3 DEF IInv, LeaseEndsWithItsNode, Running, TypeOK
<1>. QED  BY <1>4, <1>9, <1>10, <1>11 DEF IInv

LEMMA WriteKeeps == ASSUME IInv, NEW x \in Agent, Write(x) PROVE IInv'
<1>. DEFINE p == Now(x).path
            edit == Now(x).tool = "edit_file"
            kept == IF edit THEN buffer[x] ELSE {}
            safe == {x} \cup IF edit THEN sure[p] ELSE {}
<1>1. /\ pc[x] = "write" /\ Record(x, TRUE, "written")
      /\ file' = [file EXCEPT ![p] = [edits |-> kept \cup {x}, whole |-> TRUE]]
      /\ sure' = [sure EXCEPT ![p] = safe]
      /\ torn' = IF edit THEN torn ELSE torn \ {p}
      /\ UNCHANGED <<doc, kind, late, child, cut, lease>>
  BY DEF Write, At
<1>2. /\ TypeOK /\ Licensed(x) /\ Owns(x) /\ node[x].calls # <<>> /\ Now(x) \in Call
      /\ p \in Path /\ lease[p] = x
  BY <1>1 DEF IInv, Licensed, InCall, Call, Owns, Writes
<1>3. safe \subseteq kept \cup {x} \/ p \in torn'
  <2>1. edit => sure[p] \subseteq buffer[x] \/ p \in torn
    BY <1>1, <1>2 DEF Owns, Writes
  <2>. QED  BY <1>1, <2>1
<1>4. /\ node' \in [Agent -> NodeState] /\ approved' \in [Agent -> BOOLEAN]
      /\ buffer' \in [Agent -> SUBSET Agent] /\ pc' \in [Agent -> Steps] /\ pc'[x] = "call"
      /\ \A b \in Agent : b # x => /\ pc'[b] = pc[b] /\ node'[b] = node[b]
                                   /\ approved'[b] = approved[b] /\ buffer'[b] = buffer[b]
  BY <1>1, <1>2, RecordIs DEF Details
<1>5. kept \in SUBSET Agent /\ safe \in SUBSET Agent
  BY <1>2 DEF TypeOK
<1>. HIDE DEF kept, safe, edit
<1>6. file' \in [Path -> FileState] /\ sure' \in [Path -> SUBSET Agent] /\ torn' \subseteq Path
  <2>1. [edits |-> kept \cup {x}, whole |-> TRUE] \in FileState
    BY <1>5 DEF FileState
  <2>. QED  BY <1>1, <1>2, <1>5, <2>1 DEF TypeOK
<1>7. TypeOK'
  BY <1>1, <1>2, <1>4, <1>6 DEF TypeOK
<1>8. \A q \in Path : q # p => /\ file'[q] = file[q] /\ sure'[q] = sure[q]
                               /\ q \in torn => q \in torn'
  BY <1>1, <1>2 DEF TypeOK
<1>9. Only(x)
  BY <1>1, <1>2, <1>4, <1>8 DEF Only
<1>10. Licensed(x)' /\ Owns(x)'
  BY <1>4 DEF Licensed, Owns, Writes, InCall
<1>11. \A b \in Agent : Licensed(b)' /\ Owns(b)'
  BY <1>9, <1>10, OthersKeep
<1>12. EditsSurvive'
  <2>. SUFFICES ASSUME NEW q \in Path,
                       \A b \in Agent : ~(At(b, "write") /\ Now(b).path = q)'
                PROVE  sure'[q] \subseteq file'[q].edits \/ q \in torn'
    BY DEF EditsSurvive
  <2>1. CASE q = p
    <3>1. file'[q] = [edits |-> kept \cup {x}, whole |-> TRUE] /\ sure'[q] = safe
      BY <1>1, <1>2, <2>1 DEF TypeOK
    <3>2. file'[q].edits = kept \cup {x}
      BY <3>1
    <3>3. safe \subseteq kept \cup {x} \/ q \in torn'
      BY <1>3, <2>1
    <3>. QED  BY <3>1, <3>2, <3>3, Zenon
  <2>2. CASE q # p
    <3>1. \A b \in Agent : ~(At(b, "write") /\ Now(b).path = q)
      BY <1>4, <2>2 DEF At, Now
    <3>2. sure[q] \subseteq file[q].edits \/ q \in torn
      BY <3>1 DEF IInv, EditsSurvive
    <3>3. file'[q] = file[q] /\ sure'[q] = sure[q] /\ (q \in torn => q \in torn')
      BY <1>8, <2>2, Zenon
    <3>. QED  BY <3>2, <3>3, Zenon
  <2>. QED  BY <2>1, <2>2
<1>13. LeaseEndsWithItsNode'
  BY <1>1, <1>2, <1>4 DEF IInv, LeaseEndsWithItsNode, Running, TypeOK
<1>. QED  BY <1>7, <1>11, <1>12, <1>13 DEF IInv

LEMMA ReleaseKeeps == ASSUME IInv, NEW x \in Agent, Release(x) PROVE IInv'
<1>1. /\ pc[x] = "release" /\ lease' = Released(x) /\ Goto(x, "done")
      /\ UNCHANGED <<doc, kind, late, child, sure, torn, cut, node, approved, buffer, file>>
  BY DEF Release, At, Same
<1>2. TypeOK /\ pc'[x] = "done" /\ \A b \in Agent : b # x => pc'[b] = pc[b]
  BY <1>1 DEF IInv, TypeOK, Goto
<1>3. \A p \in Path : lease'[p] = IF lease[p] = x THEN None ELSE lease[p]
  BY <1>1 DEF Released
<1>4. TypeOK'
  <2>1. lease' \in [Path -> Agent \cup {None}]
    BY <1>1, <1>2 DEF Released, TypeOK
  <2>. QED  BY <1>1, <1>2, <2>1 DEF TypeOK, Goto, Steps
<1>5. Only(x)
  BY <1>1, <1>2, <1>3 DEF Only
<1>6. Licensed(x)' /\ Owns(x)'
  BY <1>2 DEF Licensed, Owns, Writes, InCall
<1>7. \A b \in Agent : Licensed(b)' /\ Owns(b)'
  BY <1>5, <1>6, OthersKeep
<1>8. EditsSurvive'
  BY <1>1, <1>2 DEF IInv, EditsSurvive, At, Now
<1>9. LeaseEndsWithItsNode'
  <2>. SUFFICES ASSUME NEW p \in Path, lease'[p] # None
                PROVE  pc'[lease'[p]] \notin {"idle", "done"} \/ lease'[p] \in cut'
    BY DEF LeaseEndsWithItsNode, Running
  <2>1. lease'[p] = lease[p] /\ lease[p] # x /\ lease[p] \in Agent
    BY <1>2, <1>3 DEF TypeOK
  <2>2. pc[lease[p]] \notin {"idle", "done"} \/ lease[p] \in cut
    BY <2>1 DEF IInv, LeaseEndsWithItsNode, Running
  <2>. QED  BY <1>1, <1>2, <2>1, <2>2
<1>. QED  BY <1>4, <1>7, <1>8, <1>9 DEF IInv

(* The run of a child process takes no lease and touches no file.           *)
LEMMA DelegateKeeps ==
  ASSUME IInv, NEW x \in Agent, Spawn(x) \/ Reports(x) \/ TimesOut(x)
  PROVE  IInv'
<1>1. /\ pc[x] \in {"delegate", "communicate"}
      /\ UNCHANGED <<doc, kind, lease, file, sure, torn, cut, approved, buffer>>
  BY DEF Spawn, Reports, TimesOut, At, SameFiles
<1>2. CASE \E why \in {"target_met", "error"} : Stop(x, why)
  BY <1>1, <1>2, StopKeeps DEF IInv, TypeOK
<1>3. CASE Goto(x, "communicate") /\ UNCHANGED node
  <2>1. Alone(x) /\ pc'[x] = "communicate"
    BY <1>1, <1>3 DEF Alone, Goto, IInv, TypeOK, Steps
  <2>. QED  BY <1>1, <2>1, OutsideKeeps DEF InCall
<1>. QED  BY <1>2, <1>3 DEF Spawn, Reports, TimesOut

LEMMA DeadlineKeeps == ASSUME IInv, DeadlinePasses \/ UNCHANGED vars PROVE IInv'
<1>1. UNCHANGED <<doc, kind, pc, node, approved, buffer, lease, file, child, sure, torn, cut>>
  BY DEF DeadlinePasses, vars
<1>2. TypeOK'
  BY <1>1 DEF IInv, TypeOK
<1>3. EditsSurvive' /\ LeaseEndsWithItsNode'
  BY <1>1 DEF IInv, EditsSurvive, LeaseEndsWithItsNode, Running, At, Now
<1>4. \A a \in Agent : Licensed(a)' /\ Owns(a)'
  BY <1>1 DEF IInv, Licensed, Owns, Writes, Now
<1>. QED  BY <1>2, <1>3, <1>4 DEF IInv

LEMMA InterruptKeeps == ASSUME IInv, NEW x \in Agent, Interrupt(x) PROVE IInv'
<1>1. UNCHANGED <<doc, kind, lease, file, sure>> /\ TypeOK /\ Licensed(x) /\ pc[x] \in Steps
  BY DEF Interrupt, IInv, TypeOK
<1>2. CASE pc[x] = "approval"
  <2>1. Record(x, FALSE, "refused") /\ UNCHANGED <<torn, cut>>
    BY <1>2 DEF Interrupt, At
  <2>2. node[x].calls # <<>> /\ "refused" \in Details
    BY <1>1, <1>2 DEF Licensed, InCall, Details
  <2>. QED  BY <1>1, <1>2, <2>1, <2>2, RecordKeeps
<1>3. CASE pc[x] = "release"
  <2>1. Goto(x, "done") /\ cut' = cut \cup {x} /\ UNCHANGED <<node, approved, buffer, torn>>
    BY <1>3 DEF Interrupt, At
  <2>2. Alone(x) /\ pc'[x] = "done"
    BY <1>1, <2>1 DEF Alone, Goto, TypeOK, Steps
  <2>. QED  BY <1>1, <1>3, <2>1, <2>2, OutsideKeeps DEF InCall
<1>4. CASE pc[x] \notin {"approval", "release"}
  <2>1. /\ Stop(x, "deadline") /\ UNCHANGED <<approved, buffer, cut>>
        /\ torn' = IF pc[x] = "write" THEN torn \cup {Now(x).path} ELSE torn
    BY <1>4 DEF Interrupt, At
  <2>2. pc[x] = "write" => Now(x).path \in Path
    BY <1>1 DEF Licensed, InCall, Call
  <2>3. torn \subseteq torn' /\ torn' \subseteq Path /\ (pc[x] = "write" => Now(x).path \in torn')
    BY <1>1, <2>1, <2>2 DEF TypeOK
  <2>. QED  BY <1>1, <2>1, <2>3, StopKeeps
<1>. QED  BY <1>2, <1>3, <1>4

LEMMA StepKeepsInv == IInv /\ [Next]_vars => IInv'
<1>. SUFFICES ASSUME IInv, [Next]_vars PROVE IInv'
  OBVIOUS
<1>1. CASE DeadlinePasses \/ UNCHANGED vars
  BY <1>1, DeadlineKeeps
<1>2. ASSUME NEW x \in Agent, Interrupt(x)
      PROVE  IInv'
  BY <1>2, InterruptKeeps
<1>3. ASSUME NEW x \in Agent, Step(x)
      PROVE  IInv'
  BY <1>3, StartKeeps, TopKeeps, RepliesKeeps, EndTurnKeeps, PermitKeeps, ApprovalKeeps, HookKeeps,
     ReadKeeps, OpenKeeps, WriteKeeps, ReleaseKeeps, DelegateKeeps DEF Step
<1>. QED  BY <1>1, <1>2, <1>3 DEF Next

LEMMA InvAlways == Spec => []IInv
<1>. QED  BY InitIsInv, StepKeepsInv, PTL DEF Spec

(***************************************************************************)
(* Theorems.                                                               *)
(***************************************************************************)
(* Every variable the lease and licence of a write turn on keeps its type.  *)
THEOREM TypeCorrect == Spec => []TypeOK
<1>1. IInv => TypeOK
  BY DEF IInv
<1>. QED  BY <1>1, InvAlways, PTL

(* leases.py and the finally of fix_issues.py: whatever the nodes of a      *)
(* superstep do at once, and wherever the deadline cuts them, an edit that  *)
(* was answered "written" survives, and no lease outlives its node.         *)
THEOREM LeasesHoldAlways == Spec => []LeasesHold
<1>1. IInv => LeasesHold
  BY DEF IInv, LeasesHold
<1>. QED  BY <1>1, InvAlways, PTL

(* A step that changes a file is that of the node which holds its lease,    *)
(* whose kind was given the tool, in a call the document lets through or an *)
(* approver granted: Harness.call and lease_gate, across every interleaving.*)
LEMMA ChangesNeedALicence ==
  ASSUME IInv, [Next]_vars, NEW p \in Path, file'[p] # file[p]
  PROVE  \E a \in Agent : /\ lease[p] = a /\ Now(a).path = p /\ kind[a] = "fix_one"
                          /\ \/ Evaluate(doc, Tenant, Now(a).tool) = "allow"
                             \/ Evaluate(doc, Tenant, Now(a).tool) = "ask" /\ approved[a]
<1>1. PICK x \in Agent : Open(x) \/ Write(x)
  <2>1. file' # file
    OBVIOUS
  <2>. QED  BY <2>1 DEF Next, Step, Start, Top, Replies, EndTurn, Permit, Approval, Hook, Read,
               Release, Spawn, Reports, TimesOut, DeadlinePasses, Interrupt, SameFiles, vars
<1>2. pc[x] \in {"open", "write"} /\ \E v : file' = [file EXCEPT ![Now(x).path] = v]
  BY <1>1 DEF Open, Write, At
<1>3. Now(x).path = p
  BY <1>2 DEF IInv, TypeOK
<1>4. lease[p] = x /\ Now(x).tool \in LeasedTools
  BY <1>2, <1>3 DEF IInv, Owns, Writes
<1>5. /\ kind[x] = "fix_one"
      /\ \/ Evaluate(doc, Tenant, Now(x).tool) = "allow"
         \/ Evaluate(doc, Tenant, Now(x).tool) = "ask" /\ approved[x]
  BY <1>2, <1>4 DEF IInv, Licensed, InCall
<1>. QED  BY <1>3, <1>4, <1>5

(* The same as a property of the specification's steps.                     *)
THEOREM ChangesAreLicensedAlways == Spec => ChangesAreLicensed
<1>1. IInv /\ [Next]_vars => LicensedChange
  BY ChangesNeedALicence DEF LicensedChange
<1>. QED  BY <1>1, InvAlways, PTL DEF Spec, ChangesAreLicensed
================================================================================
