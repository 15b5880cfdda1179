------------------------------ MODULE MCWatching ------------------------------
(***************************************************************************)
(* For TLC, those who follow a run by its trace, one at a time: what       *)
(* replay, cost and the live page make of the events of a governed run     *)
(* (TraceRun), and the Slack bot with its approval buttons (SlackBot).     *)
(***************************************************************************)
EXTENDS SlackBot, SequencesExt

CONSTANTS Names, Later, Priced, MaxCalls,  \* a run (MaxRounds as above)
  BillCalls                                \* model calls of a node where bills are read (bound)

(* What is typed in Slack.                                                  *)
Numbers(flag) == {Token(flag, "split", "number", n) : n \in {0, 1, 3, 8, 50}}
Both(flag, value) == {Token(flag, form, value, 0) : form \in {"split", "inline"}}

PlanTokens ==
  {Token("--go", "bare", "none", 0), Token("--approve", "bare", "none", 0),
   Token("none", "bare", "goal", 0), Token("--config", "split", "in", 0),
   Token("--registry", "inline", "other", 0)}
  \union Numbers("--approval-timeout")
  \union UNION {Both("--registry", v) : v \in {"demo", "stdlib"}}
  \union UNION {Both("--trace", v) : v \in {"in", "out"}}
  \union UNION {Both("--tenant", v) : v \in {"--approve", "--go"}}
  \union Both("--model", "m")

AgentTokens ==
  UNION {Both("--executor", v) : v \in {"sandbox", "claude-cli", "local"}}
  \union UNION {Both("--workspace", v) : v \in {"in", "out"}}
  \union Both("--deny", "net") \union Both("--model", "m") \union {Token("--max-seconds", "split", "number", 3)}

TraceTokens == {Token("none", "bare", v, 0) : v \in {"in", "out"}} \union Both("--trace", "out")

Typed(name, tokens, most) == {[name |-> name, tokens |-> s] : s \in BoundedSeq(tokens, most)}

MCRequests ==
  Typed("plan", PlanTokens, 3) \union Typed("agent", AgentTokens, 3) \union Typed("trace", TraceTokens, 2)

GoToken == Token("--go", "bare", "none", 0)
Opted(allowed) == [model |-> allowed, agent |-> allowed]
MCFollowed ==
  {[name |-> "plan", tokens |-> s, allow |-> Opted(TRUE)] :
     s \in {<<GoToken>>, <<Token("--approve", "bare", "none", 0)>>, <<Token("--tenant", "split", "--go", 0)>>}}
  \union {[name |-> "agent", tokens |-> <<>>, allow |-> Opted(TRUE)],
          [name |-> "trace", tokens |-> <<Token("none", "bare", "in", 0)>>, allow |-> Opted(FALSE)]}

VARIABLES part, events, naming, round, at, nodes, calls, paid, entered, latest, stopped, spent

runVars == <<events, naming, round, at, nodes, calls, paid, entered, latest, stopped, spent>>

Run == INSTANCE TraceRun

(* One round of it whose nodes call their models more often.                *)
Bill == INSTANCE TraceRun WITH MaxRounds <- 1, MaxCalls <- BillCalls

NoRequest == CHOOSE r \in MCRequests : r.name = "trace" /\ r.tokens = <<>>

MCInit ==
  /\ part \in {"slack", "run", "bill"}
  /\ part # "slack" =>
       request = [name |-> NoRequest.name, tokens |-> NoRequest.tokens, allow |-> Opted(FALSE)]
  /\ part = "slack" => naming = [own |-> TRUE, reused |-> FALSE]
  /\ Init /\ Run!Init
  /\ naming.own # naming.reused

InSlack(step) == part = "slack" /\ step /\ UNCHANGED <<part, runVars>>

MCNext ==
  \/ InSlack(Next)
  \/ part = "run" /\ Run!Next /\ UNCHANGED <<part, vars>>
  \/ part = "bill" /\ Bill!Next /\ UNCHANGED <<part, vars>>

(* The bot goes on, and commands end.                                       *)
MCSpec ==
  /\ MCInit /\ [][MCNext]_<<part, vars, runVars>>
  /\ WF_vars(InSlack(BotStep)) /\ WF_vars(InSlack(ChildEnds))

(* TraceRun.tla states it.                                                  *)
ReadersAreRight ==
  /\ part = "run" => Run!ReadersAreRight
  /\ part = "bill" => Bill!BillIsTrue

(* SlackBot.tla does, of its own part.                                      *)
RequesterHears == part = "slack" => RequesterIsTold
=============================================================================
