----------------------------- MODULE GovernedLoop -----------------------------
(***************************************************************************)
(* GovernedLoop.run of grapharc/planner/loop.py: plan, admit, materialise, *)
(* ask for approval, execute, replan, until there is a reason to stop.     *)
(*                                                                         *)
(* One thread runs the loop; request_halt may be called by another at any  *)
(* moment, and a human answers at the approval gate.  A step of the model  *)
(* is what the loop does between two places where somebody else can get    *)
(* in: a call of the planner, of the gate, of a node, or a read of the     *)
(* halt flag.  The planner, the checker's verdict, the gate's answer and   *)
(* the nodes are external.                                                 *)
(***************************************************************************)
EXTENDS Naturals, Sequences, FiniteSets

CONSTANTS
  World,           \* the states of the run
  Goals,           \* those goal_reached accepts, when there is one
  Modes,           \* how a loop may be set up
  MaxRounds, MaxRejections, MaxUnplanned, MaxFailures, MaxStalled,  \* LoopLimits
  MaxTokens, MaxIterations, MaxSeconds,                             \* Budget
  Costs,           \* the tokens a model call may cost
  MaxClock         \* bound: seconds that ever pass

LoopAssumption ==
  /\ Goals \subseteq World
  /\ Modes \subseteq [goal : BOOLEAN, gate : BOOLEAN, planOnly : BOOLEAN]
  /\ {MaxRounds, MaxRejections, MaxUnplanned, MaxFailures, MaxStalled} \subseteq Nat \ {0}
  /\ {MaxTokens, MaxIterations, MaxSeconds} \subseteq Nat
  /\ Costs \subseteq Nat /\ Costs # {} /\ MaxClock \in Nat

VARIABLES
  mode,       \* is there a goal_reached, an approval callback; is it plan_only?
  pc,         \* where the loop is
  halted,     \* _halt.is_set()
  round,      \* round_number
  current,    \* the state the last executed round produced
  meter,      \* the run's BudgetMeter
  waited,     \* seconds parked at the gate, until they are credited
  sub,        \* the meter of the round's execution, and its ceilings
  streak,     \* the four consecutive counters
  nudged,     \* empty_nudged
  confirm,    \* confirm_pending
  reply,      \* what this round's proposal authorises: "empty" or "work"
  answer,     \* what the gate's callback did about this round
  records,    \* how each round ended
  stop,       \* the LoopStop, or "none"
  haltedIn    \* ghost: <<round, pc>> when the halt was requested

loopVars == <<mode, pc, halted, round, current, meter, waited, sub, streak, nudged, confirm,
          reply, answer, records, stop, haltedIn>>

Meter == [tokens : Nat, iterations : Nat, seconds : Nat]

Free == [tokens |-> 0, iterations |-> 0, seconds |-> 0]

NoRound == [tokens |-> 0, iterations |-> 0, maxTokens |-> 0, maxIterations |-> 0]

Answers == {"approved", "denied", "timeout", "raises", "other"}

Exceeded == \/ meter.iterations >= MaxIterations
            \/ meter.tokens >= MaxTokens
            \/ meter.seconds >= MaxSeconds

GoalMet(state) == mode.goal /\ state \in Goals

ChargeTokens(t) == meter' = [meter EXCEPT !.tokens = @ + t]

At(step) == pc = step

(* The run ends: one stop event, whose reason is always set.                *)
Stop(reason) == stop' = reason /\ pc' = "done"

Replan == stop' = stop /\ pc' = "boundary"

(* close(): one record and one trace line, however the round ended.         *)
Close(how) == records' = Append(records, how)

Planning   == <<streak, nudged, confirm, reply>>
Execution  == <<current, waited, sub, answer>>
Surround   == <<mode, halted, haltedIn>>

(***************************************************************************)
(* The round boundary.                                                     *)
(***************************************************************************)
Precheck ==
  /\ At("precheck")
  /\ CASE halted           -> Stop("human_stopped")
       [] ~halted /\ GoalMet(current) -> Stop("goal_met")
       [] OTHER            -> Replan
  /\ UNCHANGED <<round, meter, records, Planning, Execution, Surround>>

(* Mutant: the halt is looked for once, before the first round.             *)
Boundary_NoHalt ==
  /\ At("boundary")
  /\ CASE round >= MaxRounds -> Stop("max_rounds") /\ UNCHANGED round
       [] round < MaxRounds /\ Exceeded -> Stop("budget_exhausted") /\ UNCHANGED round
       [] OTHER -> pc' = "propose" /\ round' = round + 1 /\ UNCHANGED stop
  /\ UNCHANGED <<meter, records, Planning, Execution, Surround>>

Boundary ==
  /\ At("boundary")
  /\ CASE round >= MaxRounds -> Stop("max_rounds") /\ UNCHANGED round
       [] round < MaxRounds /\ halted -> Stop("human_stopped") /\ UNCHANGED round
       [] round < MaxRounds /\ ~halted /\ Exceeded ->
            Stop("budget_exhausted") /\ UNCHANGED round
       [] OTHER -> pc' = "propose" /\ round' = round + 1 /\ UNCHANGED stop
  /\ UNCHANGED <<meter, records, Planning, Execution, Surround>>

(***************************************************************************)
(* The planner's turn.  Its tokens are charged to the run's meter.         *)
(***************************************************************************)
(* BudgetExceeded while the planner was talking.                            *)
PlannerExhausted(t) ==
  /\ At("propose")
  /\ ChargeTokens(t)
  /\ meter'.tokens >= MaxTokens \/ Exceeded
  /\ Close("exhausted")
  /\ Stop("budget_exhausted")
  /\ UNCHANGED <<round, Planning, Execution, Surround>>

(* The backend was not reached: re-dialling it is no planning.              *)
PlannerUnreachable ==
  /\ At("propose")
  /\ Close("unreachable")
  /\ Stop("planning_failed")
  /\ UNCHANGED <<round, meter, Planning, Execution, Surround>>

(* A reply that is no proposal; right after the nudge it is a confirmation. *)
PlannerUnusable(t) ==
  /\ At("propose")
  /\ ChargeTokens(t)
  /\ Close("unusable")
  /\ IF confirm
     THEN Stop("no_further_work") /\ UNCHANGED streak
     ELSE /\ streak' = [streak EXCEPT !.unplanned = @ + 1]
          /\ IF streak'.unplanned >= MaxUnplanned THEN Stop("planning_failed") ELSE Replan
  /\ UNCHANGED <<round, nudged, confirm, reply, Execution, Surround>>

PlannerProposes(t, work) ==
  /\ At("propose")
  /\ ChargeTokens(t)
  /\ reply' = work
  /\ streak' = [streak EXCEPT !.unplanned = 0]
  /\ confirm' = FALSE
  /\ pc' = "judge"
  /\ UNCHANGED <<round, nudged, records, stop, Execution, Surround>>

(***************************************************************************)
(* Admission.                                                              *)
(***************************************************************************)
Reject ==
  /\ At("judge")
  /\ streak' = [streak EXCEPT !.rejected = @ + 1]
  /\ Close("rejected")
  /\ IF streak'.rejected >= MaxRejections THEN Stop("admission_refused") ELSE Replan
  /\ UNCHANGED <<round, meter, nudged, confirm, reply, Execution, Surround>>

(* No further work: one nudge per run while a goal check says otherwise.    *)
AdmitEmpty ==
  /\ At("judge")
  /\ reply = "empty"
  /\ streak' = [streak EXCEPT !.rejected = 0]
  /\ Close("empty")
  /\ IF mode.goal /\ ~GoalMet(current) /\ ~nudged
     THEN nudged' = TRUE /\ confirm' = TRUE /\ Replan
     ELSE /\ Stop(IF GoalMet(current) THEN "goal_met" ELSE "no_further_work")
          /\ UNCHANGED <<nudged, confirm>>
  /\ UNCHANGED <<round, meter, reply, Execution, Surround>>

AdmitWork ==
  /\ At("judge")
  /\ reply = "work"
  /\ streak' = [streak EXCEPT !.rejected = 0]
  /\ IF Exceeded
     THEN Close("spent") /\ Stop("budget_exhausted")
     ELSE pc' = "build" /\ UNCHANGED <<records, stop>>
  /\ UNCHANGED <<round, meter, nudged, confirm, reply, Execution, Surround>>

(***************************************************************************)
(* _execute.                                                               *)
(***************************************************************************)
(* An admitted round that did not run: replan, a bounded number of times.   *)
Failed(how) ==
  /\ streak' = [streak EXCEPT !.failed = @ + 1]
  /\ Close(how)
  /\ IF streak'.failed >= MaxFailures THEN Stop("execution_failed") ELSE Replan

Unbuilt ==
  /\ At("build")
  /\ Failed("unbuilt")
  /\ UNCHANGED <<round, meter, nudged, confirm, reply, Execution, Surround>>

Built ==
  /\ At("build")
  /\ answer' = "none"
  /\ pc' = IF mode.gate THEN "parked" ELSE "cleared"
  /\ UNCHANGED <<round, meter, current, waited, sub, records, stop, Planning, Surround>>

(* Mutant: whatever is not a refusal is an approval.                        *)
Normalized_FailOpen(given) == IF given \in {"denied", "timeout"} THEN given ELSE "approved"

(* A gate that raises, or answers anything else, has denied.                *)
Normalized(given) == IF given \in {"approved", "timeout"} THEN given ELSE "denied"

(* credit_seconds: the wait is nobody's spend.                              *)
Credit == meter' = [meter EXCEPT !.seconds = @ - waited]

(* Mutant: nobody answered, so the question is asked again.                 *)
GateReturns_Asks(given) ==
  /\ At("parked")
  /\ answer' = given
  /\ Credit
  /\ waited' = 0
  /\ CASE halted -> Close("halted") /\ Stop("human_stopped")
       [] ~halted /\ Normalized(given) = "approved" ->
            pc' = "cleared" /\ UNCHANGED <<records, stop>>
       [] ~halted /\ Normalized(given) = "timeout" ->
            pc' = "build" /\ UNCHANGED <<records, stop>>
       [] OTHER -> Close("unapproved") /\ Stop("approval_denied")
  /\ UNCHANGED <<round, current, sub, Planning, Surround>>

(* The gate returns.  An emergency stop issued while parked wins over any   *)
(* decision that raced it.                                                  *)
GateReturns(given) ==
  /\ At("parked")
  /\ answer' = given
  /\ Credit
  /\ waited' = 0
  /\ CASE halted -> Close("halted") /\ Stop("human_stopped")
       [] ~halted /\ Normalized(given) = "approved" ->
            pc' = "cleared" /\ UNCHANGED <<records, stop>>
       [] OTHER -> /\ Close("unapproved")
                   /\ Stop(IF Normalized(given) = "timeout"
                           THEN "approval_timeout" ELSE "approval_denied")
  /\ UNCHANGED <<round, current, sub, Planning, Surround>>

Planned ==
  /\ At("cleared")
  /\ mode.planOnly
  /\ Close("planned")
  /\ Stop("planned")
  /\ UNCHANGED <<round, meter, Planning, Execution, Surround>>

(* Mutant: every round gets the declared budget.                            *)
RoundBudget_Declared ==
  [tokens |-> 0, iterations |-> 0, maxTokens |-> MaxTokens, maxIterations |-> MaxIterations]

Left(limit, used) == IF used < limit THEN limit - used ELSE 0

(* _round_budget: exactly what the run has left.  (max_seconds too: both    *)
(* meters then run out at the same moment.)                                 *)
RoundBudget == [tokens |-> 0, iterations |-> 0,
                maxTokens |-> Left(MaxTokens, meter.tokens),
                maxIterations |-> Left(MaxIterations, meter.iterations)]

Invoke ==
  /\ At("cleared")
  /\ ~mode.planOnly
  /\ sub' = RoundBudget
  /\ pc' = "running"
  /\ UNCHANGED <<round, meter, current, waited, answer, records, stop, Planning, Surround>>

SubExceeded == \/ sub.iterations >= sub.maxIterations
               \/ sub.tokens >= sub.maxTokens
               \/ meter.seconds >= MaxSeconds

(* A node of the round's graph.                                             *)
RunNode(t) ==
  /\ At("running")
  /\ ~SubExceeded
  /\ sub' = [sub EXCEPT !.tokens = @ + t, !.iterations = @ + 1]
  /\ UNCHANGED <<pc, round, meter, current, waited, answer, records, stop,
                 Planning, Surround>>

(* _charge_back, however the round ended.                                   *)
ChargeBack == meter' = [meter EXCEPT !.tokens = @ + sub.tokens,
                                     !.iterations = @ + sub.iterations]

Spent == sub' = NoRound

RunExhausted ==
  /\ At("running")
  /\ SubExceeded
  /\ ChargeBack
  /\ Spent
  /\ Close("exhausted")
  /\ Stop("budget_exhausted")
  /\ UNCHANGED <<round, current, waited, answer, Planning, Surround>>

RunRaises ==
  /\ At("running")
  /\ ChargeBack
  /\ Spent
  /\ Failed("raised")
  /\ UNCHANGED <<round, current, waited, answer, nudged, confirm, reply, Surround>>

(* Mutant: a stalled round is forgotten only when the goal is met.          *)
Stalled_NoReset(progressed) == streak.stalled + (IF progressed THEN 0 ELSE 1)

Stalled(progressed) == IF progressed THEN 0 ELSE streak.stalled + 1

(* The graph finished, with tokens to spare, in state s.                    *)
RunExecuted(s) ==
  /\ At("running")
  /\ sub.iterations > 0
  /\ sub.tokens < sub.maxTokens
  /\ meter.seconds < MaxSeconds
  /\ ChargeBack
  /\ Spent
  /\ current' = s
  /\ streak' = [streak EXCEPT !.failed = 0, !.stalled = Stalled(s # current)]
  /\ Close(IF s = current THEN "stalled" ELSE "progressed")
  /\ CASE GoalMet(s) -> Stop("goal_met")
       [] ~GoalMet(s) /\ streak'.stalled >= MaxStalled -> Stop("no_progress")
       [] OTHER -> Replan
  /\ UNCHANGED <<round, waited, answer, nudged, confirm, reply, Surround>>

(***************************************************************************)
(* Everyone else.                                                          *)
(***************************************************************************)
RequestHalt ==
  /\ ~halted
  /\ ~At("done")
  /\ halted' = TRUE
  /\ haltedIn' = [round |-> round, pc |-> pc]
  /\ UNCHANGED <<mode, pc, round, meter, records, stop, Planning, Execution>>

Tick ==
  /\ pc \in {"propose", "parked", "running"}
  /\ meter.seconds < MaxClock
  /\ meter' = [meter EXCEPT !.seconds = @ + 1]
  /\ waited' = IF At("parked") THEN waited + 1 ELSE waited
  /\ UNCHANGED <<pc, round, current, sub, answer, records, stop, Planning, Surround>>

LoopInit ==
  /\ mode \in Modes
  /\ pc = "precheck"
  /\ halted = FALSE
  /\ round = 0
  /\ current \in World
  /\ meter = Free
  /\ waited = 0
  /\ sub = NoRound
  /\ streak = [rejected |-> 0, unplanned |-> 0, failed |-> 0, stalled |-> 0]
  /\ nudged = FALSE /\ confirm = FALSE
  /\ reply = "empty"
  /\ answer = "none"
  /\ records = <<>>
  /\ stop = "none"
  /\ haltedIn = [round |-> 0, pc |-> "none"]

Plan ==
  \/ \E t \in Costs : \/ PlannerExhausted(t) \/ PlannerUnusable(t)
                      \/ PlannerProposes(t, "empty") \/ PlannerProposes(t, "work")
  \/ PlannerUnreachable

Judge == Reject \/ AdmitEmpty \/ AdmitWork

Execute ==
  \/ Unbuilt \/ Built \/ (\E given \in Answers : GateReturns(given))
  \/ Planned \/ Invoke
  \/ (\E t \in Costs : RunNode(t)) \/ RunExhausted \/ RunRaises
  \/ (\E s \in World : RunExecuted(s))

Loop == Precheck \/ Boundary \/ Plan \/ Judge \/ Execute

LoopNext == Loop \/ RequestHalt \/ Tick

LoopSpec == LoopInit /\ [][LoopNext]_loopVars

(* The loop's thread goes on: the planner replies or fails, the gate bounds *)
(* its own wait, and a node returns or is ended by the round's budget.      *)
FairSpec == LoopSpec /\ WF_loopVars(Loop)

(***************************************************************************)
(* Properties.                                                             *)
(***************************************************************************)
Ends == {"exhausted", "unreachable", "unusable", "rejected", "empty", "spent", "unbuilt",
         "halted", "unapproved", "planned", "raised", "stalled", "progressed"}

Reasons == {"none", "goal_met", "human_stopped", "max_rounds", "budget_exhausted", "planning_failed",
            "no_further_work", "admission_refused", "execution_failed", "approval_denied",
            "approval_timeout", "planned", "no_progress"}

Places == {"precheck", "boundary", "propose", "judge", "build", "parked", "cleared", "running", "done"}

RoundMeter == [tokens : Nat, iterations : Nat, maxTokens : Nat, maxIterations : Nat]

Counters == [rejected : 0..MaxRejections, unplanned : 0..MaxUnplanned,
             failed : 0..MaxFailures, stalled : 0..MaxStalled]

(* The values the variables range over.                                     *)
TypeOK ==
  /\ mode \in Modes
  /\ pc \in Places
  /\ halted \in BOOLEAN /\ nudged \in BOOLEAN /\ confirm \in BOOLEAN
  /\ round \in 0..MaxRounds
  /\ current \in World
  /\ meter \in Meter
  /\ waited \in Nat
  /\ sub \in RoundMeter
  /\ streak \in Counters
  /\ reply \in {"empty", "work"}
  /\ answer \in Answers \cup {"none"}
  /\ records \in Seq(Ends)
  /\ stop \in Reasons
  /\ haltedIn \in [round : 0..MaxRounds, pc : Places \cup {"none"}]

(* The rounds share one pool: whatever the planner and the rounds spend     *)
(* together, the last round cannot spend what the earlier ones already did. *)
(* A run overshoots max_tokens by less than one call, max_iterations not at *)
(* all.  (With the type invariant.)                                         *)
PoolIsShared ==
  /\ TypeOK
  /\ LET spent == meter.tokens + sub.tokens
     IN  spent <= MaxTokens \/ \E call \in Costs : spent < MaxTokens + call
  /\ meter.iterations + sub.iterations <= MaxIterations

(* Of the last rounds, none of which ended in one of breaks, n ended in one *)
(* of kinds.                                                                *)
InARow(ends, n, kinds, breaks) ==
  \E first \in 1..Len(ends) + 1 :
    /\ \A i \in first..Len(ends) : ends[i] \notin breaks
    /\ Cardinality({i \in first..Len(ends) : ends[i] \in kinds}) >= n

(* The recorded reason is the true one, read against the records, the state *)
(* and the meter of the run it ends.  "Consecutive proposals were not       *)
(* admitted": a reply that is no proposal does not stand between them.      *)
StopIsTrue ==
  /\ stop = "goal_met" => GoalMet(current)
  /\ stop # "none" /\ GoalMet(current) => stop \in {"goal_met", "human_stopped"}
  /\ stop = "no_further_work" /\ mode.goal => nudged
  /\ stop = "max_rounds" => round = MaxRounds
  /\ stop = "budget_exhausted" => Exceeded
  /\ stop = "human_stopped" => halted
  /\ stop = "planning_failed" =>
       \/ InARow(records, 1, {"unreachable"}, Ends \ {"unreachable"})
       \/ InARow(records, MaxUnplanned, {"unusable"}, Ends \ {"unusable"})
  /\ stop = "admission_refused" =>
       InARow(records, MaxRejections, {"rejected"}, Ends \ {"rejected", "unusable"})
  /\ stop = "execution_failed" =>
       InARow(records, MaxFailures, {"unbuilt", "raised"}, {"stalled", "progressed"})
  /\ stop = "no_progress" => InARow(records, MaxStalled, {"stalled"}, {"progressed"})

(* With a gate, a node only ever runs in a round a human approved, in those *)
(* words; a plan-only run executes nothing.                                 *)
OnlyApprovedRuns ==
  pc = "running" => ~mode.planOnly /\ (mode.gate => answer = "approved")

(* A halt ends the run with the round it finds: no other is begun, and when *)
(* the round was parked at the gate, not a node of it runs either, whatever *)
(* the human answered.                                                      *)
HaltIsHonoured ==
  halted => /\ round = haltedIn.round
            /\ haltedIn.pc = "parked" => pc \in {"parked", "done"}

(* What a run says of itself: what it spent in all, and why it stopped.     *)
RunIsAccountedFor == PoolIsShared /\ StopIsTrue

(* What a human says goes: a yes before anything runs, and a halt.          *)
HumanDecides == OnlyApprovedRuns /\ HaltIsHonoured

(* Every run stops: a planner may fail productively only so often.          *)
RunStops == <>(stop # "none")
=============================================================================
