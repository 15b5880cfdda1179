------------------------------- MODULE MCRuntime -------------------------------
(***************************************************************************)
(* For TLC, what one invocation stands on, one at a time: the guard of a   *)
(* pooled thread (DeadlineGuard) and of a coroutine (AsyncDeadline), the   *)
(* meter the executions share (BudgetMeter), the graph kernel              *)
(* (GraphKernel), which refuses for reasons of its own what the others     *)
(* make it refuse, the trace it writes (TraceTail), and a tool that needs  *)
(* a process (ToolRun).                                                    *)
(***************************************************************************)
EXTENDS DeadlineGuard, AsyncDeadline, BudgetMeter, GraphKernel, TraceTail, ToolRun, TLC

(* Calls of one size, which is also the size of the spend the callback does *)
(* not see.                                                                 *)
Costs == [c \in Call |-> 1]

MCDeclared == [a |-> {"x"}, b |-> {"y"}]

VARIABLE part

MCInit ==
  /\ part \in {"guard", "async", "meter", "graph", "trace", "tool"}
  /\ Init /\ AsyncInit /\ MeterInit /\ GraphInit /\ TraceInit /\ ToolInit
  /\ part # "async" => baseline = 0
  /\ part = "graph" => graph.cond = {} \/ (graph.fan = {} /\ Cardinality(graph.static) <= 1)
  /\ part # "graph" =>
       graph = [dag |-> FALSE, static |-> {}, cond |-> {}, fan |-> {}, ghost |-> FALSE]
  /\ part # "trace" => reader = NewReader("nobody")
  /\ part # "tool" => how = "sandbox"

InGuard(step) ==
  part = "guard" /\ step /\ UNCHANGED <<part, asyncVars, meterVars, graphVars, traceVars, toolVars>>
InTrace(step) ==
  part = "trace" /\ step /\ UNCHANGED <<part, vars, asyncVars, meterVars, graphVars, toolVars>>
InTool(step) ==
  part = "tool" /\ step /\ UNCHANGED <<part, vars, asyncVars, meterVars, graphVars, traceVars>>

MCNext ==
  \/ InGuard(Next)
  \/ /\ part = "async" /\ AsyncNext
     /\ UNCHANGED <<part, vars, meterVars, graphVars, traceVars, toolVars>>
  \/ /\ part = "meter" /\ MeterNext
     /\ UNCHANGED <<part, vars, asyncVars, graphVars, traceVars, toolVars>>
  \/ /\ part = "graph" /\ GraphNext
     /\ UNCHANGED <<part, vars, asyncVars, meterVars, traceVars, toolVars>>
  \/ InTrace(TraceNext)
  \/ InTool(ToolNext)

(* Fair are the guard's timers and teardown, the readers of the trace, and  *)
(* the caller of the tool.                                                  *)
MCSpec ==
  /\ MCInit /\ [][MCNext]_<<part, vars, asyncVars, meterVars, graphVars, traceVars, toolVars>>
  /\ \A g \in Guard : WF_vars(InGuard(DeadlinePasses(g)))
  /\ \A g \in Guard, i \in TimerId : WF_vars(InGuard(Fire(g, i)))
  /\ WF_vars(InGuard(Teardown \/ Interrupted))
  /\ WF_traceVars(InTrace(PageStep)) /\ WF_traceVars(InTrace(TailStep))
  /\ WF_toolVars(InTool(Caller))

(* Waiting ends: for the interrupt of a node that swallowed one, for the    *)
(* events of a trace, for the answer of a tool.                             *)
WaitingEnds ==
  /\ SwallowedIsFollowed
  /\ NothingSkipped
  /\ part = "tool" => CallsReturn
=============================================================================
