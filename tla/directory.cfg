\* Three commands; two processes that plan and go on two directories; two gates and an approver.
SPECIFICATION MCSpec
CONSTANTS
  Command = {1, 2, 3}
  Lines <- MCLines
  Env <- MCEnv
  Configs <- MCConfigs
  Here = FALSE
  Targets <- MCTargets
  Policies <- MCPolicies
  Legacy = TRUE
  Seconds <- MCSeconds
  AgentSeconds = 1
  MaxLate = 0
  Gates = {"run1", "run2"}
  Approvers = {"alice"}
  Plans = {"p", "q"}
  MaxAsked = 2
  MaxDecisions = 2
  MaxGateKills = 1
  MaxKills = 1
  Procs = {"p", "q"}
  Dirs = {1, 2}
  MaxPlans = 2
  MaxGos = 3
INVARIANTS
  CommandsKeepApart
  PlanRunsOnce
  AnswerIsTheirs
PROPERTIES
  GateReturns
CHECK_DEADLOCK FALSE
