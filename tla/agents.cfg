\* Two nodes and a file, two callers of a model.
SPECIFICATION MCSpec
CONSTANTS
  a1 = a1
  a2 = a2
  Agent = {a1, a2}
  Caller = {a1, a2}
  MaxAsked = 2
  Path = {f1}
  Kinds <- MCKinds
  MaxIterations = 2
  MaxStalled = 2
  MaxCalls = 1
  Documents <- MCDocuments
  Tenant = "t"
  Handlers = {"lead"}
  None = None
  MaxAttempts = 3
  Initial = 4
  MaxBackoff = 16
  Ceiling = 3
  Bills = {0, 2}
INVARIANTS
  LeasesHold
  BillIsBounded
PROPERTIES
  ChangesAreLicensed
  ReissueIsSafe
  EveryAgentStops
CHECK_DEADLOCK FALSE
