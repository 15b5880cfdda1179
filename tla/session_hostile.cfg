\* Two runners, crashes and recycled pids, a raising describe, refused input, terminate.
CONSTANTS
  p1 = p1
  p2 = p2
  Proc = {p1, p2}
  NoProc = NoProc
  Node <- LineNode
  Entry <- LineEntry
  Routes <- LineRoutes
  Gate = {"g"}
  Inputs = {"none", "bad"}
  Calls = {"decision", "terminate"}
  DescribeRaises = TRUE
  MaxTurns = 2
  MaxEvents = 1
  MaxCrashes = 2
SPECIFICATION Spec
INVARIANTS DriverIsClaimant
PROPERTIES ImplementsLifecycle
CHECK_DEADLOCK FALSE
