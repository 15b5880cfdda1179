\* The same race, to its end.
CONSTANTS
  p1 = p1
  p2 = p2
  Proc = {p1, p2}
  NoProc = NoProc
  Node <- LineNode
  Entry <- LineEntry
  Routes <- LineRoutes
  Gate = {"g"}
  Inputs = {"none"}
  Calls = {}
  DescribeRaises = FALSE
  MaxTurns = 2
  MaxEvents = 0
  MaxCrashes = 0
SPECIFICATION Spec
INVARIANTS NoUnsignedRun
CHECK_DEADLOCK FALSE
