\* One runner on a graph that may loop for ever and has two gates on one superstep.
CONSTANTS
  p1 = p1
  Proc = {p1}
  NoProc = NoProc
  Node <- LoopNode
  Entry <- LoopEntry
  Routes <- LoopRoutes
  Gate = {"g", "h"}
  Inputs = {"none", "ok"}
  Calls = {"message", "interrupt", "decision"}
  DescribeRaises = FALSE
  MaxTurns = 3
  MaxEvents = 3
  MaxCrashes = 0
SPECIFICATION FairSpec
INVARIANTS
  TurnsEndClean
  InputsAreHonoured
PROPERTIES
  InterruptStopsTheTurn
CHECK_DEADLOCK FALSE
