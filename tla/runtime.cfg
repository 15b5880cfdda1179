\* Two guards in turn, three executions of four calls, a coroutine, every graph of two nodes, two recorders, a tool.
SPECIFICATION MCSpec
CONSTANTS
  MaxGuards = 2
  Attempts = 8
  Swallows = TRUE
  MaxFires = 3
  MaxCancels = 2
  Node = {n1, n2, n3}
  Call = {c1, c2, c3, c4}
  Cost <- Costs
  Unseen = {1}
  MaxTokens = 2
  MaxIterations = 2
  Width = 2
  MaxUnseen = 1
  Nodes = {"a", "b"}
  Fields = {"x", "y"}
  Entry = "a"
  Declared <- MCDeclared
  MaxNodeRuns = 3
  Procs = {"p", "q"}
  Threads = {"t", "u"}
  MaxRuns = 3
  MaxWatched = 2
  MaxSplits = 1
  MaxKills = 1
  MaxLines = 2
INVARIANTS
  TornDownIsQuiet
  OursAreHandedBack
  MeterIsTrue
  GraphIsAsDeclared
  StepsAreUnique
  CallsEndClean
PROPERTIES
  WaitingEnds
CHECK_DEADLOCK FALSE
