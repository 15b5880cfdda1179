\* Every wiring of two nodes, an edited and a repeated proposal, four checkers; three rounds.
SPECIFICATION MCSpec
CONSTANTS
  NoPlan = NoPlan
  Name <- MCName
  Live <- MCLive
  Kind <- MCKind
  LiveKind <- MCLiveKind
  Schema = {"deploy"}
  Cost <- MCCost
  Plans <- MCPlans
  Others <- MCOthers
  Gates <- MCGates
  Factory <- MCFactory
  Late = {"rogue"}
  MaxTurns = 2
  MaxEdits = 1
  MaxSteps = 4
  Modes <- MCModes
  World = {0, 1, 2}
  Goals = {2}
  MaxRounds = 3
  MaxRejections = 2
  MaxUnplanned = 2
  MaxFailures = 2
  MaxStalled = 2
  MaxTokens = 3
  MaxIterations = 3
  MaxSeconds = 2
  Costs = {0, 2}
  MaxClock = 2
INVARIANTS
  OnlyAdmittedRuns
  AdmittedPlanBuilds
  VerdictIsSound
  RunIsAccountedFor
  HumanDecides
PROPERTIES
  LoopStops
CHECK_DEADLOCK FALSE
