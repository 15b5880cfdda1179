\* What is typed in Slack, and two rounds of a run.
SPECIFICATION MCSpec
CONSTANTS
  Reader = 4
  Work = 9
  Margin = 1
  Cap = 4
  Plans = {"p1", "p2"}
  MaxRounds = 2
  MaxClicks = 2
  Requests <- MCRequests
  Followed <- MCFollowed
  Names = {"a", "b"}
  Later = {"a"}
  Priced = {"b"}
  MaxCalls = 1
  BillCalls = 2
INVARIANTS
  ReadersAreRight
  BotIsSafe
PROPERTIES
  RequesterHears
CHECK_DEADLOCK FALSE
