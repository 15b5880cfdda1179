\* Two requests, one worker, a follower with a cursor and one lost connection.
SPECIFICATION FairSpec
CONSTANTS
  Sessions = {"s", "t"}
  Nodes = {"a"}
  MaxWorkers = 1
  MaxSteps = 2
  Followed = {"s"}
  Cursors = {0, 1}
  MaxDrops = 1
  Patient = TRUE
  Unshapeable = TRUE
INVARIANTS
  StreamIsTrue
  StopsAreObeyed
PROPERTIES
  EverythingEnds
CHECK_DEADLOCK FALSE
