SPECIFICATION TimedSpec
CONSTANTS
  WindowSize = 2
  NumBlocks = 3
  PartialLast = FALSE
  MAX_TRIES = 10
  EOF_TRIES = 10
  MallocWait = {0, 8}
  MallocTop = {0, 9}
  Leftovers = {}
  MaxFaults = 6
INVARIANTS
  EofMeansComplete
  FollowsRcopy
PROPERTIES
  BothLeave
