SPECIFICATION TimedSpec
CONSTANTS
  WindowSize = 1
  NumBlocks = 1
  PartialLast = TRUE
  MAX_TRIES = 10
  EOF_TRIES = 10
  MallocWait = {0}
  MallocTop = {0}
  Leftovers = {}
  MaxFaults = 1
INVARIANTS
  ChildrenClose
