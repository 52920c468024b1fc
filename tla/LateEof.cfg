SPECIFICATION TimedSpec
CONSTANTS
  WindowSize = 1
  NumBlocks = 2
  PartialLast = FALSE
  MAX_TRIES = 10
  EOF_TRIES = 10
  MallocWait = {0}
  MallocTop = {0}
  Leftovers = {}
  MaxFaults = 0
PROPERTIES
  BreaksOut
