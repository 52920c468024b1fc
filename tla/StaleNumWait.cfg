SPECIFICATION TimedSpec
CONSTANTS
  WindowSize = 2
  NumBlocks = 3
  PartialLast = TRUE
  MAX_TRIES = 10
  EOF_TRIES = 10
  MallocWait = {0, 10}
  MallocTop = {0}
  Leftovers = {}
  MaxFaults = 1
PROPERTIES
  GivesUpAfterMaxTries
