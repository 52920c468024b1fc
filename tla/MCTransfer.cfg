SPECIFICATION Spec
CONSTANTS
  WindowSize = 3
  NumBlocks = 5
  PartialLast = TRUE
  MAX_TRIES = 1
  EOF_TRIES = 1
  MallocWait = {0, 1}
  MallocTop = {0, 4, 9}
  Leftovers <- MCLeftovers
INVARIANTS
  IInv
  OutputIsPrefix
  EofMeansComplete
  DiscardedIsTaken
  DataFitsWindow
  NumbersFit
PROPERTIES
  ImplementsFileCopy
  NeverTakenBack
