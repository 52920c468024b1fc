SPECIFICATION SessionSpec
CONSTANTS
  WindowSize = 1
  NumBlocks = 3
  PartialLast = TRUE
  MAX_TRIES = 10
  EOF_TRIES = 10
  NameTries = 10
  BeginTries = 10
  MallocWait = {0}
  MallocTop = {0}
  ClientWait = {0}
  FopenMay = {TRUE}
  LocalFopenMay = {TRUE}
  MaxFaults = 0
  FaultFlags = {}
  MaxDelays = 1
  MaxKills = 0
INVARIANTS
  CompleteFilesAgree
