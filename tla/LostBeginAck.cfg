SPECIFICATION SessionSpec
CONSTANTS
  WindowSize = 1
  NumBlocks = 1
  PartialLast = TRUE
  MAX_TRIES = 10
  EOF_TRIES = 10
  NameTries = 10
  BeginTries = 10
  MallocWait = {0}
  MallocTop = {0}
  ClientWait = {0}
  FopenMay = {TRUE}
  LocalFopenMay = {TRUE}
  MaxFaults = 1
  FaultFlags = {"FILE_BEGIN_ACK"}
  MaxDelays = 0
  MaxKills = 0
PROPERTIES
  FilesAgree
