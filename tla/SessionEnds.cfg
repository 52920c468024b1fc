SPECIFICATION SessionSpec
CONSTANTS
  WindowSize = 1
  NumBlocks = 1
  PartialLast = TRUE
  MAX_TRIES = 10
  EOF_TRIES = 10
  NameTries = 10
  BeginTries = 10
  MallocWait = {0}
  MallocTop = {0}
  ClientWait = {0, 9}
  FopenMay = {TRUE, FALSE}
  LocalFopenMay = {TRUE, FALSE}
  MaxFaults = 1
  FaultFlags = {"FILE_NAME", "FILE_NAME_ACK", "FILE_NAME_ERR_ACK", "FILE_BEGIN", "FILE_BEGIN_ACK", "DATA", "RR", "FILE_EOF", "FILE_EOF_ACK"}
  MaxDelays = 1
  MaxKills = 1
INVARIANTS
  NoTryForNothing
  EveryTryWasLost
PROPERTIES
  AllLeave
