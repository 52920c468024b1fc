SPECIFICATION SessionSpec
CONSTANTS
  WindowSize = 2
  NumBlocks = 3
  PartialLast = TRUE
  MAX_TRIES = 10
  EOF_TRIES = 10
  NameTries = 10
  BeginTries = 10
  MallocWait = {0}
  MallocTop = {0}
  ClientWait = {0}
  FopenMay = {TRUE}
  LocalFopenMay = {TRUE}
  MaxFaults = 3
  FaultFlags = {"FILE_NAME", "FILE_NAME_ACK", "FILE_BEGIN", "DATA", "RR", "SREJ", "FILE_EOF", "FILE_EOF_ACK"}
  MaxDelays = 0
  MaxKills = 0
INVARIANTS
  SessionIInv
  OneFile
  OneChildServes
PROPERTIES
  SessionImplementsFileCopy
  FilesAgree
