SPECIFICATION DispatcherSpec
CONSTANTS
  ProcLimit = 3
  InboxSize = 2
  MaxArrivals = 6
INVARIANTS
  DispatcherInv
  TableBounded
  ClosesOnlyWhenFull
PROPERTIES
  AlwaysListens
CHECK_DEADLOCK FALSE
