SPECIFICATION PagedSpec
CONSTANTS
  NTerminals = 3
  NPids = 3
  Status = {7}
  EarlyInput = TRUE
  InactiveExit = FALSE
  ShellFaults = TRUE
INVARIANTS MemoryKept UserReach
CHECK_DEADLOCK FALSE
