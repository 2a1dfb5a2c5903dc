SPECIFICATION Spec
CONSTANTS
  NTerminals = 3
  NPids = 4
  Status = {7}
  EarlyInput = FALSE
  InactiveExit = TRUE
  ShellFaults = FALSE
PROPERTY PidStaysWithTerminal
