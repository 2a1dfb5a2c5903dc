SPECIFICATION FairSpec
CONSTANTS
  NTerminals = 3
  NPids = 5
  Status = {7}
  EarlyInput = FALSE
  InactiveExit = FALSE
  ShellFaults = FALSE
INVARIANTS
  TypeOK NoWildReturn KernelCoherent CpuCoherent CallerWaits ContextSaved
  NoProgramStranded BaseShellPids AnswerTellsException
PROPERTIES
  ReturnsToCaller PidStaysWithTerminal ImplementsStacks EveryTerminalRuns
