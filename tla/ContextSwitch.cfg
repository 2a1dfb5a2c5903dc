SPECIFICATION FairSpec
CONSTANTS
  NTerminals = 2
  NPids = 4
  TickIn = {"user", "launch"}
INVARIANTS ContextIntact CallerIntact
PROPERTIES ImplementsStacks
