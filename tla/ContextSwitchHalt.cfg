SPECIFICATION Spec
CONSTANTS
  NTerminals = 2
  NPids = 4
  TickIn = {"user", "halt"}
INVARIANT ContextIntact
