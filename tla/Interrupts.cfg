SPECIFICATION FairSpec
CONSTANTS
  NTerminals = 2
  MaxFrames = 1
  EarlySwitch = FALSE
INVARIANTS BodiesRunThrough InServiceIsOwed
PROPERTIES EveryRequestServed
