SPECIFICATION FairSpec
CONSTANTS
  NTerminals = 2
  BASE = 4
  Frequencies = {1, 2, 3, 4, 8}
  MaxEarned = 2
INVARIANTS TypeOK ReadIsEarned
PROPERTIES FiresOnTime ReaderWakes
