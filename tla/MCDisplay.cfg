SPECIFICATION Spec
CONSTANTS
  NTerminals = 2
  NUM_ROWS = 2
  NUM_COLS = 2
  Glyphs = {" ", "x"}
  Blank = " "
  NewLine = "n"
  Banner <- MCBanner
  LateStores = FALSE
  MaxWritten = 4
INVARIANTS CursorFollows
PROPERTIES ImplementsScreens
