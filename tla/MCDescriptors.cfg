SPECIFICATION Spec
CONSTANTS
  Procs = {p1, p2}
  NFD = 4
  BLOCK = 2
  LASTENTRY = 1
  Directory <- MCDirectory
  Requests = {1, 2}
  MaxListed = 3
  SharedOpen = FALSE
  SharedListing = FALSE
SYMMETRY AnyTerminal
INVARIANTS ReadsTheFile ListsInOrder
PROPERTIES OpenGivesFile ImplementsOpenFiles
