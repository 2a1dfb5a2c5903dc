SPECIFICATION GrepFairSpec
CONSTANTS
  Bytes <- MCBytes
  MaxCommand = 5
  Programs <- MCPrograms
  Leftovers <- MCLeftovers
  FILE_NAME_SIZE = 2
  MAX_FILE_NAME_LENGTH = 2
  FOUR = 2
  GREP <- MCGrepName
  Texts <- MCTexts
  BUFSIZE = 4
  Residues <- MCResidues
  Strays <- MCStrays
  BLOCK = 6
INVARIANTS
  RunsFirstWord
  GivesOwnArguments
  PrintsMatches
PROPERTIES
  SearchEnds
