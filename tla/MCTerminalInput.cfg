SPECIFICATION FairSpec
CONSTANTS
  NTerminals = 2
  BUF = 4
  OLD = 5
  Letters = {"a", "b"}
  Names <- MCNames
  Requests = {1, 5}
  MaxKeys = 5
  RecallEmpty = TRUE
INVARIANTS LineFits ShownIsBuffered
PROPERTIES DeliversLine LineIsRead
