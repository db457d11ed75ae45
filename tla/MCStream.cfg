CONSTANTS
  a = a
  b = b
  Letters <- Letter
  StartChar = StartChar
  EndChar = EndChar
  NoChar = NoChar
  Labels <- MarkedPositions
  NoLabel = NoLabel
  StartingSize = 2
  MaxDuplications = 1
  MaxDetStates = 8
  MaxDocument = 5
  BufferSizes <- Sizes
  Queries <- CheckedQueries
  MultiQueries <- CheckedMultiQueries
SPECIFICATION Spec
INVARIANTS
  ReadsTheDocument
  NothingElseIsListedIfAllFits
  EveryMatchIsListed
  GroupsAreOfTheDocument
PROPERTIES
  QueryIsAnswered
\* The answer ends.
CHECK_DEADLOCK FALSE
