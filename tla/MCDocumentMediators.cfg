CONSTANTS
  a = a
  b = b
  Letters <- Letter
  StartChar = StartChar
  EndChar = EndChar
  Labels <- MarkedPositions
  NoLabel = NoLabel
  StartingSize = 2
  MaxDuplications = 2
  MaxDetStates = 8
  MaxDocument = 5
  Queries <- CheckedQueries
  MultiQueries <- CheckedMultiQueries
SPECIFICATION Spec
INVARIANTS
  NothingElseIsListed
  EveryMatchIsListed
  FirstMatchIsFound
  HeldNodesAreCounted
PROPERTIES
  QueryIsAnswered
\* The answer ends.
CHECK_DEADLOCK FALSE
