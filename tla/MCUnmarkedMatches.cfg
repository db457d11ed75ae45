CONSTANTS
  a = a
  b = b
  Letters <- Letter
  StartChar = StartChar
  EndChar = EndChar
  Labels <- MarkedPositions
  NoLabel = NoLabel
  StartingSize = 2
  MaxDuplications = 2
  MaxDetStates = 8
  MaxDocument = 5
  Queries <- UnmarkedQueries
  MultiQueries <- UnmarkedQueries
SPECIFICATION Spec
INVARIANT
  NodesInUseArePinned
\* The answer ends.
CHECK_DEADLOCK FALSE
