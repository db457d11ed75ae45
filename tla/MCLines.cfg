CONSTANTS
  a = a
  b = b
  nl = nl
  NewLine = nl
  Letters <- Letter
  StartChar = StartChar
  EndChar = EndChar
  NoChar = NoChar
  Labels <- MarkedPositions
  NoLabel = NoLabel
  StartingSize = 2
  MaxDuplications = 2
  MaxDetStates = 6
  MaxDfaStates = 6
  MaxText = 4
  Queries <- CheckedQueries
  MultiQueries <- CheckedMultiQueries
  Texts <- CheckedTexts
  BufferSizes <- Sizes
SPECIFICATION Spec
INVARIANTS
  AnswersAreOfTheLines
  EveryLineIsAnswered
  CheckIsRight
  LinesTakenHaveMatches
\* The answer ends.
CHECK_DEADLOCK FALSE
