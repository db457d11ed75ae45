CONSTANTS
  NoChar = NoChar
  Size = 3
  Results <- ClientResults
  VariableSets <- NumberedVariables
  BufferSizes <- Sizes
  Limits <- SmallLimits
  MaxReserved = 2
  MaxObjects = 2
SPECIFICATION Spec
INVARIANTS
  SpansAreThoseInside
  GroupsAreOfTheText
  EveryMatchIsCollected
\* The program stops, or has crashed.
CHECK_DEADLOCK FALSE
