CONSTANTS
  Base = 3
  FirstOfLength <- SmallLengths
  SharedAtoms <- SmallSharedAtoms
  MaxCodePoint = 107
  EndPoints <- SmallEndPoints
  MaxRanges = 3
SPECIFICATION Spec
INVARIANTS
  RangesCoverTheClass
  RangesAreApart
  EveryCodePointIsMatched
  NothingElseIsMatchedWithoutCarry
\* The class ends.
CHECK_DEADLOCK FALSE
