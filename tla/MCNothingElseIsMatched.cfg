CONSTANTS
  Base = 3
  FirstOfLength <- SmallLengths
  SharedAtoms <- SmallSharedAtoms
  MaxCodePoint = 107
  EndPoints <- SmallEndPoints
  MaxRanges = 1
SPECIFICATION Spec
INVARIANTS
  NothingElseIsMatched
\* The class ends.
CHECK_DEADLOCK FALSE
