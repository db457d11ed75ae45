CONSTANTS
  Letters = {a, b}
  StartChar = StartChar
  EndChar = EndChar
  MaxDfaStates = 5
  MaxDocument = 4
  Nfas <- CheckedNfas
SPECIFICATION Spec
INVARIANTS
  TypeOK
  MatchesAreCovered
  SegmentsAreDisjoint
\* The scan ends.
CHECK_DEADLOCK FALSE
