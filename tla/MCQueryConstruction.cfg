CONSTANTS
  a = a
  b = b
  Letters <- Alphabet
  StartChar = StartChar
  EndChar = EndChar
  MaxLetters = 3
  CharClasses <- SmallClasses
  Variables = {1, 2}
  VariableLimits = {1, 2}
  Quantifiers <- SmallQuantifiers
  MaxParts = 5
SYMMETRY Symmetric
SPECIFICATION Spec
INVARIANTS
  EmptyWordFlagIsExact
  ExtendedVAIsFaithful
  SearchNFAIsFaithful
  NoAnchorIsMissed
  EveryVariableHasOneSpan
\* The expression ends.
CHECK_DEADLOCK FALSE
