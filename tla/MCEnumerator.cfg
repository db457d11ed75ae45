CONSTANTS
  Calls = 6
  Labels <- GraphLabels
  NoLabel = NoLabel
  StartingSize = 20
  MaxDuplications = 0
  Graphs <- BuiltGraphs
SPECIFICATION Spec
INVARIANTS
  DelayBounded
PROPERTIES
  EverythingIsListed
\* The enumeration ends.
CHECK_DEADLOCK FALSE
