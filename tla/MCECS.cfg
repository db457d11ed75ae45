CONSTANTS
  Labels = {a}
  NoLabel = NoLabel
  StartingSize = 1
  MaxDuplications = 2
  MaxPins = 1
  MaxPinned = 2
  MaxRecycled = 1
SPECIFICATION Spec
INVARIANTS
  TypeOK
  RefCountExact
  FreeListSound
  NothingLeaks
  LiveNodesAreNotFree
  OutputDepthBounded
  NoGarbageAtLimit
PROPERTIES
  LiveNodesAreFrozen
  ImplementsOutputSets
\* MaxRecycled stops the client.
CHECK_DEADLOCK FALSE
