CONSTANTS
  Labels = {1, 2, 3, 4}
  Points <- MCPoints
  MaxElements = 3
  RemoveLast = FALSE
  None = None
SPECIFICATION Spec
INVARIANTS
  DictAgrees
  SearchExact
PROPERTIES
  ImplementsMap
