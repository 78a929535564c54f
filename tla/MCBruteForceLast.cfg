\* Callers remove the element in the last slot too.
CONSTANTS
  Labels = {1, 2, 3}
  Points <- MCPoints
  MaxElements = 3
  RemoveLast = TRUE
  None = None
SPECIFICATION Spec
PROPERTIES
  ImplementsMap
