\* An element is inserted while another is updated.
CONSTANTS
  Threads = {t1, t2}
  MaxElements = 3
  Position <- MCThree
  NewPlaces = {22}
  M = 2
  EfConstruction = 2
  TopLevel = 1
  Alone = {2}
  MaxMarks = 0
  MaxUpdates = 1
  None = None
SPECIFICATION Spec
INVARIANTS
  InboundConnected
