\* Four elements on two levels, inserted by two threads at once, or three in turn and
\* then one against an update of another.
CONSTANTS
  Threads = {t1, t2}
  MaxElements = 4
  Position <- MCFour
  NewPlaces = {22}
  M = 2
  EfConstruction = 2
  TopLevel = 1
  Alone = {0, 3}
  MaxMarks = 1
  MaxUpdates = 1
  None = None
SPECIFICATION Spec
INVARIANTS
  NoCircularWait
  NoInternalError
  SelectionNotEmpty
  ListsExist
  Integrity
  NoDeadEnd
  EntryOnTop
  Connected
PROPERTIES
  OperationsEnd
