\* markDelete against replacing addPoints, or marks, revivals and adds without replacement.
CONSTANTS
  a = a  b = b  c = c
  Labels <- MCLabels
  LockOf <- MCOwnLock
  Threads = {t1, t2, t3}
  Values = {v1, v2}
  MaxElements = 2
  AllowReplace = TRUE
  AnyReplace = FALSE
  None = None
  Torn = Torn
SPECIFICATION MCSpec
SYMMETRY MCSymmetry
INVARIANTS
  TableAgrees
  NumDeletedExact
  SlotOwnership
PROPERTIES
  ImplementsStore
  RevivesInPlace
