\* One thread, replace_deleted for labels that are in the index too.
CONSTANTS
  a = a  b = b  c = c
  Labels <- MCLabels
  LockOf <- MCOwnLock
  Threads = {t1}
  Values = {v1}
  MaxElements = 2
  AllowReplace = TRUE
  AnyReplace = TRUE
  None = None
  Torn = Torn
SPECIFICATION MCSpec
INVARIANTS
  UpdatesInPlace
