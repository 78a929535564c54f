\* Ids 1..4 among size_t values 0..8; up to three workers.
CONSTANTS
  Start = 1
  End = 5
  SizeMax = 8
  Threads = {t1, t2, t3}
  None = None
SPECIFICATION Spec
INVARIANTS
  AtMostOnce
  CompleteOnReturn
PROPERTIES
  StopsAfterException
  Finishes
  ExceptionReported
