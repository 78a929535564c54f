CONSTANTS
  Threads = {t1, t2}
  Elements = {e1, e2}
  Lists = {l1, l2, l3}
  MaxLost = 1
  TagMax = 2
  None = None
SPECIFICATION Spec
SYMMETRY MCSymmetry
INVARIANTS
  OneOwner
  VisitedExact
  Bounded
