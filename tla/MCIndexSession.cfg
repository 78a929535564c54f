\* One process after another on one file; crashes and short writes anywhere.
CONSTANTS
  Labels <- MCLabels
  Offset <- MCOffset
  Values = {v1, v2}
  Capacities = {2}
  MaxRows = 2
  MaxNext = 2
  None = None
SPECIFICATION Spec
SYMMETRY MCSymmetry
INVARIANTS
  TableExact
  DefaultLabelsFresh
PROPERTIES
  ImplementsDurableMap
