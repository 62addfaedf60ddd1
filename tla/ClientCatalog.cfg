SPECIFICATION Spec
CONSTANTS
  Nodes = {n1, n2}
  Registry = Registry
  N1 = N1
  D1 = D1
  F1 = F1
  F2 = F2
  Ids <- MCIds
  KindOf <- MCKindOf
  Format <- MCFormat
  Media <- MCMedia
  Queries = {q1, q2}
  None = None
SYMMETRY MCSymmetry
INVARIANTS
  TypeOK
  AppMissesNothing
PROPERTIES
  RemovalsReported
\* a crash ends it
CHECK_DEADLOCK FALSE
