SPECIFICATION FairSpec
CONSTANTS
  Nodes = {n1, n2}
  Query = Query
  Ids = {d1}
  MaxQueue = 1
  None = None
INVARIANTS
  TypeOK
  AskedInEitherOrder
PROPERTIES
  StaleResourcesGo
  ThreadStops
  PoolJoins
\* after Stop() and the end of the pool nothing is left to do
CHECK_DEADLOCK FALSE
