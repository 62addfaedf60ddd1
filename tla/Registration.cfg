\* two registries, one trouble
SPECIFICATION FairSpec
CONSTANTS
  Registries = {g1, g2}
  First = g1
  Priority <- Priorities
  Rejecting = {}
  MaxTroubles = 1
  None = None
INVARIANTS TypeOK WaitsInTheRightLoop LeavesTheRegistry
PROPERTIES RegistersInTheEnd ThreadStops
\* a node that was stopped takes no more steps
CHECK_DEADLOCK FALSE
