SPECIFICATION Spec
CONSTANTS
  Nodes = {n1}
  Query = Query
  Ids = {d1}
  MaxQueue = 1
  None = None
PROPERTIES
  AnsweredResourcesStay
CHECK_DEADLOCK FALSE
