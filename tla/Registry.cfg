SPECIFICATION FairSpec
CONSTANTS
  Handlers = {h1, h2}
  Node1 = Node1
  Device1 = Device1
  Sender1 = Sender1
  Nodes = {Node1}
  Devices = {Device1}
  Others = {Sender1}
  Bodies <- Posts
  Requests <- Sent
  Expiry = 0
  None = None
INVARIANT TypeOK
PROPERTIES
  
  SilentNodesGo
  StopReturns
\* after Stop() nothing is left to do
CHECK_DEADLOCK FALSE
