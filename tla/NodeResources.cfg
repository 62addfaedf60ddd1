SPECIFICATION Spec
CONSTANTS
  Node = Node
  Device1 = Device1
  Source1 = Source1
  Flow1 = Flow1
  Sender1 = Sender1
  Receiver1 = Receiver1
  Devices = {Device1}
  Sources = {Source1}
  Flows = {Flow1}
  Senders = {Sender1}
  Receivers = {Receiver1}
  Parent <- OneEach
  SourceOf <- FlowSource
  FlowOf <- SenderFlow
  Edited = {Node, Device1}
  MaxVersion = 1
  Silent = Silent
INVARIANTS
  TypeOK
  DevicesListTheirs
  EndpointsFollow
  OnlySourcesMissing
PROPERTY PeersNotice
