SPECIFICATION FairSpec
CONSTANTS
  R1 = R1
  R2 = R2
  Requests <- MCRequests
  Mixes <- MCMixes
  Connects = {c1}
  Disconnects = {d1}
  None = None
INVARIANTS
  TypeOK
  DeliveredOnce
  SuccessMeansConnected
PROPERTIES
  ConnectIsAnswered
