SPECIFICATION ParamsSpec
CONSTANTS
  U1 = U1
  U2 = U2
  M1 = M1
  M2 = M2
  T1 = T1
  XOR = XOR
  Reed = Reed
  AUTO = AUTO
  Null = Null
  Unicasts = {U1, U2}
  Multicasts = {M1, M2}
  Texts = {T1, XOR, Reed}
  Streams = 2
  Allowed = {"FEC", "RTCP", "MULTICAST"}
  SenderInterfaces = {U1, U2}
  Interfaces = {U1}
  SourceIps <- MCSourceIps
  MulticastIps <- MCMulticastIps
  SenderPatches <- MCSenderPatches
  ReceiverPatches <- MCReceiverPatches
  ForeignSdps <- MCForeignSdps
  Destinations <- MCDestinations
  Details <- MCDetails
  Marks <- MCMarks
  Limits <- MCLimits
INVARIANTS
  ParamsTypeOK
PROPERTIES
  AutoIsResolved
  FileAppliedOrOff
\* the process may have ended
CHECK_DEADLOCK FALSE
