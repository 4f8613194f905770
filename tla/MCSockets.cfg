SPECIFICATION FairSpec
CONSTANTS
  NUM_SOCKS = 3
  NUM_PORTS = 2
  BIN_SIZE = 1
  ANY = ANY
  NONE = NONE
  Remotes = {r}
  MaxPipe = 3
  Apps <- TheApps
  MaxDatagrams = 1
  MaxSegments = 2
INVARIANTS
  TypeOK
  UdpAnswersInOrder
  PendingSockets
  UdpPortsUnique
  ForwardInPlace
PROPERTIES
  Implements
  UdpCallsReturn
CHECK_DEADLOCK FALSE
