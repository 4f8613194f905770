SPECIFICATION Spec
CONSTANTS
  NUM_SOCKS = 3
  NUM_PORTS = 2
  BIN_SIZE = 1
  ANY = ANY
  NONE = NONE
  Remotes = {r}
  MaxPipe = 3
  Apps <- TcpApp
  MaxDatagrams = 1
  MaxSegments = 2
INVARIANT TcpAnswersInOrder
CHECK_DEADLOCK FALSE
