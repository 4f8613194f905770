SPECIFICATION Spec
CONSTANTS
  ANY = ANY
  Locals = {p}
  Answered = {p}
  Remotes = {r, r2}
  Bytes <- MCBytes
  SEQ_MOD = 3
  MSS = 1
  N = 1
  BUFFER_SIZE = 2
  WINDOW = 2
  ISN_ACCEPT = 1
  ISN_CONNECT = 1
  TRIES = 1
  TIME_WAIT_TICKS = 1
  Segments <- MCSegments
  Writes <- MCWrites
  PeerSeqs = {1}
  PeerAcks = {2}
  MaxTime = 2
  MaxConns = 3
  MaxBuffer = 0
CHECK_DEADLOCK FALSE
PROPERTY TimeWaitErasesItself
