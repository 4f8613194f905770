SPECIFICATION Spec
CONSTANTS
  ANY = ANY
  Locals = {p}
  Answered = {p}
  Remotes = {r}
  Bytes <- MCBytes
  SEQ_MOD = 7
  MSS = 1
  N = 2
  BUFFER_SIZE = 4
  WINDOW = 4
  ISN_ACCEPT = 3
  ISN_CONNECT = 4
  TRIES = 1
  TIME_WAIT_TICKS = 2
  Segments <- MCSegments
  Writes <- MCWrites
  PeerSeqs = {1, 2}
  PeerAcks = {4, 5, 6}
  MaxTime = 2
  MaxConns = 2
  MaxBuffer = 2
CHECK_DEADLOCK FALSE
PROPERTY WriteReportsQueued
