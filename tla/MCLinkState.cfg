SPECIFICATION FairSpec
CONSTANTS
  Nodes = {1, 2, 3}
  Latencies = {2, 6}
  PerUnit = 2
  NONE = NONE
  Topology <- Ring
  Volatile <- Shortcut
  MaxChanges = 2
CHECK_DEADLOCK FALSE
INVARIANTS TypeOK NoRowLost Converged PathsShortest
PROPERTIES Implements FloodingEnds
