SPECIFICATION FairSpec
CONSTANTS
  Nodes = {1, 2, 3}
  Latencies = {1, 3}
  NONE = NONE
  Garbage = {0}
  Topologies <- Files
  EventFile <- Events
  MaxChanges = 2
CHECK_DEADLOCK FALSE
INVARIANTS TypeOK RowsFollow RoutesShortest
PROPERTIES Settles
