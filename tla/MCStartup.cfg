SPECIFICATION FairSpec
CONSTANTS
  Modules <- MODS
  Config <- MODS
  Monitored <- MONITORED_MODS
CHECK_DEADLOCK FALSE
INVARIANTS TypeOK NoDeadlock
PROPERTIES StartsUp ShutsDown
