SPECIFICATION FairSpec
CONSTANTS
  Me = "me"
  MyHW = "mine"
  Hosts = {"host"}
  BROADCAST = "broadcast"
  HW = {"old", "new"}
  BLANK = "blank"
  NONE = NONE
  Capacity = 1
  Dests <- Destinations
  Arrivals <- FromHost
CHECK_DEADLOCK FALSE
INVARIANTS TypeOK AddressesMatch OnlyFullPipesBlock
PROPERTIES RetriesGetOut
