CONSTANTS
  Nics = {eth0, net1}
  Ids = {d1, d2, d3}
  MaxCloseFaults = 1
CHECK_DEADLOCK FALSE
SPECIFICATION LiveSpec
INVARIANTS TypeOK NoStraySocket WatcherGuards
PROPERTIES WatcherEnds StoppedWithContext
