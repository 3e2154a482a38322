CONSTANTS
  EventQueueSize = 2
  ControlCapacity = 1
  MaxCommands = 1
  MaxMessages = 1
  MayCrash = TRUE
SPECIFICATION FairSpec
PROPERTIES
  AllEnd
CHECK_DEADLOCK FALSE
