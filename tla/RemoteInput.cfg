SPECIFICATION Spec
CONSTANTS
  Keys = {k, u}
  UnknownKeys = {u}
  Buttons = {b}
  ChannelSize = 2
  PackSize = 2
  QueueSize = 1
  MaxActions = 3
  MaxSessions = 2
  MaxFaults = 1
INVARIANTS NothingLost OnlyHeldSent ReleasedAtEnd
CHECK_DEADLOCK FALSE
