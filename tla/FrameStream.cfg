SPECIFICATION Spec
CONSTANTS
  EventQueueSize = 2
  FrameQueueSize = 1
  MaxSequence = 3
  MaxInFlight = 2
  MaxRequests = 1
PROPERTIES
  SentChain
  ImplementsDecodableStream
CHECK_DEADLOCK FALSE
