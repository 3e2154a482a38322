CONSTANTS
  EventQueueSize = 1
  FrameQueueSize = 1
  MaxInPipe = 2
  MaxRequests = 1
  MaxFaults = 3
SPECIFICATION FairSpec
PROPERTIES
  Resumes
  RequestsEnd
