CONSTANTS
  Generations = 2
  LastSequence <- MCLastSequence
  Split = {1}
  QueuePackets = 2
  MaxConcealed = 2
  PlayCapacity = 2
  Prebuffer = 2
  MaxDevice = 3
SPECIFICATION FairAudioSpec
INVARIANTS
  TimeGoesForward
PROPERTIES
  ImplementsDecodableAudio
  WaitsEnd
CHECK_DEADLOCK FALSE
