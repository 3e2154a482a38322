CONSTANTS
  Window = 8
  Budget = 10
  SilenceSpan = 4
  Chunks <- MCChunks
  Keyframes = {0, 4}
  MaxSequence = 5
  MaxSilence = 12
  FirstFrame = 4
  FramePeriod = 2
  Delay = 1
  Retry = 5
  TailQuiet = 1
  AnnouncementDelay = 4
  RecentFrames = 16
  Burst = 4
  LastFrame = 3
  MaxLosses = 2
SPECIFICATION MCSpec
INVARIANTS
  HostRepairsInTime
PROPERTIES
  LossesAreReal
  LossesReported
  HostHandsAllOut
CHECK_DEADLOCK FALSE
