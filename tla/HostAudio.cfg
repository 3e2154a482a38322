SPECIFICATION Spec
CONSTANTS
  speaker = speaker
  headset = headset
  vbcable = vbcable
  LastRole = 2
  Cable = vbcable
  Devices <- Two
  Wishes <- SomeWishes
  Queue = 2
  Budgets <- Scenarios
CHECK_DEADLOCK FALSE
INVARIANT Undoable
INVARIANT PacketsTrue
PROPERTY FailureTold
