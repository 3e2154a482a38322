SPECIFICATION FairSpec
CONSTANTS
  SlotCount = 2
  Callbacks = {c1}
  Worker = w
  MaxReads = 2
  MaxReports = 3
  LedSlotCount = 1
  MaxLeds = 2
  MaxFaults = 1
INVARIANTS RingIntact DeliveredInOrder OneRing LedsDrained
PROPERTY Delivered
