SPECIFICATION Spec
CONSTANTS
  MaxImages = 2
  MaxHeld = 1
  MaxSkips = 1
  Recency = 1
  StallLimit = 2
  Faults = {"change", "freeze", "death", "stall", "hold", "lag", "refuse"}
INVARIANTS
  OneHandoff
  FreshAfterRestart
  TimesTrue
PROPERTIES
  EveryImageShown
  StallRecovered
