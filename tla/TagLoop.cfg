\* Three anchors of which two are ranged with, and memory for two selections.
SPECIFICATION FairSpec
CONSTANTS
  Anchors = {a1, a2, a3}
  Slots = 2
  Repetitions = 3
  Period = 2
  HeapBlocks = 2
  Garbage = garbage
  None = none
  MaxTime = 9
INVARIANTS CompleteMeasurements RateBound
PROPERTIES PositioningEnds
\* A behaviour ends when the thread sleeps beyond MaxTime.
CHECK_DEADLOCK FALSE
