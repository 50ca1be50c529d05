SPECIFICATION Spec
CONSTANTS
  Anchors = {a1, a2, a3, a4}
  Slots = 4
  Repetitions = 2
  Period = 2
  HeapBlocks = 2
  Garbage = garbage
  None = none
  MaxTime = 9
SYMMETRY AnchorSymmetry
INVARIANT Alternating
\* A behaviour ends when the thread sleeps beyond MaxTime.
CHECK_DEADLOCK FALSE
