\* Powers of every byte value, settled in every step the tables allow.
SPECIFICATION Spec
CONSTANTS
  Quarters <- MCQuarters
  Counts <- MCCounts
  Targets <- MCTargets
  Deltas <- MCDeltas
  Bytes <- MCBytes
  Base = 4
  ReplyDelay = 35
  AntennaDelay = 9
  Times <- MCTimes
  Flights = {0, 1, 5}
INVARIANT AttenuationStops
