SPECIFICATION ServicesSpec
CONSTANTS
  Quarters <- MCQuarters
  Counts <- MCCounts
  Targets <- MCTargets
  Deltas <- MCDeltas
  Bytes <- MCBytes
  Base = 4
  ReplyDelay = 35
  AntennaDelay = 9
  Times <- MCTimes
  Flights = {0, 1, 5}
  Callers = {"thread", "routine"}
  Files = {5, 63}
  Addresses <- MCAddresses
  Requests <- MCRequests
  Tries = 2
  SleepCounts = {1, 2}
  PhyModes = {"6.8 Mbps", "110 kbps"}
  SlowModes = {"110 kbps"}
  Masks <- MCMasks
  Frames <- MCFrames
INVARIANTS
  BiasFound BestBandwidth PowerKept TimesAgree
  RightClock ClocksGivenBack OtpVerified
  SleepWakes AwakeComplete
  RegistersAsAsked
PROPERTY ImplementsRegisterFile
