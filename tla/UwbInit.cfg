\* A host that restarts twice, and chips that woke up.
SPECIFICATION FairSpec
CONSTANTS
  Timeout = 2
  WakeConfigs <- PlainWakeUps
  MaxRestarts = 2
INVARIANTS RateWithinClock OtpReliable SleepModeMatches
PROPERTIES InitialisationEnds
\* The initialisation has ended.
CHECK_DEADLOCK FALSE
