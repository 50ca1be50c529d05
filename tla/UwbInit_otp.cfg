\* An application that asks for words of the OTP after a wake-up.
SPECIFICATION Spec
CONSTANTS
  Timeout = 1
  WakeConfigs <- ReadingWakeUps
  MaxRestarts = 0
INVARIANTS OtpReliable
CHECK_DEADLOCK FALSE
