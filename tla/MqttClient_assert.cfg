SPECIFICATION Spec
CONSTANTS
  HasTopics = FALSE
  MidMod = 3
INVARIANT NoEventAfterError
