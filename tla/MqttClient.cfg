\* The gateway stops when do_subscribe finds no memory.
SPECIFICATION FairSpec
CONSTANTS
  HasTopics = TRUE
  MidMod = 3
INVARIANTS PublishInSession PublisherEvents ValidMids SocketsLeft
PROPERTIES BrokenSessionEnds PublishReturns
CHECK_DEADLOCK FALSE
