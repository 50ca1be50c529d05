\* One tag that measures more often than its queue has room for; its threads
\* and those of the gateway are fair.
SPECIFICATION FairSpec
CONSTANTS
  Tags = {t1}
  Gw = gw
  NoLoc = none
  QueueLen = 2
  MaxLocs = 3
INVARIANT NoLostWakeup
PROPERTIES ImplementsDelivery QueueDrains
\* All locations are measured and gone in the end.
CHECK_DEADLOCK FALSE
