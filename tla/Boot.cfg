SPECIFICATION FairSpec
CONSTANTS
  Tags = {t1}
  Gateways = {g1}
  Anchors = {a1}
  Ids <- MCIds
INVARIANTS PushesWhenReady DefaultsMeet
PROPERTY BootEnds
\* Nodes halt.
CHECK_DEADLOCK FALSE
