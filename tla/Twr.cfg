\* One tag, one anchor and two exchanges: the answer to the first poll can meet
\* the second.
SPECIFICATION FairSpec
CONSTANTS
  Tags = {t1}
  Anchors = {a1}
  RxOn = 2
  RxTimeout = 1
  Reply = 3
  PollTimeout = 4
  Stray = stray
  MaxExchanges = 2
INVARIANTS OwnResponse IdleAtCommand
PROPERTIES ExchangeEnds AnchorReturns
