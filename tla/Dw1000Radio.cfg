SPECIFICATION FairSpec
CONSTANT MaxFrames = 3
INVARIANTS WaitKnown WrongReceiverEnds EndedTxKnown RestIsOff
PROPERTIES ImplementsFifo EventsServed
