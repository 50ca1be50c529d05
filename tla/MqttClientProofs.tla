-------------------------- MODULE MqttClientProofs --------------------------
(***************************************************************************)
(* Proofs of the safety properties of MqttClient, for every number of      *)
(* message ids and with and without topics.                                *)
(***************************************************************************)
EXTENDS MqttClient, TLAPS

-----------------------------------------------------------------------------
\* Types.

LEMMA FlagsStep ==
    ASSUME FlagsOK, Next
    PROVE  FlagsOK'
<1> USE DEF FlagsOK, wrapper
<1>1. CASE InitClient
  BY <1>1 DEF InitClient
<1>2. CASE Connect
  BY <1>2 DEF Connect
<1>3. CASE Await
  BY <1>3 DEF Await
<1>4. CASE Input
  BY <1>4 DEF Input
<1>5. CASE ReadNothing
  BY <1>5 DEF ReadNothing
<1>6. CASE ReadPart
  BY <1>6 DEF ReadPart
<1>7. CASE ReadPacket
  BY <1>7 DEF ReadPacket
<1>8. CASE ReadFails
  BY <1>8 DEF ReadFails, Dropped
<1>9. CASE Callback
  BY <1>9 DEF Callback
<1>10. CASE RefusedCallback
  BY <1>10 DEF RefusedCallback, Dropped
<1>11. CASE Returned
  BY <1>11 DEF Returned
<1>12. CASE Abort
  BY <1>12 DEF Abort, Drop, Dropped
<1>13. CASE Subscribe
  BY <1>13 DEF Subscribe, Drop, Dropped
<1>14. CASE RequestOpen
  BY <1>14 DEF RequestOpen
<1>15. CASE Open
  BY <1>15 DEF Open
<1>16. CASE Poll
  BY <1>16 DEF Poll
<1>17. CASE Ping
  BY <1>17 DEF Ping, Drop, Dropped
<1>18. CASE RequestClose
  BY <1>18 DEF RequestClose
<1>19. CASE Close
  BY <1>19 DEF Close, Drop, Dropped
<1>20. CASE Release
  BY <1>20 DEF Release
<1>21. CASE Retry
  BY <1>21 DEF Retry
<1>22. CASE TryPublishing
  BY <1>22 DEF TryPublishing
<1>23. CASE Check
  BY <1>23 DEF Check
<1>24. CASE Publish
  BY <1>24 DEF Publish
<1>25. CASE PublishFails
  BY <1>25 DEF PublishFails
<1>26. CASE PublishCallback
  BY <1>26 DEF PublishCallback
<1> QED
  BY <1>1, <1>2, <1>3, <1>4, <1>5, <1>6, <1>7, <1>8, <1>9, <1>10, <1>11, <1>12, <1>13,
     <1>14, <1>15, <1>16, <1>17, <1>18, <1>19, <1>20, <1>21, <1>22, <1>23, <1>24, <1>25, <1>26
  DEF Next, MainStep, PubStep

LEMMA MutexStep ==
    ASSUME MutexOK, Next
    PROVE  MutexOK'
<1> USE DEF MutexOK, Threads, mutex
<1>1. CASE InitClient
  BY <1>1 DEF InitClient
<1>2. CASE Connect
  BY <1>2 DEF Connect
<1>3. CASE Await
  BY <1>3 DEF Await
<1>4. CASE Input
  BY <1>4 DEF Input
<1>5. CASE ReadNothing
  BY <1>5 DEF ReadNothing
<1>6. CASE ReadPart
  BY <1>6 DEF ReadPart
<1>7. CASE ReadPacket
  BY <1>7 DEF ReadPacket
<1>8. CASE ReadFails
  BY <1>8 DEF ReadFails
<1>9. CASE Callback
  BY <1>9 DEF Callback
<1>10. CASE RefusedCallback
  BY <1>10 DEF RefusedCallback
<1>11. CASE Returned
  BY <1>11 DEF Returned
<1>12. CASE Abort
  BY <1>12 DEF Abort, Drop
<1>13. CASE Subscribe
  BY <1>13 DEF Subscribe, Drop
<1>14. CASE RequestOpen
  BY <1>14 DEF RequestOpen, Lock
<1>15. CASE Open
  BY <1>15 DEF Open, Unlock
<1>16. CASE Poll
  BY <1>16 DEF Poll
<1>17. CASE Ping
  BY <1>17 DEF Ping, Drop
<1>18. CASE RequestClose
  BY <1>18 DEF RequestClose, Lock
<1>19. CASE Close
  BY <1>19 DEF Close, Drop
<1>20. CASE Release
  BY <1>20 DEF Release, Unlock
<1>21. CASE Retry
  BY <1>21 DEF Retry
<1>22. CASE TryPublishing
  BY <1>22 DEF TryPublishing, Lock
<1>23. CASE Check
  BY <1>23 DEF Check, Unlock
<1>24. CASE Publish
  BY <1>24 DEF Publish, Unlock
<1>25. CASE PublishFails
  BY <1>25 DEF PublishFails
<1>26. CASE PublishCallback
  BY <1>26 DEF PublishCallback, Unlock
<1> QED
  BY <1>1, <1>2, <1>3, <1>4, <1>5, <1>6, <1>7, <1>8, <1>9, <1>10, <1>11, <1>12, <1>13,
     <1>14, <1>15, <1>16, <1>17, <1>18, <1>19, <1>20, <1>21, <1>22, <1>23, <1>24, <1>25, <1>26
  DEF Next, MainStep, PubStep

LEMMA IdsStep ==
    ASSUME IdsOK, Next
    PROVE  IdsOK'
<1> USE ClientAssumption DEF IdsOK, ids
<1>1. CASE InitClient
  BY <1>1 DEF InitClient
<1>2. CASE Connect
  BY <1>2 DEF Connect
<1>3. CASE Await
  BY <1>3 DEF Await
<1>4. CASE Input
  BY <1>4 DEF Input
<1>5. CASE ReadNothing
  BY <1>5 DEF ReadNothing
<1>6. CASE ReadPart
  BY <1>6 DEF ReadPart
<1>7. CASE ReadPacket
  BY <1>7 DEF ReadPacket
<1>8. CASE ReadFails
  BY <1>8 DEF ReadFails
<1>9. CASE Callback
  BY <1>9 DEF Callback
<1>10. CASE RefusedCallback
  BY <1>10 DEF RefusedCallback
<1>11. CASE Returned
  BY <1>11 DEF Returned
<1>12. CASE Abort
  BY <1>12 DEF Abort
<1>13. CASE Subscribe
  BY <1>13 DEF Subscribe, GetNextMid
<1>14. CASE RequestOpen
  BY <1>14 DEF RequestOpen
<1>15. CASE Open
  BY <1>15 DEF Open
<1>16. CASE Poll
  BY <1>16 DEF Poll
<1>17. CASE Ping
  BY <1>17 DEF Ping
<1>18. CASE RequestClose
  BY <1>18 DEF RequestClose
<1>19. CASE Close
  BY <1>19 DEF Close
<1>20. CASE Release
  BY <1>20 DEF Release
<1>21. CASE Retry
  BY <1>21 DEF Retry
<1>22. CASE TryPublishing
  BY <1>22 DEF TryPublishing
<1>23. CASE Check
  BY <1>23 DEF Check, GetNextMid
<1>24. CASE Publish
  BY <1>24 DEF Publish
<1>25. CASE PublishFails
  BY <1>25 DEF PublishFails
<1>26. CASE PublishCallback
  BY <1>26 DEF PublishCallback
<1> QED
  BY <1>1, <1>2, <1>3, <1>4, <1>5, <1>6, <1>7, <1>8, <1>9, <1>10, <1>11, <1>12, <1>13,
     <1>14, <1>15, <1>16, <1>17, <1>18, <1>19, <1>20, <1>21, <1>22, <1>23, <1>24, <1>25, <1>26
  DEF Next, MainStep, PubStep

LEMMA PlacesStep ==
    ASSUME PlacesOK, Next
    PROVE  PlacesOK'
<1> USE DEF PlacesOK, Mains
<1>1. CASE InitClient
  BY <1>1 DEF InitClient
<1>2. CASE Connect
  BY <1>2 DEF Connect
<1>3. CASE Await
  BY <1>3 DEF Await
<1>4. CASE Input
  BY <1>4 DEF Input
<1>5. CASE ReadNothing
  BY <1>5 DEF ReadNothing
<1>6. CASE ReadPart
  BY <1>6 DEF ReadPart
<1>7. CASE ReadPacket
  BY <1>7 DEF ReadPacket
<1>8. CASE ReadFails
  BY <1>8 DEF ReadFails
<1>9. CASE Callback
  BY <1>9 DEF Callback
<1>10. CASE RefusedCallback
  BY <1>10 DEF RefusedCallback
<1>11. CASE Returned
  BY <1>11 DEF Returned
<1>12. CASE Abort
  BY <1>12 DEF Abort, Drop
<1>13. CASE Subscribe
  BY <1>13 DEF Subscribe, Drop
<1>14. CASE RequestOpen
  BY <1>14 DEF RequestOpen
<1>15. CASE Open
  BY <1>15 DEF Open
<1>16. CASE Poll
  BY <1>16 DEF Poll
<1>17. CASE Ping
  BY <1>17 DEF Ping, Drop
<1>18. CASE RequestClose
  BY <1>18 DEF RequestClose
<1>19. CASE Close
  BY <1>19 DEF Close, Drop
<1>20. CASE Release
  BY <1>20 DEF Release
<1>21. CASE Retry
  BY <1>21 DEF Retry
<1>22. CASE TryPublishing
  BY <1>22 DEF TryPublishing
<1>23. CASE Check
  BY <1>23 DEF Check
<1>24. CASE Publish
  BY <1>24 DEF Publish
<1>25. CASE PublishFails
  BY <1>25 DEF PublishFails
<1>26. CASE PublishCallback
  BY <1>26 DEF PublishCallback
<1> QED
  BY <1>1, <1>2, <1>3, <1>4, <1>5, <1>6, <1>7, <1>8, <1>9, <1>10, <1>11, <1>12, <1>13,
     <1>14, <1>15, <1>16, <1>17, <1>18, <1>19, <1>20, <1>21, <1>22, <1>23, <1>24, <1>25, <1>26
  DEF Next, MainStep, PubStep

LEMMA ClientStep ==
    ASSUME PlacesOK, ClientOK, Next
    PROVE  ClientOK'
<1> USE DEF PlacesOK, ClientOK, Events, wrapper
<1>1. CASE InitClient
  BY <1>1 DEF InitClient
<1>2. CASE Connect
  BY <1>2 DEF Connect
<1>3. CASE Await
  BY <1>3 DEF Await
<1>4. CASE Input
  BY <1>4 DEF Input
<1>5. CASE ReadNothing
  BY <1>5 DEF ReadNothing
<1>6. CASE ReadPart
  BY <1>6 DEF ReadPart
<1>7. CASE ReadPacket
  BY <1>7 DEF ReadPacket
<1>8. CASE ReadFails
  BY <1>8 DEF ReadFails, Dropped
<1>9. CASE Callback
  BY <1>9 DEF Callback
<1>10. CASE RefusedCallback
  BY <1>10 DEF RefusedCallback, Dropped
<1>11. CASE Returned
  BY <1>11 DEF Returned
<1>12. CASE Abort
  BY <1>12 DEF Abort, Drop, Dropped
<1>13. CASE Subscribe
  BY <1>13 DEF Subscribe, Drop, Dropped
<1>14. CASE RequestOpen
  BY <1>14 DEF RequestOpen
<1>15. CASE Open
  BY <1>15 DEF Open
<1>16. CASE Poll
  BY <1>16 DEF Poll
<1>17. CASE Ping
  BY <1>17 DEF Ping, Drop, Dropped
<1>18. CASE RequestClose
  BY <1>18 DEF RequestClose
<1>19. CASE Close
  BY <1>19 DEF Close, Drop, Dropped
<1>20. CASE Release
  BY <1>20 DEF Release
<1>21. CASE Retry
  BY <1>21 DEF Retry
<1>22. CASE TryPublishing
  BY <1>22 DEF TryPublishing
<1>23. CASE Check
  BY <1>23 DEF Check
<1>24. CASE Publish
  BY <1>24 DEF Publish
<1>25. CASE PublishFails
  BY <1>25 DEF PublishFails
<1>26. CASE PublishCallback
  BY <1>26 DEF PublishCallback
<1> QED
  BY <1>1, <1>2, <1>3, <1>4, <1>5, <1>6, <1>7, <1>8, <1>9, <1>10, <1>11, <1>12, <1>13,
     <1>14, <1>15, <1>16, <1>17, <1>18, <1>19, <1>20, <1>21, <1>22, <1>23, <1>24, <1>25, <1>26
  DEF Next, MainStep, PubStep

-----------------------------------------------------------------------------
\* The gate.

LEMMA GateStep ==
    ASSUME TypeOK, Gate, Next
    PROVE  Gate'
<1> USE DEF TypeOK, PlacesOK, ClientOK, MutexOK, Threads, Gate, Staged, Sockets,
        MutexHeld, InSession, Releasing, mutex, wrapper
<1>1. CASE InitClient
  BY <1>1 DEF InitClient
<1>2. CASE Connect
  BY <1>2 DEF Connect
<1>3. CASE Await
  BY <1>3 DEF Await
<1>4. CASE Input
  BY <1>4 DEF Input
<1>5. CASE ReadNothing
  BY <1>5 DEF ReadNothing
<1>6. CASE ReadPart
  BY <1>6 DEF ReadPart
<1>7. CASE ReadPacket
  BY <1>7 DEF ReadPacket
<1>8. CASE ReadFails
  BY <1>8 DEF ReadFails, Dropped
<1>9. CASE Callback
  <2>1. /\ main = "callback" /\ main' = after
        /\ client' = client \/ client' = "idle"
        /\ UNCHANGED <<stage, after, pub, owner, waiting, running, override>>
    BY <1>9 DEF Callback, mutex
  <2>2. MutexHeld' /\ Staged' /\ Sockets'
    BY <2>1 DEF TypeOK, PlacesOK, ClientOK, Gate, MutexHeld, Staged, Sockets, Releasing
  <2>3. InSession' = InSession
    BY <2>1 DEF TypeOK, PlacesOK, Gate, Staged, InSession, Releasing
  <2>4. /\ pub' \in {"write", "callback"} => running'
        /\ override' # "none" => main' = "returned" /\ override' = stage'
    BY <2>1 DEF Gate, Staged, TypeOK, PlacesOK
  <2> QED BY <2>1, <2>2, <2>3, <2>4 DEF Gate
<1>10. CASE RefusedCallback
  BY <1>10 DEF RefusedCallback, Dropped
<1>11. CASE Returned
  BY <1>11 DEF Returned
<1>12. CASE Abort
  BY <1>12 DEF Abort, Drop, Dropped
<1>13. CASE Subscribe
  BY <1>13 DEF Subscribe, Drop, Dropped
<1>14. CASE RequestOpen
  BY <1>14 DEF RequestOpen, Lock
<1>15. CASE Open
  BY <1>15 DEF Open, Unlock
<1>16. CASE Poll
  BY <1>16 DEF Poll
<1>17. CASE Ping
  BY <1>17 DEF Ping, Drop, Dropped
<1>18. CASE RequestClose
  BY <1>18 DEF RequestClose, Lock
<1>19. CASE Close
  BY <1>19 DEF Close, Drop, Dropped
<1>20. CASE Release
  BY <1>20 DEF Release, Unlock
<1>21. CASE Retry
  BY <1>21 DEF Retry
<1>22. CASE TryPublishing
  BY <1>22 DEF TryPublishing, Lock
<1>23. CASE Check
  BY <1>23 DEF Check, Unlock
<1>24. CASE Publish
  BY <1>24 DEF Publish, Unlock
<1>25. CASE PublishFails
  BY <1>25 DEF PublishFails
<1>26. CASE PublishCallback
  BY <1>26 DEF PublishCallback, Unlock
<1> QED
  BY <1>1, <1>2, <1>3, <1>4, <1>5, <1>6, <1>7, <1>8, <1>9, <1>10, <1>11, <1>12, <1>13,
     <1>14, <1>15, <1>16, <1>17, <1>18, <1>19, <1>20, <1>21, <1>22, <1>23, <1>24, <1>25, <1>26
  DEF Next, MainStep, PubStep

\* The ids.
LEMMA MidStep ==
    ASSUME TypeOK, Gate, ValidMids, Next
    PROVE  ValidMids'
<1> USE ClientAssumption DEF TypeOK, IdsOK, PlacesOK, ValidMids, ids, Gate, Staged,
        InSession, Releasing
<1>1. CASE InitClient
  BY <1>1 DEF InitClient
<1>2. CASE Connect
  BY <1>2 DEF Connect
<1>3. CASE Await
  BY <1>3 DEF Await
<1>4. CASE Input
  BY <1>4 DEF Input
<1>5. CASE ReadNothing
  BY <1>5 DEF ReadNothing
<1>6. CASE ReadPart
  BY <1>6 DEF ReadPart
<1>7. CASE ReadPacket
  BY <1>7 DEF ReadPacket
<1>8. CASE ReadFails
  BY <1>8 DEF ReadFails
<1>9. CASE Callback
  BY <1>9 DEF Callback
<1>10. CASE RefusedCallback
  BY <1>10 DEF RefusedCallback
<1>11. CASE Returned
  BY <1>11 DEF Returned
<1>12. CASE Abort
  BY <1>12 DEF Abort, Drop
<1>13. CASE Subscribe
  BY <1>13 DEF Subscribe, Drop, GetNextMid
<1>14. CASE RequestOpen
  BY <1>14 DEF RequestOpen
<1>15. CASE Open
  BY <1>15 DEF Open
<1>16. CASE Poll
  BY <1>16 DEF Poll
<1>17. CASE Ping
  BY <1>17 DEF Ping, Drop
<1>18. CASE RequestClose
  BY <1>18 DEF RequestClose
<1>19. CASE Close
  BY <1>19 DEF Close, Drop
<1>20. CASE Release
  BY <1>20 DEF Release
<1>21. CASE Retry
  BY <1>21 DEF Retry
<1>22. CASE TryPublishing
  BY <1>22 DEF TryPublishing
<1>23. CASE Check
  BY <1>23 DEF Check, GetNextMid
<1>24. CASE Publish
  BY <1>24 DEF Publish
<1>25. CASE PublishFails
  BY <1>25 DEF PublishFails
<1>26. CASE PublishCallback
  BY <1>26 DEF PublishCallback
<1> QED
  BY <1>1, <1>2, <1>3, <1>4, <1>5, <1>6, <1>7, <1>8, <1>9, <1>10, <1>11, <1>12, <1>13,
     <1>14, <1>15, <1>16, <1>17, <1>18, <1>19, <1>20, <1>21, <1>22, <1>23, <1>24, <1>25, <1>26
  DEF Next, MainStep, PubStep

\* The sockets.
LEMMA SocketStep ==
    ASSUME TypeOK, Gate, SocketsLeft, Next
    PROVE  SocketsLeft'
<1> USE DEF TypeOK, PlacesOK, ClientOK, SocketsLeft, Gate, Staged, Sockets, wrapper
<1>1. CASE InitClient
  BY <1>1 DEF InitClient
<1>2. CASE Connect
  BY <1>2 DEF Connect
<1>3. CASE Await
  BY <1>3 DEF Await
<1>4. CASE Input
  BY <1>4 DEF Input
<1>5. CASE ReadNothing
  BY <1>5 DEF ReadNothing
<1>6. CASE ReadPart
  BY <1>6 DEF ReadPart
<1>7. CASE ReadPacket
  BY <1>7 DEF ReadPacket
<1>8. CASE ReadFails
  BY <1>8 DEF ReadFails, Dropped
<1>9. CASE Callback
  BY <1>9 DEF Callback
<1>10. CASE RefusedCallback
  BY <1>10 DEF RefusedCallback, Dropped
<1>11. CASE Returned
  BY <1>11 DEF Returned
<1>12. CASE Abort
  BY <1>12 DEF Abort, Drop, Dropped
<1>13. CASE Subscribe
  BY <1>13 DEF Subscribe, Drop, Dropped
<1>14. CASE RequestOpen
  BY <1>14 DEF RequestOpen
<1>15. CASE Open
  BY <1>15 DEF Open
<1>16. CASE Poll
  BY <1>16 DEF Poll
<1>17. CASE Ping
  BY <1>17 DEF Ping, Drop, Dropped
<1>18. CASE RequestClose
  BY <1>18 DEF RequestClose
<1>19. CASE Close
  BY <1>19 DEF Close, Drop, Dropped
<1>20. CASE Release
  BY <1>20 DEF Release
<1>21. CASE Retry
  BY <1>21 DEF Retry
<1>22. CASE TryPublishing
  BY <1>22 DEF TryPublishing
<1>23. CASE Check
  BY <1>23 DEF Check
<1>24. CASE Publish
  BY <1>24 DEF Publish
<1>25. CASE PublishFails
  BY <1>25 DEF PublishFails
<1>26. CASE PublishCallback
  BY <1>26 DEF PublishCallback
<1> QED
  BY <1>1, <1>2, <1>3, <1>4, <1>5, <1>6, <1>7, <1>8, <1>9, <1>10, <1>11, <1>12, <1>13,
     <1>14, <1>15, <1>16, <1>17, <1>18, <1>19, <1>20, <1>21, <1>22, <1>23, <1>24, <1>25, <1>26
  DEF Next, MainStep, PubStep

\* Stuttering keeps them all.
LEMMA Stutter ==
    ASSUME UNCHANGED vars
    PROVE  /\ TypeOK' = TypeOK /\ Gate' = Gate
           /\ SocketsLeft' = SocketsLeft /\ ValidMids' = ValidMids
<1>1. UNCHANGED <<main, stage, after, pub, owner, waiting, running, client, override,
                  evtErr, failed, event, nextMid, mid>>
  BY DEF vars, mutex, wrapper, ids
<1>2. TypeOK' = TypeOK
  BY <1>1 DEF TypeOK, PlacesOK, ClientOK, MutexOK, FlagsOK, IdsOK
<1>3. Gate' = Gate
  BY <1>1 DEF Gate, MutexHeld, Staged, Sockets, InSession, Releasing
<1>4. SocketsLeft' = SocketsLeft /\ ValidMids' = ValidMids
  BY <1>1 DEF SocketsLeft, ValidMids
<1> QED BY <1>2, <1>3, <1>4

-----------------------------------------------------------------------------
\* The variables have their types.
THEOREM TypeCorrect == Spec => []TypeOK
<1>1. Init => TypeOK
  <2>1. Init => PlacesOK /\ ClientOK /\ MutexOK
    BY DEF Init, PlacesOK, ClientOK, MutexOK, Mains, Events, Threads
  <2>2. Init => FlagsOK
    BY DEF Init, FlagsOK
  <2>3. Init => IdsOK
    BY ClientAssumption DEF Init, IdsOK
  <2> QED BY <2>1, <2>2, <2>3 DEF TypeOK
<1>2. TypeOK /\ [Next]_vars => TypeOK'
  BY FlagsStep, MutexStep, IdsStep, PlacesStep, ClientStep, Stutter DEF TypeOK
<1> QED BY <1>1, <1>2, PTL DEF Spec

\* running is the session's flag, the mutex is held by whom it protects, and an
\* overriding handler is in place only while its answer is read.
THEOREM GateInvariant == Spec => []Gate
<1>1. Init => Gate
  BY DEF Init, Gate, MutexHeld, Staged, Sockets, InSession, Releasing
<1>2. TypeOK /\ Gate /\ [Next]_vars => Gate'
  BY GateStep, Stutter
<1> QED BY <1>1, <1>2, TypeCorrect, PTL DEF Spec

\* The publisher calls the library within a session of the main thread only.
THEOREM PublishesInSession == Spec => []PublishInSession
<1>1. Gate => PublishInSession
  BY DEF Gate, PublishInSession
<1> QED BY <1>1, GateInvariant, PTL

\* Its callbacks meet the default handler.
THEOREM PublisherCallbacks == Spec => []PublisherEvents
<1>1. TypeOK /\ Gate => PublisherEvents
  BY DEF TypeOK, PlacesOK, ClientOK, Gate, InSession, Staged, PublisherEvents
<1> QED BY <1>1, TypeCorrect, GateInvariant, PTL

\* No packet carries the message id 0.
THEOREM Mids == Spec => []ValidMids
<1>1. Init => ValidMids
  BY DEF Init, ValidMids
<1>2. ASSUME TypeOK, Gate, ValidMids, Next
      PROVE  ValidMids'
  BY <1>2, MidStep
<1>3. TypeOK /\ Gate /\ ValidMids /\ [Next]_vars => ValidMids'
  BY <1>2, Stutter
<1> QED BY <1>1, <1>3, TypeCorrect, GateInvariant, PTL DEF Spec

\* A cycle leaves a socket open only after a failed subscription or a session
\* without a CONNACK.
THEOREM SocketsClosed == Spec => []SocketsLeft
<1>1. Init => SocketsLeft
  BY DEF Init, SocketsLeft
<1>2. TypeOK /\ Gate /\ SocketsLeft /\ [Next]_vars => SocketsLeft'
  BY SocketStep, Stutter
<1> QED BY <1>1, <1>2, TypeCorrect, GateInvariant, PTL DEF Spec

-----------------------------------------------------------------------------
\* What the two liveness properties need besides the fairness of the threads.

\* The main thread is in a session whose connection is gone, or has left it.
Recovering == (running /\ client = "idle") \/ main \in {"release", "sleep", "init"}

\* The steps that may remain until it connects again.  A packet that was read
\* before the connection broke is still handled, and only the next read fails.
PlacesLeft(place) ==
    CASE place = "poll"    -> 9
      [] place = "input"   -> 8
      [] place = "read"    -> 7
      [] place = "ping"    -> 6
      [] place = "close"   -> 5
      [] place = "closing" -> 4
      [] place = "release" -> 3
      [] place = "sleep"   -> 2
      [] place = "init"    -> 1
      [] place = "connect" -> 0

RecoveryLeft ==
    CASE main = "callback" -> IF event = "refused" THEN 12 ELSE 11
      [] main = "returned" -> IF failed \/ evtErr THEN 6 ELSE 10
      [] OTHER             -> PlacesLeft(main)

\* A session whose connection is gone is on its way to the next connection,
\* brought nearer to it by every step of the main thread and taken back by none
\* of the publisher.
RecoveryAdvances ==
    Recovering => /\ Recovering' \/ main' = "connect"
                  /\ IF MainStep THEN RecoveryLeft' < RecoveryLeft
                                 ELSE RecoveryLeft' <= RecoveryLeft

LEMMA PlaceValues ==
    /\ PlacesLeft("poll") = 9 /\ PlacesLeft("input") = 8 /\ PlacesLeft("read") = 7
    /\ PlacesLeft("ping") = 6 /\ PlacesLeft("close") = 5 /\ PlacesLeft("closing") = 4
    /\ PlacesLeft("release") = 3 /\ PlacesLeft("sleep") = 2 /\ PlacesLeft("init") = 1
    /\ PlacesLeft("connect") = 0
BY DEF PlacesLeft

\* Where the main thread is while it recovers.
LEMMA RecoveringPlaces ==
    ASSUME TypeOK, Gate, Recovering
    PROVE  \/ /\ running /\ client = "idle" /\ stage = "session" /\ override = "none"
              /\ \/ main \in {"input", "read", "returned", "poll", "ping", "close", "closing"}
                 \/ main = "callback" /\ after \in {"returned", "close"}
           \/ main \in {"release", "sleep", "init"}
BY DEF TypeOK, PlacesOK, ClientOK, Mains, Gate, Staged, InSession, Releasing, Recovering

\* The place of the main thread tells which step it takes.
LEMMA StepAt ==
    ASSUME MainStep
    PROVE  /\ main = "init" => InitClient
           /\ main = "input" => Input
           /\ main = "read" => ReadNothing \/ ReadPart \/ ReadPacket \/ ReadFails
           /\ main = "callback" => Callback \/ RefusedCallback
           /\ main = "returned" => Returned
           /\ main = "opening" => Open
           /\ main = "poll" => Poll
           /\ main = "ping" => Ping
           /\ main = "close" => RequestClose
           /\ main = "closing" => Close
           /\ main = "release" => Release
           /\ main = "sleep" => Retry
BY DEF MainStep, InitClient, Connect, Await, Input, ReadNothing, ReadPart, ReadPacket,
       ReadFails, Callback, RefusedCallback, Returned, Abort, Subscribe, RequestOpen, Open,
       Poll, Ping, RequestClose, Close, Release, Retry

LEMMA RecoveryStep ==
    ASSUME TypeOK, Gate, Recovering, MainStep
    PROVE  /\ Recovering' \/ main' = "connect"
           /\ RecoveryLeft' < RecoveryLeft
<1> USE PlaceValues, StepAt DEF wrapper
<1>1. CASE main \in {"release", "sleep", "init"}
  <2>1. \/ main = "release" /\ main' = "sleep"
        \/ main = "sleep" /\ main' = "init"
        \/ main = "init" /\ main' = "connect"
    BY <1>1 DEF Release, Retry, InitClient
  <2> QED BY <2>1 DEF Recovering, RecoveryLeft
<1>2. CASE /\ running /\ client = "idle" /\ stage = "session" /\ override = "none"
           /\ \/ main \in {"input", "read", "returned", "poll", "ping", "close", "closing"}
              \/ main = "callback" /\ after \in {"returned", "close"}
  <2>1. CASE main = "poll"
    <3>1. main' \in {"input", "ping", "close"} /\ UNCHANGED <<running, client>>
      BY <2>1 DEF Poll
    <3> QED BY <1>2, <2>1, <3>1 DEF Recovering, RecoveryLeft
  <2>2. CASE main = "callback"
    <3>1. /\ UNCHANGED running /\ client' = "idle"
          /\ \/ main' = "callback" /\ event = "refused" /\ event' # "refused"
             \/ main' = after /\ after \in {"returned", "close"}
      BY <1>2, <2>2 DEF Callback, RefusedCallback, Dropped
    <3> QED BY <1>2, <2>2, <3>1 DEF Recovering, RecoveryLeft
  <2>3. CASE main = "returned"
    <3>1. /\ UNCHANGED <<running, client>>
          /\ main' = IF failed \/ evtErr THEN "close" ELSE "poll"
      BY <1>2, <2>3 DEF Returned
    <3> QED BY <1>2, <2>3, <3>1 DEF Recovering, RecoveryLeft
  <2>4. CASE main = "read"
    <3>1. main' = "returned" /\ failed' /\ UNCHANGED <<running, client>>
      BY <1>2, <2>4 DEF ReadNothing, ReadPart, ReadPacket, ReadFails
    <3> QED BY <1>2, <2>4, <3>1 DEF Recovering, RecoveryLeft
  <2>5. CASE main \in {"input", "ping", "close"}
    <3>1. /\ UNCHANGED <<running, client>>
          /\ \/ main = "input" /\ main' = "read"
             \/ main = "ping" /\ main' = "close"
             \/ main = "close" /\ main' = "closing"
      BY <1>2, <2>5 DEF Input, Ping, RequestClose
    <3> QED BY <1>2, <3>1 DEF Recovering, RecoveryLeft
  <2>6. CASE main = "closing"
    <3>1. main' = "release"
      BY <1>2, <2>6 DEF Close
    <3> QED BY <2>6, <3>1 DEF Recovering, RecoveryLeft
  <2> QED BY <1>2, <2>1, <2>2, <2>3, <2>4, <2>5, <2>6
<1> QED BY <1>1, <1>2, RecoveringPlaces

\* The steps of the publisher do not take the main thread back.
LEMMA PublisherAside ==
    ASSUME TypeOK, Gate, Recovering, TryPublishing \/ PubStep \/ UNCHANGED vars
    PROVE  Recovering' /\ RecoveryLeft' <= RecoveryLeft
<1>1. /\ UNCHANGED <<main, running, event, failed>>
      /\ client' = client \/ client' = "idle"
      /\ evtErr => evtErr'
  BY DEF TypeOK, FlagsOK, TryPublishing, PubStep, Check, Publish, PublishFails,
         PublishCallback, vars, wrapper
<1>2. Recovering'
  BY <1>1 DEF Recovering
<1>3. CASE main = "returned"
  <2>1. RecoveryLeft = IF failed \/ evtErr THEN 6 ELSE 10
    BY <1>3 DEF RecoveryLeft
  <2>2. RecoveryLeft' = IF failed \/ evtErr' THEN 6 ELSE 10
    BY <1>1, <1>3 DEF RecoveryLeft
  <2> QED BY <1>1, <1>2, <2>1, <2>2
<1>4. CASE main # "returned"
  <2>1. RecoveryLeft' = RecoveryLeft
    BY <1>1, <1>4 DEF RecoveryLeft, PlacesLeft
  <2>2. main \in {"input", "read", "callback", "returned", "poll", "ping", "close",
                  "closing", "release", "sleep", "init"}
    BY RecoveringPlaces
  <2>3. RecoveryLeft \in Nat
    BY <1>4, <2>2, PlaceValues DEF RecoveryLeft
  <2> QED BY <1>2, <2>1, <2>3
<1> QED BY <1>3, <1>4

\* A session that is broken is over in at most twelve steps of the main thread,
\* and the client connects again.
THEOREM Recovery ==
    Spec => [](Recovering => RecoveryLeft \in 1..12) /\ [][RecoveryAdvances]_vars
<1>1. ASSUME TypeOK, Gate, Recovering PROVE RecoveryLeft \in 1..12
  BY <1>1, RecoveringPlaces, PlaceValues DEF RecoveryLeft
<1>2. ASSUME TypeOK, Gate, [Next]_vars PROVE RecoveryAdvances
  <2> SUFFICES ASSUME Recovering
               PROVE  /\ Recovering' \/ main' = "connect"
                      /\ IF MainStep THEN RecoveryLeft' < RecoveryLeft
                                     ELSE RecoveryLeft' <= RecoveryLeft
    BY DEF RecoveryAdvances
  <2>1. CASE MainStep
    BY <1>2, <2>1, RecoveryStep
  <2>2. CASE ~ MainStep
    BY <1>2, <2>2, PublisherAside DEF Next
  <2> QED BY <2>1, <2>2
<1> QED BY <1>1, <1>2, TypeCorrect, GateInvariant, PTL DEF Spec

\* The steps after which gw_mqtt_client_try_publishing has returned: its own, and
\* those for which the main thread still keeps the mutex.
HoldLeft == CASE main = "closing"  -> 3
              [] main = "callback" -> 2
              [] OTHER             -> 1

PublishLeft == CASE pub = "idle"     -> 0
                 [] pub = "callback" -> 1
                 [] pub = "write"    -> 2
                 [] pub = "lock"     -> IF owner = "main" THEN 3 + HoldLeft ELSE 3

\* The publisher has the mutex, or the main thread, which with every step comes
\* nearer to giving it to the publisher and meanwhile does not wait for it.
PublishAdvances ==
    pub # "idle" =>
        /\ owner \in Threads
        /\ IF IF owner = "main" THEN MainStep ELSE PubStep
             THEN PublishLeft' < PublishLeft
             ELSE PublishLeft' <= PublishLeft

\* A refusal, which ends with a second callback, is told before the session ends.
EndsQuietly == main = "callback" /\ after # "returned" => event # "refused"

LEMMA QuietStep ==
    ASSUME TypeOK, EndsQuietly, [Next]_vars
    PROVE  EndsQuietly'
<1> USE DEF EndsQuietly, wrapper
<1>1. CASE Connect \/ Abort \/ Subscribe \/ Ping \/ Close
  BY <1>1 DEF Connect, Abort, Subscribe, Ping, Close, Drop, Dropped
<1>2. CASE ReadPacket \/ ReadFails \/ RefusedCallback
  BY <1>2 DEF ReadPacket, ReadFails, RefusedCallback, Dropped
<1>3. CASE Callback
  <2>1. main' # "callback"
    BY <1>3 DEF Callback, TypeOK, PlacesOK
  <2> QED BY <2>1
<1>4. CASE \/ InitClient \/ Await \/ Input \/ ReadNothing \/ ReadPart
           \/ Returned \/ RequestOpen \/ Open \/ Poll \/ RequestClose \/ Release \/ Retry
  <2>1. main' # "callback"
    BY <1>4 DEF InitClient, Await, Input, ReadNothing, ReadPart, Returned,
                RequestOpen, Open, Poll, RequestClose, Release, Retry, TypeOK, PlacesOK
  <2> QED BY <2>1
<1>5. CASE TryPublishing \/ PubStep \/ UNCHANGED vars
  BY <1>5 DEF TryPublishing, PubStep, Check, Publish, PublishFails, PublishCallback, vars
<1> QED BY <1>1, <1>2, <1>3, <1>4, <1>5 DEF Next, MainStep

\* Who has the mutex while the publisher wants it.
LEMMA Holder ==
    ASSUME TypeOK, Gate, pub # "idle"
    PROVE  \/ owner = "pub"
           \/ /\ owner = "main" /\ pub = "lock" /\ waiting = {"pub"}
              /\ \/ main \in {"opening", "closing", "release"}
                 \/ main = "callback" /\ after = "release"
BY DEF TypeOK, PlacesOK, MutexOK, Threads, Gate, MutexHeld, Releasing

LEMMA HolderSteps ==
    ASSUME TypeOK, Gate, EndsQuietly, pub # "idle", owner = "main", MainStep
    PROVE  PublishLeft' < PublishLeft
<1>1. /\ pub = "lock" /\ waiting = {"pub"}
      /\ \/ main \in {"opening", "closing", "release"}
         \/ main = "callback" /\ after = "release"
  BY Holder
<1>2. CASE main \in {"opening", "release"}
  <2>1. owner' \in waiting /\ pub' = pub
    BY <1>1, <1>2, StepAt DEF Open, Release, Unlock
  <2>2. PublishLeft = 4 /\ PublishLeft' = 3
    BY <1>1, <1>2, <2>1 DEF PublishLeft, HoldLeft
  <2> QED BY <2>2
<1>3. CASE main = "closing"
  <2>1. main' \in {"callback", "release"} /\ UNCHANGED <<pub, owner>>
    BY <1>3, StepAt DEF Close, Drop, mutex
  <2>2. PublishLeft = 6 /\ PublishLeft' \in {4, 5}
    BY <1>1, <1>3, <2>1 DEF PublishLeft, HoldLeft
  <2> QED BY <2>2
<1>4. CASE main = "callback"
  <2>1. main' = "release" /\ UNCHANGED <<pub, owner>>
    BY <1>1, <1>4, StepAt DEF EndsQuietly, Callback, RefusedCallback, mutex
  <2>2. PublishLeft = 5 /\ PublishLeft' = 4
    BY <1>1, <1>4, <2>1 DEF PublishLeft, HoldLeft
  <2> QED BY <2>2
<1> QED BY <1>1, <1>2, <1>3, <1>4

LEMMA PublisherSteps ==
    ASSUME TypeOK, Gate, PubStep
    PROVE  owner = "pub" /\ PublishLeft' < PublishLeft
<1>1. owner = "pub"
  BY DEF PubStep, Check, Publish, PublishFails, PublishCallback, Gate, MutexHeld
<1>2. \/ pub = "lock" /\ pub' \in {"write", "idle"}
      \/ pub = "write" /\ pub' \in {"idle", "callback"}
      \/ pub = "callback" /\ pub' = "idle"
  BY DEF PubStep, Check, Publish, PublishFails, PublishCallback
<1>3. PublishLeft = CASE pub = "idle" -> 0 [] pub = "callback" -> 1
                      [] pub = "write" -> 2 [] pub = "lock" -> 3
  BY <1>1 DEF PublishLeft
<1>4. pub' # "lock" =>
        PublishLeft' = CASE pub' = "idle" -> 0 [] pub' = "callback" -> 1
                         [] pub' = "write" -> 2
  BY DEF PublishLeft
<1> QED BY <1>1, <1>2, <1>3, <1>4

\* The steps of the main thread leave a publisher that has the mutex alone.
LEMMA PublisherHolds ==
    ASSUME TypeOK, Gate, pub # "idle", owner = "pub", MainStep \/ UNCHANGED vars
    PROVE  UNCHANGED <<pub, owner>>
<1>1. main \notin {"release"} /\ (main = "opening" => ~ Open)
  BY DEF Gate, MutexHeld, Releasing, Open
<1>2. CASE RequestOpen \/ RequestClose
  BY <1>2 DEF RequestOpen, RequestClose, Lock
<1>3. CASE \/ InitClient \/ Connect \/ Await \/ Input \/ ReadNothing \/ ReadPart
           \/ ReadPacket \/ ReadFails \/ Callback \/ RefusedCallback \/ Returned
  BY <1>3 DEF InitClient, Connect, Await, Input, ReadNothing, ReadPart, ReadPacket,
              ReadFails, Callback, RefusedCallback, Returned, mutex
<1>4. CASE Abort \/ Subscribe \/ Poll \/ Ping \/ Close \/ Retry \/ UNCHANGED vars
  BY <1>4 DEF Abort, Subscribe, Poll, Ping, Close, Retry, mutex, vars
<1>5. ~ Open /\ ~ Release
  BY <1>1 DEF Open, Release
<1> QED BY <1>2, <1>3, <1>4, <1>5 DEF MainStep

\* gw_mqtt_client_try_publishing returns after six steps at most of the thread
\* that has the mutex: neither thread waits for the other in turn.
THEOREM Publishing ==
    Spec => [](PublishLeft \in 0..6) /\ [][PublishAdvances]_vars
<1>1. Init => EndsQuietly
  BY DEF Init, EndsQuietly
<1>2. TypeOK /\ EndsQuietly /\ [Next]_vars => EndsQuietly'
  BY QuietStep
<1>3. TypeOK => PublishLeft \in 0..6
  BY DEF TypeOK, PlacesOK, PublishLeft, HoldLeft
<1>4. ASSUME TypeOK, Gate, EndsQuietly, [Next]_vars PROVE PublishAdvances
  <2> SUFFICES ASSUME pub # "idle"
               PROVE  /\ owner \in Threads
                      /\ IF IF owner = "main" THEN MainStep ELSE PubStep
                           THEN PublishLeft' < PublishLeft
                           ELSE PublishLeft' <= PublishLeft
    BY DEF PublishAdvances
  <2>1. owner \in Threads
    BY <1>4, Holder DEF Threads
  <2>2. CASE owner = "main" /\ MainStep
    BY <1>4, <2>1, <2>2, HolderSteps
  <2>3. CASE PubStep
    BY <1>4, <2>1, <2>3, PublisherSteps
  <2>4. CASE /\ ~ PubStep /\ ~ (owner = "main" /\ MainStep)
             /\ UNCHANGED vars \/ (MainStep /\ owner = "pub")
    <3>1. UNCHANGED <<pub, owner>> /\ (owner = "pub" \/ UNCHANGED vars)
      BY <1>4, <2>4, PublisherHolds DEF vars, mutex
    <3>2. PublishLeft' = PublishLeft
      BY <3>1 DEF PublishLeft, HoldLeft, vars
    <3>3. PublishLeft \in 0..6
      BY <1>3, <1>4
    <3> QED BY <2>1, <2>4, <3>2, <3>3
  <2>5. ~ TryPublishing
    BY DEF TryPublishing
  <2> QED BY <1>4, <2>1, <2>2, <2>3, <2>4, <2>5 DEF Next, Threads
<1> QED BY <1>1, <1>2, <1>3, <1>4, TypeCorrect, GateInvariant, PTL DEF Spec
=============================================================================
