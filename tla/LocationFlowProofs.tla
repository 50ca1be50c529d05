------------------------- MODULE LocationFlowProofs -------------------------
(***************************************************************************)
(* Proofs about LocationFlow, for every set of tags, every queue length    *)
(* and every number of measurements.                                       *)
(***************************************************************************)
EXTENDS LocationFlow, TLAPS

\* What the two queue operations return, element by element.
LEMMA AppendFacts ==
    ASSUME NEW S, NEW q \in Seq(S), NEW e \in S
    PROVE  /\ Append(q, e) \in Seq(S)
           /\ Len(Append(q, e)) = Len(q) + 1
           /\ \A i \in 1..Len(q): Append(q, e)[i] = q[i]
           /\ Append(q, e)[Len(q) + 1] = e
           /\ Append(q, e) # <<>>
OBVIOUS

LEMMA TailFacts ==
    ASSUME NEW S, NEW q \in Seq(S), q # <<>>
    PROVE  /\ Tail(q) \in Seq(S)
           /\ Len(q) \in Nat \ {0}
           /\ Len(Tail(q)) = Len(q) - 1
           /\ Head(q) = q[1]
           /\ Head(q) \in S
           /\ \A i \in 1..Len(Tail(q)): Tail(q)[i] = q[i + 1]
OBVIOUS

LEMMA ElementFacts ==
    ASSUME NEW S, NEW q \in Seq(S)
    PROVE  /\ Len(q) \in Nat
           /\ \A i \in 1..Len(q): q[i] \in S
OBVIOUS

-----------------------------------------------------------------------------
\* Put leaves the other queues alone and keeps a queue within its capacity.
LEMMA PutType ==
    ASSUME TypeOK, NEW s \in Stage, NEW loc \in Loc, Put(s, loc)
    PROVE  /\ queue' \in [Stage -> Seq(Loc)]
           /\ \A r \in Stage: Len(queue'[r]) <= QueueLen
           /\ queue[s] = queue'[s] \/ queue'[s] = Append(queue[s], loc)
           /\ \A r \in Stage \ {s}: queue'[r] = queue[r]
<1>1. CASE Len(queue[s]) < QueueLen
  <2>1. queue' = [queue EXCEPT ![s] = Append(@, loc)]
    BY <1>1 DEF Put
  <2>2. /\ Append(queue[s], loc) \in Seq(Loc)
        /\ Len(Append(queue[s], loc)) = Len(queue[s]) + 1
        /\ Len(queue[s]) \in Nat
    BY AppendFacts, ElementFacts DEF TypeOK
  <2>3. Len(Append(queue[s], loc)) <= QueueLen
    BY <1>1, <2>2, FlowAssumption
  <2> QED BY <2>1, <2>2, <2>3 DEF TypeOK
<1>2. CASE ~(Len(queue[s]) < QueueLen)
  BY <1>2 DEF Put, TypeOK
<1> QED BY <1>1, <1>2

\* Every action keeps the types; the queues stay within their capacity.
LEMMA InitType == Init => TypeOK
<1> SUFFICES ASSUME Init PROVE TypeOK
  OBVIOUS
<1>1. /\ <<>> \in Seq(Loc)
      /\ Len(<<>>) = 0
  OBVIOUS
<1>2. /\ queue \in [Stage -> Seq(Loc)]
      /\ \A s \in Stage: Len(queue[s]) <= QueueLen
  BY <1>1, FlowAssumption DEF Init
<1>3. /\ handler \in [Stage -> {"idle", "get", "send", "return"}]
      /\ hand \in [Stage -> Loc \cup {NoLoc}]
      /\ \A s \in Stage: handler[s] = "send" <=> hand[s] # NoLoc
  BY DEF Init
<1>4. /\ measured \in [Tags -> Nat]
      /\ putting \in [Stage -> BOOLEAN]
      /\ queued \in [Stage -> BOOLEAN]
      /\ running \in BOOLEAN
      /\ published \in Seq(Loc)
  BY <1>1 DEF Init
<1>5. /\ sent \in [Tags -> Nat]
      /\ air \in [Tags -> SUBSET Msg]
      /\ replay \in [Tags -> Nat]
  BY DEF Init
<1> QED BY <1>2, <1>3, <1>4, <1>5 DEF TypeOK

LEMMA NextType == TypeOK /\ [Next]_vars => TypeOK'
<1> SUFFICES ASSUME TypeOK, [Next]_vars PROVE TypeOK'
  OBVIOUS
<1> USE FlowAssumption DEF TypeOK, work, meshVars, mqttVars
<1>1. ASSUME NEW t \in Tags, SendLocation(t) PROVE TypeOK'
  <2>1. [tag |-> t, n |-> measured[t] + 1] \in Loc /\ t \in Stage
    BY DEF Loc, Stage
  <2>2. /\ queue' \in [Stage -> Seq(Loc)]
        /\ \A r \in Stage: Len(queue'[r]) <= QueueLen
    BY <1>1, <2>1, PutType DEF SendLocation
  <2>3. measured' \in [Tags -> Nat] /\ putting' \in [Stage -> BOOLEAN]
    BY <1>1, <2>1 DEF SendLocation
  <2> QED BY <1>1, <2>2, <2>3 DEF SendLocation
<1>2. ASSUME NEW t \in Tags, NEW m \in air[t], LocPushHandler(t, m) PROVE TypeOK'
  <2>1. [tag |-> t, n |-> m.n] \in Loc /\ Gw \in Stage /\ m.seq \in Nat
    BY DEF Loc, Stage, Msg
  <2>2. /\ queue' \in [Stage -> Seq(Loc)]
        /\ \A r \in Stage: Len(queue'[r]) <= QueueLen
    BY <1>2, <2>1, PutType DEF LocPushHandler
  <2> QED BY <1>2, <2>1, <2>2 DEF LocPushHandler
<1>3. ASSUME NEW s \in Stage, Submit(s) PROVE TypeOK'
  BY <1>3 DEF Submit
<1>4. ASSUME NEW s \in Stage, RunWork(s) PROVE TypeOK'
  BY <1>4 DEF RunWork
<1>5. ASSUME NEW s \in Stage, TakeNext(s) PROVE TypeOK'
  <2>1. CASE queue[s] = <<>>
    BY <1>5, <2>1 DEF TakeNext
  <2>2. CASE queue[s] # <<>>
    <3>1. /\ Tail(queue[s]) \in Seq(Loc)
          /\ Head(queue[s]) \in Loc
          /\ Len(queue[s]) \in Nat
          /\ Len(Tail(queue[s])) = Len(queue[s]) - 1
      BY <2>2, TailFacts
    <3>2. Head(queue[s]) # NoLoc
      BY <3>1
    <3>3. /\ queue' = [queue EXCEPT ![s] = Tail(@)]
          /\ hand' = [hand EXCEPT ![s] = Head(queue[s])]
          /\ handler' = [handler EXCEPT ![s] = "send"]
      BY <1>5, <2>2 DEF TakeNext
    <3>4. /\ queue' \in [Stage -> Seq(Loc)]
          /\ \A r \in Stage: Len(queue'[r]) <= QueueLen
      BY <3>1, <3>3
    <3>5. /\ hand' \in [Stage -> Loc \cup {NoLoc}]
          /\ handler' \in [Stage -> {"idle", "get", "send", "return"}]
          /\ \A r \in Stage: handler'[r] = "send" <=> hand'[r] # NoLoc
      BY <3>1, <3>2, <3>3
    <3> QED BY <1>5, <3>4, <3>5 DEF TakeNext
  <2> QED BY <2>1, <2>2
<1>6. ASSUME NEW s \in Stage, Return(s) PROVE TypeOK'
  BY <1>6 DEF Return
<1>7. ASSUME NEW t \in Tags, LocPush(t) PROVE TypeOK'
  <2>1. t \in Stage /\ hand[t].n \in Nat \ {0}
    BY <1>7 DEF Stage, LocPush, Loc
  <2>2. [n |-> hand[t].n, seq |-> sent[t] + 1] \in Msg
    BY <2>1 DEF Msg
  <2> QED BY <1>7, <2>1, <2>2 DEF LocPush, Passed
<1>8. ASSUME NEW t \in Tags, LocPushFails(t) PROVE TypeOK'
  BY <1>8 DEF LocPushFails, Passed, Stage
<1>9. CASE Publish
  <2>1. Gw \in Stage /\ hand[Gw] \in Loc
    BY <1>9 DEF Stage, Publish
  <2>2. Append(published, hand[Gw]) \in Seq(Loc)
    BY <2>1, AppendFacts
  <2> QED BY <1>9, <2>1, <2>2 DEF Publish, Passed
<1>10. CASE PublishFails
  BY <1>10 DEF PublishFails, Passed, Stage
<1>11. ASSUME NEW t \in Tags, NEW m \in air[t], Lose(t, m) PROVE TypeOK'
  BY <1>11 DEF Lose
<1>12. CASE ClientRuns
  BY <1>12 DEF ClientRuns
<1>13. CASE UNCHANGED vars
  BY <1>13 DEF vars
<1> QED
  BY <1>1, <1>2, <1>3, <1>4, <1>5, <1>6, <1>7, <1>8, <1>9, <1>10, <1>11, <1>12, <1>13
  DEF Next, Producers, Handlers, Mesh

\* Type correctness, the capacity of the queues included.
THEOREM TypeCorrect == Spec => []TypeOK
BY InitType, NextType, PTL DEF Spec

-----------------------------------------------------------------------------
\* A queue that holds a location always has a handler that will look at it.
\* A put needs no step of the handler in return: the producer is then inside
\* its put-then-submit pair, and the submission that ends the pair is kept even
\* while the handler is returning.
THEOREM Wakeups == Spec => []NoLostWakeup
<1>1. Init => NoLostWakeup
  BY DEF Init, NoLostWakeup
<1>2. TypeOK /\ NoLostWakeup /\ [Next]_vars => NoLostWakeup'
  <2> SUFFICES ASSUME TypeOK, NoLostWakeup, [Next]_vars,
                      NEW r \in Stage, (queue[r] # <<>> /\ ~putting[r])'
               PROVE  (queued[r] \/ handler[r] \in {"get", "send"})'
    BY DEF NoLostWakeup
  <2>0. queue[r] # <<>> /\ ~putting[r] => queued[r] \/ handler[r] \in {"get", "send"}
    BY DEF NoLostWakeup
  <2> USE FlowAssumption DEF TypeOK, work, meshVars, mqttVars, Stage
  <2>1. ASSUME NEW t \in Tags, SendLocation(t)
        PROVE (queued[r] \/ handler[r] \in {"get", "send"})'
    BY <2>0, <2>1 DEF SendLocation, Put
  <2>2. ASSUME NEW t \in Tags, NEW m \in air[t], LocPushHandler(t, m)
        PROVE (queued[r] \/ handler[r] \in {"get", "send"})'
    BY <2>0, <2>2 DEF LocPushHandler, Put
  <2>3. ASSUME NEW s \in Stage, Submit(s)
        PROVE (queued[r] \/ handler[r] \in {"get", "send"})'
    BY <2>0, <2>3 DEF Submit
  <2>4. ASSUME NEW s \in Stage, RunWork(s)
        PROVE (queued[r] \/ handler[r] \in {"get", "send"})'
    BY <2>0, <2>4 DEF RunWork
  <2>5. ASSUME NEW s \in Stage, TakeNext(s)
        PROVE (queued[r] \/ handler[r] \in {"get", "send"})'
    BY <2>0, <2>5 DEF TakeNext
  <2>6. ASSUME NEW s \in Stage, Return(s)
        PROVE (queued[r] \/ handler[r] \in {"get", "send"})'
    BY <2>0, <2>6 DEF Return
  <2>7. ASSUME NEW t \in Tags, LocPush(t) \/ LocPushFails(t)
        PROVE (queued[r] \/ handler[r] \in {"get", "send"})'
    BY <2>0, <2>7 DEF LocPush, LocPushFails, Passed
  <2>8. CASE Publish \/ PublishFails
    BY <2>0, <2>8 DEF Publish, PublishFails, Passed
  <2>9. ASSUME NEW t \in Tags, NEW m \in air[t], Lose(t, m)
        PROVE (queued[r] \/ handler[r] \in {"get", "send"})'
    BY <2>0, <2>9 DEF Lose
  <2>10. CASE ClientRuns \/ UNCHANGED vars
    BY <2>0, <2>10 DEF ClientRuns, vars
  <2> QED
    BY <2>1, <2>2, <2>3, <2>4, <2>5, <2>6, <2>7, <2>8, <2>9, <2>10
    DEF Next, Producers, Handlers, Mesh
<1> QED BY TypeCorrect, <1>1, <1>2, PTL DEF Spec

-----------------------------------------------------------------------------
\* How the operations change the locations at a stage.
LEMMA HereType ==
    ASSUME TypeOK
    PROVE  /\ \A s \in Stage: Here(s) \subseteq Loc
           /\ Published \subseteq Loc
BY ElementFacts DEF TypeOK, Here, Held, Waiting, Published

\* Where neither the queue nor the hand changes, nothing does.
LEMMA OthersHere ==
    ASSUME NEW r, queue'[r] = queue[r], hand'[r] = hand[r]
    PROVE  Here(r)' = Here(r) /\ (OrderedAt(r) => OrderedAt(r)')
<1>1. Held(r)' = Held(r)
  BY DEF Held
<1>2. Waiting(r)' = Waiting(r)
  <2> DEFINE In(q) == {q[i] : i \in 1..Len(q)}
  <2>1. Waiting(r)' = In(queue'[r]) /\ Waiting(r) = In(queue[r])
    BY DEF Waiting
  <2> QED BY <2>1
<1>3. Here(r)' = Here(r)
  BY <1>1, <1>2 DEF Here
<1>4. OrderedAt(r) => OrderedAt(r)'
  BY <1>1, <1>2 DEF OrderedAt
<1> QED BY <1>3, <1>4

\* A put adds at most the new location, and at the end.
LEMMA PutHere ==
    ASSUME TypeOK, NEW s \in Stage, NEW loc \in Loc, Put(s, loc), UNCHANGED hand,
           OrderedAt(s), \A old \in Here(s): old.tag = loc.tag => old.n < loc.n
    PROVE  /\ OrderedAt(s)'
           /\ Here(s)' \subseteq Here(s) \cup {loc}
           /\ \A r \in Stage \ {s}: Here(r)' = Here(r) /\ (OrderedAt(r) => OrderedAt(r)')
<1>0. \A r \in Stage \ {s}: queue'[r] = queue[r] /\ hand'[r] = hand[r]
  BY PutType
<1>1. \A r \in Stage \ {s}: Here(r)' = Here(r) /\ (OrderedAt(r) => OrderedAt(r)')
  BY <1>0, OthersHere
<1>2. CASE queue'[s] = queue[s]
  <2>1. hand'[s] = hand[s]
    OBVIOUS
  <2> QED BY <1>1, <1>2, <2>1, OthersHere
<1>3. CASE queue'[s] = Append(queue[s], loc)
  <2>1. /\ Len(queue[s]) \in Nat
        /\ Len(queue'[s]) = Len(queue[s]) + 1
        /\ \A i \in 1..Len(queue[s]): queue'[s][i] = queue[s][i]
        /\ queue'[s][Len(queue[s]) + 1] = loc
    BY <1>3, AppendFacts, ElementFacts DEF TypeOK
  <2>2. Waiting(s)' = Waiting(s) \cup {loc}
    BY <2>1 DEF Waiting
  <2>3. Held(s)' = Held(s)
    BY DEF Held
  <2>4. \A h \in Held(s)', w \in Waiting(s)': h.tag = w.tag => h.n < w.n
    BY <2>2, <2>3 DEF OrderedAt, Here
  <2>5. ASSUME NEW i \in 1..Len(queue'[s]), NEW j \in 1..Len(queue'[s]),
               i < j, queue'[s][i].tag = queue'[s][j].tag
        PROVE  queue'[s][i].n < queue'[s][j].n
    <3>1. i \in 1..Len(queue[s]) /\ queue'[s][i] = queue[s][i]
      BY <2>1, <2>5
    <3>2. queue[s][i] \in Here(s)
      BY <3>1 DEF Here, Waiting
    <3>3. CASE j \in 1..Len(queue[s])
      BY <2>1, <2>5, <3>1, <3>3 DEF OrderedAt
    <3>4. CASE j = Len(queue[s]) + 1
      BY <2>1, <2>5, <3>1, <3>2, <3>4
    <3> QED BY <2>1, <3>3, <3>4
  <2> QED BY <1>1, <2>2, <2>3, <2>4, <2>5 DEF OrderedAt, Here
<1> QED BY <1>2, <1>3, PutType

\* Taking moves the oldest location from the queue to the hand.
LEMMA TakeHere ==
    ASSUME TypeOK, NEW s \in Stage, TakeNext(s), OrderedAt(s)
    PROVE  /\ OrderedAt(s)'
           /\ Here(s)' \subseteq Here(s)
           /\ \A r \in Stage \ {s}: Here(r)' = Here(r) /\ (OrderedAt(r) => OrderedAt(r)')
<1>1. \A r \in Stage \ {s}: queue'[r] = queue[r] /\ hand'[r] = hand[r]
  BY DEF TakeNext, TypeOK
<1>2. \A r \in Stage \ {s}: Here(r)' = Here(r) /\ (OrderedAt(r) => OrderedAt(r)')
  BY <1>1, OthersHere
<1>3. CASE queue[s] = <<>>
  BY <1>2, <1>3 DEF TakeNext, Here, Held, Waiting, OrderedAt
<1>4. CASE queue[s] # <<>>
  <2>1. queue'[s] = Tail(queue[s]) /\ hand'[s] = Head(queue[s])
    BY <1>4 DEF TakeNext, TypeOK
  <2>2. /\ Len(queue[s]) \in Nat \ {0}
        /\ Len(queue'[s]) = Len(queue[s]) - 1
        /\ hand'[s] = queue[s][1]
        /\ hand'[s] \in Loc
        /\ \A i \in 1..Len(queue'[s]): queue'[s][i] = queue[s][i + 1]
    BY <1>4, <2>1, TailFacts DEF TypeOK
  <2>3. Held(s)' = {queue[s][1]}
    BY <2>2, FlowAssumption DEF Held
  <2>4. ASSUME NEW w \in Waiting(s)'
        PROVE  \E i \in 2..Len(queue[s]): w = queue[s][i]
    <3>1. PICK k \in 1..Len(queue'[s]): w = queue'[s][k]
      BY DEF Waiting
    <3>2. k + 1 \in 2..Len(queue[s]) /\ w = queue[s][k + 1]
      BY <2>2, <3>1
    <3> QED BY <3>2
  <2>5. Here(s)' \subseteq Here(s)
    BY <2>2, <2>3, <2>4 DEF Here, Waiting
  <2>6. \A h \in Held(s)', w \in Waiting(s)': h.tag = w.tag => h.n < w.n
    BY <2>2, <2>3, <2>4 DEF OrderedAt
  <2>7. \A i, j \in 1..Len(queue'[s]):
            i < j /\ queue'[s][i].tag = queue'[s][j].tag
                => queue'[s][i].n < queue'[s][j].n
    <3> SUFFICES ASSUME NEW i \in 1..Len(queue'[s]), NEW j \in 1..Len(queue'[s]),
                        i < j, queue'[s][i].tag = queue'[s][j].tag
                 PROVE  queue'[s][i].n < queue'[s][j].n
      OBVIOUS
    <3>1. i + 1 \in 1..Len(queue[s]) /\ j + 1 \in 1..Len(queue[s]) /\ i + 1 < j + 1
      BY <2>2
    <3> QED BY <2>2, <3>1 DEF OrderedAt
  <2> QED BY <1>2, <2>5, <2>6, <2>7 DEF OrderedAt
<1> QED BY <1>3, <1>4

\* A handler that is done with its location holds none.
LEMMA PassedHere ==
    ASSUME TypeOK, NEW s \in Stage, Passed(s), UNCHANGED queue
    PROVE  /\ Here(s)' = Waiting(s)
           /\ Here(s)' \subseteq Here(s)
           /\ OrderedAt(s) => OrderedAt(s)'
           /\ \A r \in Stage \ {s}: Here(r)' = Here(r) /\ (OrderedAt(r) => OrderedAt(r)')
<1>1. hand'[s] = NoLoc /\ \A r \in Stage \ {s}: hand'[r] = hand[r]
  BY DEF Passed, TypeOK
<1>2. Held(s)' = {} /\ Waiting(s)' = Waiting(s)
  BY <1>1 DEF Held, Waiting
<1>3. \A r \in Stage \ {s}: Here(r)' = Here(r) /\ (OrderedAt(r) => OrderedAt(r)')
  BY <1>1 DEF Here, Held, Waiting, OrderedAt
<1> QED BY <1>2, <1>3 DEF Here, OrderedAt

-----------------------------------------------------------------------------
LEMMA InitPath == Init => PathOrdered
<1> SUFFICES ASSUME Init PROVE PathOrdered
  OBVIOUS
<1>1. \A s \in Stage: queue[s] = <<>> /\ hand[s] = NoLoc
  BY DEF Init
<1>2. /\ \A s \in Stage: Here(s) = {} /\ OrderedAt(s)
      /\ Published = {}
  BY <1>1 DEF Init, Here, Held, Waiting, Published, OrderedAt
<1>3. Gw \in Stage /\ Tags \subseteq Stage
  BY DEF Stage
<1> QED
  BY <1>2, <1>3
  DEF Init, PathOrdered, OwnLocations, PublishedFirst, WereMeasured, AirOrdered, AirIsNewer

\* The steps that add nothing anywhere: what is at a stage, in the air and
\* published only shrinks, the counters stay.
LEMMA ShrinkPath ==
    ASSUME TypeOK, PathOrdered,
           \A s \in Stage: Here(s)' \subseteq Here(s) /\ OrderedAt(s)',
           UNCHANGED <<measured, published, replay, sent>>,
           \A t \in Tags: air'[t] \subseteq air[t]
    PROVE  PathOrdered'
<1> USE DEF PathOrdered
<1>1. Published' = Published /\ Gw \in Stage /\ Tags \subseteq Stage
  BY DEF Published, Stage
<1>2. \A t \in Tags, n \in Nat: LeftTag(t, n) => LeftTag(t, n)'
  BY <1>1 DEF LeftTag
<1>3. OwnLocations' /\ WereMeasured' /\ PublishedFirst'
  BY <1>1 DEF OwnLocations, WereMeasured, PublishedFirst
<1>4. \A t \in Tags: \A m \in air[t]: m.n \in Nat
  BY DEF TypeOK, Msg
<1>5. AirOrdered'
  BY <1>2, <1>4 DEF AirOrdered
<1>6. \A loc \in Here(Gw) \cup Published: loc.tag \in Tags /\ loc.n \in Nat
  BY <1>1, HereType DEF Loc
<1>7. AirIsNewer'
  BY <1>1, <1>2, <1>6 DEF AirIsNewer
<1> QED BY <1>3, <1>5, <1>7

\* A measurement is newer than every location of its tag.
LEMMA SendLocationPath ==
    ASSUME TypeOK, PathOrdered, NEW t \in Tags, SendLocation(t)
    PROVE  PathOrdered'
<1> DEFINE new == [tag |-> t, n |-> measured[t] + 1]
<1> USE DEF PathOrdered
<1>1. /\ Gw \in Stage /\ Tags \subseteq Stage
      /\ Gw # t
      /\ new \in Loc
      /\ measured[t] \in Nat
  BY FlowAssumption DEF Stage, Loc, TypeOK
<1>2. /\ Put(t, new)
      /\ measured' = [measured EXCEPT ![t] = @ + 1]
      /\ UNCHANGED <<hand, air, sent, replay, published>>
  BY DEF SendLocation, work, meshVars, mqttVars
<1>3. \A loc \in Here(t): loc.n < new.n
  <2>1. ASSUME NEW loc \in Here(t) PROVE loc.n \in Nat /\ loc.n <= measured[t]
    BY <1>1, HereType DEF WereMeasured, Loc
  <2> QED BY <1>1, <2>1
<1>4. /\ OrderedAt(t)'
      /\ Here(t)' \subseteq Here(t) \cup {new}
      /\ \A s \in Stage \ {t}: Here(s)' = Here(s) /\ OrderedAt(s)'
  BY <1>1, <1>2, <1>3, PutHere
<1>5. /\ measured'[t] = measured[t] + 1
      /\ \A u \in Tags \ {t}: measured'[u] = measured[u]
      /\ Published' = Published
  BY <1>2 DEF TypeOK, Published
<1>6. OwnLocations' /\ PublishedFirst'
  BY <1>1, <1>4, <1>5 DEF OwnLocations, PublishedFirst
<1>7. WereMeasured'
  <2> SUFFICES ASSUME NEW u \in Tags, NEW loc \in Here(u)' PROVE loc.n <= measured'[u]
    BY DEF WereMeasured
  <2>1. CASE u = t
    <3>1. \A old \in Here(t): old.n \in Nat /\ old.n <= measured[t]
      BY <1>1, HereType DEF WereMeasured, Loc
    <3> QED BY <1>1, <1>4, <1>5, <2>1, <3>1
  <2>2. CASE u # t
    BY <1>1, <1>4, <1>5, <2>2 DEF WereMeasured
  <2> QED BY <2>1, <2>2
<1>8. ASSUME NEW u \in Tags, NEW n \in Nat, LeftTag(u, n) PROVE LeftTag(u, n)'
  <2>1. CASE u = t
    BY <1>1, <1>4, <1>5, <1>8, <2>1 DEF LeftTag
  <2>2. CASE u # t
    BY <1>1, <1>4, <1>5, <1>8, <2>2 DEF LeftTag
  <2> QED BY <2>1, <2>2
<1>9. AirOrdered'
  <2>1. \A u \in Tags: \A m \in air[u]: m.n \in Nat
    BY DEF TypeOK, Msg
  <2> QED BY <1>2, <1>8, <2>1 DEF AirOrdered
<1>10. AirIsNewer'
  <2>1. \A loc \in Here(Gw) \cup Published: loc.tag \in Tags /\ loc.n \in Nat
    BY <1>1, HereType DEF Loc
  <2>2. Here(Gw)' = Here(Gw)
    BY <1>1, <1>4
  <2> QED BY <1>2, <1>5, <1>8, <2>1, <2>2 DEF AirIsNewer
<1> QED BY <1>4, <1>6, <1>7, <1>9, <1>10

\* The message carries the tag's oldest location under the newest sequence number.
LEMMA LocPushPath ==
    ASSUME TypeOK, PathOrdered, NEW t \in Tags, LocPush(t)
    PROVE  PathOrdered'
<1> DEFINE new == [n |-> hand[t].n, seq |-> sent[t] + 1]
<1> USE DEF PathOrdered
<1>1. /\ Gw \in Stage /\ Tags \subseteq Stage
      /\ Gw # t
      /\ hand[t] \in Loc /\ hand[t].n \in Nat
      /\ hand[t] \in Held(t)
      /\ sent[t] \in Nat
  BY FlowAssumption DEF Stage, Loc, TypeOK, LocPush, Held
<1>2. /\ Passed(t)
      /\ sent'[t] = sent[t] + 1
      /\ \A u \in Tags \ {t}: sent'[u] = sent[u]
      /\ air'[t] = air[t] \cup {new}
      /\ \A u \in Tags \ {t}: air'[u] = air[u]
      /\ UNCHANGED <<queue, measured, replay, published>>
  BY DEF LocPush, TypeOK, mqttVars
<1>3. /\ Here(t)' = Waiting(t)
      /\ \A s \in Stage: OrderedAt(s)' /\ Here(s)' \subseteq Here(s)
      /\ Here(Gw)' = Here(Gw)
  BY <1>1, <1>2, PassedHere
<1>4. Published' = Published
  BY <1>2 DEF Published
<1>5. hand[t].tag = t /\ hand[t] \in Here(t)
  BY <1>1 DEF OwnLocations, Here
<1>k. PICK k \in Nat: k = hand[t].n
  BY <1>1
<1>6. LeftTag(t, k)'
  <2>1. \A w \in Waiting(t): k < w.n
    BY <1>1, <1>5, <1>k DEF OrderedAt, OwnLocations, Here
  <2>2. k <= measured[t]
    BY <1>5, <1>k DEF WereMeasured
  <2> QED BY <1>2, <1>3, <2>1, <2>2 DEF LeftTag
<1>7. \A u \in Tags, n \in Nat: LeftTag(u, n) => LeftTag(u, n)'
  BY <1>1, <1>2, <1>3 DEF LeftTag
<1>8. OwnLocations' /\ WereMeasured' /\ PublishedFirst'
  BY <1>1, <1>2, <1>3, <1>4 DEF OwnLocations, WereMeasured, PublishedFirst
<1>9. \A u \in Tags: \A m \in air[u]:
          m.n \in Nat /\ m.seq \in Nat /\ sent[u] \in Nat /\ m.seq <= sent[u] /\ LeftTag(u, m.n)
  BY DEF TypeOK, Msg, AirOrdered
<1>10. AirOrdered'
  <2> SUFFICES ASSUME NEW u \in Tags, NEW m \in air'[u]
               PROVE  /\ m.seq <= sent'[u]
                      /\ LeftTag(u, m.n)'
                      /\ \A o \in air'[u]: m.seq < o.seq => m.n < o.n
    BY DEF AirOrdered
  <2>1. CASE u # t
    BY <1>2, <1>7, <1>9, <2>1 DEF AirOrdered
  <2>2. CASE u = t /\ m = new
    <3>1. \A o \in air'[u]: ~(m.seq < o.seq)
      BY <1>1, <1>2, <1>9, <2>2
    <3>2. m.n = k /\ m.seq <= sent'[u]
      BY <1>1, <1>2, <1>k, <2>2
    <3> QED BY <1>6, <2>2, <3>1, <3>2
  <2>3. CASE u = t /\ m \in air[t]
    <3>1. m.n < hand[t].n
      BY <1>5, <1>9, <2>3 DEF LeftTag
    <3>2. LeftTag(u, m.n)' /\ m.seq <= sent'[u]
      BY <1>1, <1>2, <1>7, <1>9, <2>3
    <3>3. \A o \in air[t]: m.seq < o.seq => m.n < o.n
      BY <2>3 DEF AirOrdered
    <3> QED BY <1>2, <2>3, <3>1, <3>2, <3>3
  <2> QED BY <1>2, <2>1, <2>2, <2>3
<1>11. AirIsNewer'
  <2> SUFFICES ASSUME NEW loc \in Here(Gw) \cup Published
               PROVE  /\ LeftTag(loc.tag, loc.n)'
                      /\ \A m \in air'[loc.tag]: m.seq > replay[loc.tag] => loc.n < m.n
    BY <1>2, <1>3, <1>4 DEF AirIsNewer
  <2>1. loc.tag \in Tags /\ loc.n \in Nat
    BY <1>1, HereType DEF Loc
  <2>2. LeftTag(loc.tag, loc.n)
    BY DEF AirIsNewer
  <2>3. \A m \in air[loc.tag]: m.seq > replay[loc.tag] => loc.n < m.n
    BY DEF AirIsNewer
  <2>4. loc.tag = t => loc.n < hand[t].n
    BY <1>5, <2>2 DEF LeftTag
  <2> QED BY <1>2, <1>7, <2>1, <2>2, <2>3, <2>4
<1> QED BY <1>3, <1>8, <1>10, <1>11

\* An accepted message is newer than what the gateway has of its tag, and older
\* than every message that can still be accepted.
LEMMA LocPushHandlerPath ==
    ASSUME TypeOK, PathOrdered, NEW t \in Tags, NEW m \in air[t], LocPushHandler(t, m)
    PROVE  PathOrdered'
<1> DEFINE new == [tag |-> t, n |-> m.n]
<1> USE DEF PathOrdered
<1>1. /\ Gw \in Stage /\ Tags \subseteq Stage
      /\ Gw \notin Tags
      /\ new \in Loc
      /\ m.n \in Nat
  BY FlowAssumption DEF Stage, Loc, Msg, TypeOK
<1>2. /\ Put(Gw, new)
      /\ m.seq > replay[t]
      /\ replay'[t] = m.seq
      /\ \A u \in Tags \ {t}: replay'[u] = replay[u]
      /\ UNCHANGED <<hand, air, sent, measured, published>>
  BY DEF LocPushHandler, work, mqttVars, TypeOK
<1>3. \A loc \in Here(Gw) \cup Published: loc.tag = t => loc.n < m.n
  BY <1>2 DEF AirIsNewer
<1>4. /\ OrderedAt(Gw)'
      /\ Here(Gw)' \subseteq Here(Gw) \cup {new}
      /\ \A s \in Stage \ {Gw}: Here(s)' = Here(s) /\ OrderedAt(s)'
  BY <1>1, <1>2, <1>3, PutHere
<1>5. Published' = Published
  BY <1>2 DEF Published
<1>6. OwnLocations' /\ WereMeasured'
  BY <1>1, <1>2, <1>4 DEF OwnLocations, WereMeasured
<1>7. PublishedFirst'
  BY <1>3, <1>4, <1>5 DEF PublishedFirst
<1>8. \A u \in Tags, n \in Nat: LeftTag(u, n) => LeftTag(u, n)'
  BY <1>1, <1>2, <1>4 DEF LeftTag
<1>9. \A u \in Tags: \A o \in air[u]: o.n \in Nat /\ o.seq \in Nat /\ replay[u] \in Nat
  BY DEF TypeOK, Msg
<1>10. AirOrdered'
  BY <1>2, <1>8, <1>9 DEF AirOrdered
<1>11. AirIsNewer'
  <2> SUFFICES ASSUME NEW loc \in Here(Gw)' \cup Published
               PROVE  /\ LeftTag(loc.tag, loc.n)'
                      /\ \A o \in air[loc.tag]: o.seq > replay'[loc.tag] => loc.n < o.n
    BY <1>2, <1>5 DEF AirIsNewer
  <2>1. CASE loc \in Here(Gw) \cup Published
    <3>1. loc.tag \in Tags /\ loc.n \in Nat
      BY <1>1, <2>1, HereType DEF Loc
    <3>2. /\ LeftTag(loc.tag, loc.n)
          /\ \A o \in air[loc.tag]: o.seq > replay[loc.tag] => loc.n < o.n
      BY <2>1 DEF AirIsNewer
    <3>3. \A o \in air[loc.tag]: o.seq > replay'[loc.tag] => o.seq > replay[loc.tag]
      BY <1>2, <1>9, <3>1
    <3> QED BY <1>8, <3>1, <3>2, <3>3
  <2>2. CASE loc = new
    <3>1. LeftTag(t, m.n) /\ \A o \in air[t]: m.seq < o.seq => m.n < o.n
      BY DEF AirOrdered
    <3> QED BY <1>1, <1>2, <1>8, <1>9, <2>2, <3>1
  <2> QED BY <1>4, <2>1, <2>2
<1> QED BY <1>4, <1>6, <1>7, <1>10, <1>11

\* The gateway hands over its oldest location.
LEMMA PublishPath ==
    ASSUME TypeOK, PathOrdered, Publish
    PROVE  /\ PathOrdered'
           /\ hand[Gw] \in Loc
           /\ \A i \in 1..Len(published):
                  published[i].tag = hand[Gw].tag => published[i].n < hand[Gw].n
           /\ hand[Gw].n <= measured[hand[Gw].tag]
<1> USE DEF PathOrdered
<1>1. /\ Gw \in Stage /\ Tags \subseteq Stage
      /\ Gw \notin Tags
      /\ hand[Gw] \in Loc
      /\ hand[Gw] \in Held(Gw)
  BY FlowAssumption DEF Stage, TypeOK, Publish, Held
<1>2. /\ Passed(Gw)
      /\ published' = Append(published, hand[Gw])
      /\ UNCHANGED <<queue, air, sent, replay, measured>>
  BY DEF Publish, meshVars
<1>3. /\ Here(Gw)' = Waiting(Gw)
      /\ \A s \in Stage \ {Gw}: Here(s)' = Here(s)
      /\ \A s \in Stage: OrderedAt(s)'
  BY <1>1, <1>2, PassedHere
<1>4. Published' = Published \cup {hand[Gw]}
  <2>1. /\ Len(published) \in Nat
        /\ Len(published') = Len(published) + 1
        /\ \A i \in 1..Len(published): published'[i] = published[i]
        /\ published'[Len(published) + 1] = hand[Gw]
    BY <1>1, <1>2, AppendFacts, ElementFacts DEF TypeOK
  <2> QED BY <2>1 DEF Published
<1>5. \A p \in Published: p.tag = hand[Gw].tag => p.n < hand[Gw].n
  BY <1>1 DEF PublishedFirst, Here
<1>6. \A u \in Tags, n \in Nat: LeftTag(u, n) => LeftTag(u, n)'
  BY <1>1, <1>2, <1>3 DEF LeftTag
<1>7. OwnLocations' /\ WereMeasured'
  BY <1>1, <1>2, <1>3 DEF OwnLocations, WereMeasured
<1>8. PublishedFirst'
  <2>1. \A w \in Waiting(Gw): w.tag = hand[Gw].tag => hand[Gw].n < w.n
    BY <1>1 DEF OrderedAt
  <2>2. \A w \in Waiting(Gw), p \in Published: p.tag = w.tag => p.n < w.n
    BY DEF PublishedFirst, Here
  <2> QED BY <1>3, <1>4, <2>1, <2>2 DEF PublishedFirst
<1>9. AirOrdered'
  <2>1. \A u \in Tags: \A o \in air[u]: o.n \in Nat
    BY DEF TypeOK, Msg
  <2> QED BY <1>2, <1>6, <2>1 DEF AirOrdered
<1>10. Here(Gw)' \cup Published' \subseteq Here(Gw) \cup Published
  BY <1>1, <1>3, <1>4 DEF Here
<1>11. AirIsNewer'
  <2>1. \A loc \in Here(Gw) \cup Published: loc.tag \in Tags /\ loc.n \in Nat
    BY <1>1, HereType DEF Loc
  <2> QED BY <1>2, <1>6, <1>10, <2>1 DEF AirIsNewer
<1>12. hand[Gw].n <= measured[hand[Gw].tag]
  BY <1>1 DEF AirIsNewer, LeftTag, Here
<1> QED BY <1>1, <1>3, <1>5, <1>7, <1>8, <1>9, <1>11, <1>12 DEF Published

\* Every step keeps the locations of a tag in order along the whole path.
LEMMA NextPath == TypeOK /\ PathOrdered /\ [Next]_vars => PathOrdered'
<1> SUFFICES ASSUME TypeOK, PathOrdered, [Next]_vars PROVE PathOrdered'
  OBVIOUS
<1>0. \A s \in Stage: OrderedAt(s)
  BY DEF PathOrdered
<1>1. ASSUME NEW t \in Tags, SendLocation(t) PROVE PathOrdered'
  BY <1>1, SendLocationPath
<1>2. ASSUME NEW t \in Tags, NEW m \in air[t], LocPushHandler(t, m) PROVE PathOrdered'
  BY <1>2, LocPushHandlerPath
<1>3. ASSUME UNCHANGED <<queue, hand>>,
             UNCHANGED <<measured, published, replay, sent>>,
             \A t \in Tags: air'[t] \subseteq air[t]
      PROVE  PathOrdered'
  <2>1. \A s \in Stage: Here(s)' \subseteq Here(s) /\ OrderedAt(s)'
    BY <1>0, <1>3 DEF Here, Held, Waiting, OrderedAt
  <2> QED BY <1>3, <2>1, ShrinkPath
<1>4. ASSUME NEW s \in Stage, Submit(s) \/ RunWork(s) \/ Return(s) PROVE PathOrdered'
  BY <1>3, <1>4 DEF Submit, RunWork, Return, meshVars, mqttVars
<1>5. ASSUME NEW s \in Stage, TakeNext(s) PROVE PathOrdered'
  <2>1. \A r \in Stage: Here(r)' \subseteq Here(r) /\ OrderedAt(r)'
    BY <1>0, <1>5, TakeHere
  <2> QED BY <1>5, <2>1, ShrinkPath DEF TakeNext, meshVars, mqttVars
<1>6. ASSUME NEW t \in Tags, LocPush(t) PROVE PathOrdered'
  BY <1>6, LocPushPath
<1>7. ASSUME NEW s \in Stage, Passed(s), UNCHANGED <<queue, meshVars, measured, published>>
      PROVE  PathOrdered'
  <2>1. \A r \in Stage: Here(r)' \subseteq Here(r) /\ OrderedAt(r)'
    BY <1>0, <1>7, PassedHere
  <2> QED BY <1>7, <2>1, ShrinkPath DEF meshVars
<1>8. ASSUME NEW t \in Tags, LocPushFails(t) PROVE PathOrdered'
  BY <1>7, <1>8 DEF LocPushFails, Stage, mqttVars
<1>9. CASE Publish
  BY <1>9, PublishPath
<1>10. CASE PublishFails
  BY <1>7, <1>10 DEF PublishFails, Stage, mqttVars
<1>11. ASSUME NEW t \in Tags, NEW m \in air[t], Lose(t, m) PROVE PathOrdered'
  <2>1. \A u \in Tags: air'[u] \subseteq air[u]
    BY <1>11 DEF Lose, TypeOK
  <2> QED BY <1>3, <1>11, <2>1 DEF Lose, work, mqttVars
<1>12. CASE ClientRuns \/ UNCHANGED vars
  BY <1>3, <1>12 DEF ClientRuns, vars, work, meshVars, mqttVars
<1> QED
  BY <1>1, <1>2, <1>4, <1>5, <1>6, <1>8, <1>9, <1>10, <1>11, <1>12
  DEF Next, Producers, Handlers, Mesh

\* Along the whole path the locations of a tag grow towards the tag.
THEOREM PathOrder == Spec => []PathOrdered
BY TypeCorrect, InitPath, NextPath, PTL DEF Spec

-----------------------------------------------------------------------------
\* The chain of the two programs and the mesh is a lossy delivery in order and
\* without duplicates.
THEOREM DeliveryInOrder == Spec => ImplementsDelivery
<1> USE DEF Delivery!Measure, Delivery!Deliver, Delivery!Next, Delivery!vars
<1>1. Init => Delivery!Init
  BY DEF Init, Delivery!Init
<1>2. TypeOK /\ PathOrdered /\ [Next]_vars => [Delivery!Next]_Delivery!vars
  <2> SUFFICES ASSUME TypeOK, PathOrdered, [Next]_vars
               PROVE  Delivery!Next \/ UNCHANGED <<measured, published>>
    OBVIOUS
  <2>1. ASSUME NEW t \in Tags, SendLocation(t) PROVE Delivery!Next
    BY <2>1 DEF SendLocation, mqttVars
  <2>2. CASE Publish
    <3> DEFINE t == hand[Gw].tag
               n == hand[Gw].n
    <3>1. /\ hand[Gw] \in Loc
          /\ \A i \in 1..Len(published): published[i].tag = t => published[i].n < n
          /\ n <= measured[t]
      BY <2>2, PublishPath
    <3>2. /\ hand[Gw] = [tag |-> t, n |-> n]
          /\ t \in Tags /\ n \in Nat \ {0} /\ measured[t] \in Nat
      BY <3>1 DEF Loc, TypeOK
    <3>3. n \in 1..measured[t]
      BY <3>1, <3>2
    <3>4. Delivery!Deliver(t, n)
      BY <2>2, <3>1, <3>2, <3>3 DEF Publish
    <3> QED BY <3>2, <3>3, <3>4
  <2>3. ASSUME NEW s \in Stage, Submit(s) \/ RunWork(s) \/ TakeNext(s) \/ Return(s)
        PROVE UNCHANGED <<measured, published>>
    BY <2>3 DEF Submit, RunWork, TakeNext, Return, mqttVars
  <2>4. ASSUME NEW t \in Tags, LocPush(t) \/ LocPushFails(t)
        PROVE UNCHANGED <<measured, published>>
    BY <2>4 DEF LocPush, LocPushFails, mqttVars
  <2>5. ASSUME NEW t \in Tags, NEW m \in air[t], LocPushHandler(t, m) \/ Lose(t, m)
        PROVE UNCHANGED <<measured, published>>
    BY <2>5 DEF LocPushHandler, Lose, mqttVars
  <2>6. CASE PublishFails \/ ClientRuns \/ UNCHANGED vars
    BY <2>6 DEF PublishFails, ClientRuns, mqttVars, vars
  <2> QED
    BY <2>1, <2>2, <2>3, <2>4, <2>5, <2>6
    DEF Next, Producers, Handlers, Mesh
<1> QED BY TypeCorrect, PathOrder, <1>1, <1>2, PTL DEF Spec, ImplementsDelivery, Delivery!Spec

\* The sequence of publications itself is in order.
THEOREM PublicationsInOrder == Spec => []PublishedInOrder
<1>1. Init => PublishedInOrder
  BY DEF Init, PublishedInOrder
<1>2. TypeOK /\ PathOrdered /\ PublishedInOrder /\ [Next]_vars => PublishedInOrder'
  <2> SUFFICES ASSUME TypeOK, PathOrdered, PublishedInOrder, [Next]_vars
               PROVE  PublishedInOrder'
    OBVIOUS
  <2>1. CASE Publish
    <3>1. /\ hand[Gw] \in Loc
          /\ \A i \in 1..Len(published):
                 published[i].tag = hand[Gw].tag => published[i].n < hand[Gw].n
      BY <2>1, PublishPath
    <3>2. /\ Len(published) \in Nat
          /\ Len(published') = Len(published) + 1
          /\ \A i \in 1..Len(published): published'[i] = published[i]
          /\ published'[Len(published) + 1] = hand[Gw]
      BY <2>1, <3>1, AppendFacts, ElementFacts DEF TypeOK, Publish
    <3> SUFFICES ASSUME NEW i \in 1..Len(published'), NEW j \in 1..Len(published'),
                        i < j, published'[i].tag = published'[j].tag
                 PROVE  published'[i].n < published'[j].n
      BY DEF PublishedInOrder
    <3>3. i \in 1..Len(published)
      BY <3>2
    <3>4. CASE j \in 1..Len(published)
      BY <3>2, <3>3, <3>4 DEF PublishedInOrder
    <3>5. CASE j = Len(published) + 1
      BY <3>1, <3>2, <3>3, <3>5
    <3> QED BY <3>2, <3>4, <3>5
  <2>2. CASE UNCHANGED published
    BY <2>2 DEF PublishedInOrder
  <2>3. Publish \/ UNCHANGED published
    BY DEF Next, Producers, Handlers, Mesh, SendLocation, LocPushHandler, Submit, RunWork,
           TakeNext, Return, LocPush, LocPushFails, PublishFails, Lose, ClientRuns, mqttVars, vars
  <2> QED BY <2>1, <2>2, <2>3
<1> QED BY TypeCorrect, PathOrder, <1>1, <1>2, PTL DEF Spec

-----------------------------------------------------------------------------
\* What QueueDrains needs besides the fairness of the threads.

\* The work item of s will not run again before it is submitted.
Sleeping(s) == ~queued[s] /\ handler[s] \in {"idle", "return"}

\* The steps until stage s asks its queue for a location.
AskLeft(s) == CASE handler[s] = "get"    -> 0
                [] handler[s] = "send"   -> 1
                [] handler[s] = "idle"   -> IF queued[s] THEN 1 ELSE 2
                [] handler[s] = "return" -> IF queued[s] THEN 2 ELSE 3

\* The steps until stage s has taken the i-th location of its queue.
DrainLeft(s, i) == 2 * i - 1 + AskLeft(s)

\* The steps that stage s owes its queue.
Serves(s) == \/ RunWork(s) \/ TakeNext(s) \/ Return(s)
             \/ s \in Tags /\ (LocPush(s) \/ LocPushFails(s))
             \/ s = Gw /\ (Publish \/ PublishFails)
             \/ Sleeping(s) /\ Submit(s)

\* A location stays in its queue until it is taken as the first of it.  Each step
\* that its stage owes brings that closer, and nothing puts it off, whatever the
\* producer puts behind the location meanwhile.
DrainAdvances ==
    \A s \in Stage: \A i \in 1..Len(queue[s]):
        \/ i = 1 /\ TakeNext(s) /\ hand'[s] = queue[s][1]
        \/ \E j \in 1..Len(queue'[s]):
               /\ queue'[s][j] = queue[s][i]
               /\ DrainLeft(s, j)' <= DrainLeft(s, i)
               /\ Serves(s) => DrainLeft(s, j)' < DrainLeft(s, i)

DrainBound ==
    \A s \in Stage: \A i \in 1..Len(queue[s]): DrainLeft(s, i) \in 1..(2 * QueueLen + 2)

\* A step brings a stage nearer to asking its queue, or leaves it where it is and
\* at most adds to the queue's end, unless it takes a location.
Nears(s) == /\ queue'[s] = queue[s]
            /\ \/ handler[s] \in {"idle", "send"} /\ handler'[s] = "get"
               \/ handler[s] = "return" /\ handler'[s] = "idle" /\ queued'[s] = queued[s]
               \/ Sleeping(s) /\ queued'[s] /\ handler'[s] = handler[s]
Awaits(s) == /\ handler'[s] = handler[s]
             /\ queued[s] => queued'[s]
             /\ queue'[s] = queue[s] \/ \E loc \in Loc: queue'[s] = Append(queue[s], loc)

LEMMA AskLeftIs ==
    ASSUME TypeOK, NEW s \in Stage
    PROVE  AskLeft(s) \in 0..3
<1>1. handler[s] \in {"idle", "get", "send", "return"}
  BY DEF TypeOK
<1> QED BY <1>1 DEF AskLeft

LEMMA ServesNears ==
    ASSUME TypeOK, NEW s \in Stage, Serves(s)
    PROVE  Nears(s) \/ TakeNext(s)
<1> USE DEF TypeOK, work, meshVars, mqttVars, Stage
<1>1. CASE RunWork(s)
  BY <1>1 DEF RunWork, Nears
<1>2. CASE Return(s)
  BY <1>2 DEF Return, Nears
<1>3. CASE LocPush(s) \/ LocPushFails(s)
  BY <1>3 DEF LocPush, LocPushFails, Passed, Nears
<1>4. CASE s = Gw /\ (Publish \/ PublishFails)
  BY <1>4 DEF Publish, PublishFails, Passed, Nears
<1>5. CASE Sleeping(s) /\ Submit(s)
  BY <1>5 DEF Submit, Nears
<1> QED BY <1>1, <1>2, <1>3, <1>4, <1>5 DEF Serves

LEMMA StageSteps ==
    ASSUME TypeOK, NEW s \in Stage, [Next]_vars
    PROVE  Nears(s) \/ TakeNext(s) \/ Awaits(s)
<1> USE FlowAssumption
<1>1. ASSUME NEW t \in Tags, SendLocation(t) PROVE Awaits(s)
  <2>1. [tag |-> t, n |-> measured[t] + 1] \in Loc /\ t \in Stage
    BY DEF Loc, Stage, TypeOK
  <2>2. UNCHANGED <<handler, queued>>
    BY <1>1 DEF SendLocation, work
  <2>3. queue'[s] = queue[s] \/ \E loc \in Loc: queue'[s] = Append(queue[s], loc)
    BY <1>1, <2>1, PutType DEF SendLocation
  <2> QED BY <2>2, <2>3 DEF Awaits
<1>2. ASSUME NEW t \in Tags, NEW m \in air[t], LocPushHandler(t, m) PROVE Awaits(s)
  <2>1. [tag |-> t, n |-> m.n] \in Loc /\ Gw \in Stage
    BY DEF Loc, Stage, Msg, TypeOK
  <2>2. UNCHANGED <<handler, queued>>
    BY <1>2 DEF LocPushHandler, work
  <2>3. queue'[s] = queue[s] \/ \E loc \in Loc: queue'[s] = Append(queue[s], loc)
    BY <1>2, <2>1, PutType DEF LocPushHandler
  <2> QED BY <2>2, <2>3 DEF Awaits
<1>3. ASSUME NEW r \in Stage, Submit(r) PROVE Awaits(s)
  BY <1>3 DEF Submit, Awaits, TypeOK
<1>4. ASSUME NEW r \in Stage, RunWork(r) \/ TakeNext(r) \/ Return(r)
      PROVE  Nears(s) \/ TakeNext(s) \/ Awaits(s)
  <2>1. CASE r = s
    BY <1>4, <2>1, ServesNears DEF Serves
  <2>2. CASE r # s
    BY <1>4, <2>2 DEF RunWork, TakeNext, Return, Awaits, TypeOK
  <2> QED BY <2>1, <2>2
<1>5. ASSUME NEW t \in Tags, LocPush(t) \/ LocPushFails(t) PROVE Nears(s) \/ Awaits(s)
  <2>1. CASE t = s
    BY <1>5, <2>1 DEF LocPush, LocPushFails, Passed, Nears, TypeOK
  <2>2. CASE t # s
    BY <1>5, <2>2 DEF LocPush, LocPushFails, Passed, Awaits, TypeOK
  <2> QED BY <2>1, <2>2
<1>6. CASE Publish \/ PublishFails
  <2>1. CASE s = Gw
    BY <1>6, <2>1 DEF Publish, PublishFails, Passed, Nears, TypeOK
  <2>2. CASE s # Gw
    BY <1>6, <2>2 DEF Publish, PublishFails, Passed, Awaits, TypeOK
  <2> QED BY <2>1, <2>2
<1>7. ASSUME NEW t \in Tags, NEW m \in air[t], Lose(t, m) PROVE Awaits(s)
  BY <1>7 DEF Lose, work, Awaits
<1>8. CASE ClientRuns \/ UNCHANGED vars
  BY <1>8 DEF ClientRuns, vars, work, Awaits
<1> QED BY <1>1, <1>2, <1>3, <1>4, <1>5, <1>6, <1>7, <1>8 DEF Next, Producers, Handlers, Mesh

\* A location that a stage keeps waiting keeps its place in the queue.
LEMMA KeptInPlace ==
    ASSUME TypeOK, NEW s \in Stage, NEW i \in 1..Len(queue[s]), Nears(s) \/ Awaits(s)
    PROVE  i \in 1..Len(queue'[s]) /\ queue'[s][i] = queue[s][i]
<1>1. queue[s] \in Seq(Loc) /\ Len(queue[s]) \in Nat
  BY ElementFacts DEF TypeOK
<1>2. CASE queue'[s] = queue[s]
  BY <1>2
<1>3. ASSUME NEW loc \in Loc, queue'[s] = Append(queue[s], loc)
      PROVE  i \in 1..Len(queue'[s]) /\ queue'[s][i] = queue[s][i]
  <2>1. Len(queue'[s]) = Len(queue[s]) + 1 /\ queue'[s][i] = queue[s][i]
    BY <1>1, <1>3, AppendFacts
  <2> QED BY <1>1, <2>1
<1> QED BY <1>2, <1>3 DEF Nears, Awaits

\* When the oldest location is taken the others move up.
LEMMA MovedUp ==
    ASSUME TypeOK, NEW s \in Stage, NEW i \in 1..Len(queue[s]), TakeNext(s)
    PROVE  /\ handler[s] = "get" /\ handler'[s] = "send"
           /\ i = 1 => hand'[s] = queue[s][1]
           /\ i # 1 => i - 1 \in 1..Len(queue'[s]) /\ queue'[s][i - 1] = queue[s][i]
<1>1. queue[s] \in Seq(Loc) /\ Len(queue[s]) \in Nat
  BY ElementFacts DEF TypeOK
<1>2. queue[s] # <<>>
  BY <1>1
<1>3. /\ Len(Tail(queue[s])) = Len(queue[s]) - 1
      /\ Head(queue[s]) = queue[s][1]
      /\ \A k \in 1..Len(Tail(queue[s])): Tail(queue[s])[k] = queue[s][k + 1]
  BY <1>1, <1>2, TailFacts
<1>4. /\ handler[s] = "get" /\ handler'[s] = "send"
      /\ hand'[s] = Head(queue[s]) /\ queue'[s] = Tail(queue[s])
  BY <1>2 DEF TakeNext, TypeOK
<1>5. ASSUME i # 1
      PROVE  i - 1 \in 1..Len(queue'[s]) /\ queue'[s][i - 1] = queue[s][i]
  <2>1. i - 1 \in 1..Len(Tail(queue[s])) /\ (i - 1) + 1 = i
    BY <1>1, <1>3, <1>5
  <2> QED BY <1>3, <1>4, <2>1
<1> QED BY <1>3, <1>4, <1>5

\* A location accepted by a queue is taken with at most 2 * QueueLen + 2 of the
\* steps its stage owes.  That there is one to take as long as it waits is
\* NoLostWakeup: the producer is about to submit the item, or it is queued or runs.
THEOREM QueuesEmpty == Spec => []DrainBound /\ [][DrainAdvances]_vars
<1>1. ASSUME TypeOK PROVE DrainBound
  <2> SUFFICES ASSUME NEW s \in Stage, NEW i \in 1..Len(queue[s])
               PROVE  DrainLeft(s, i) \in 1..(2 * QueueLen + 2)
    BY DEF DrainBound
  <2>1. Len(queue[s]) \in Nat /\ Len(queue[s]) <= QueueLen /\ QueueLen \in Nat
    BY <1>1, ElementFacts, FlowAssumption DEF TypeOK
  <2>2. AskLeft(s) \in 0..3
    BY <1>1, AskLeftIs
  <2> QED BY <2>1, <2>2 DEF DrainLeft
<1>2. ASSUME TypeOK, TypeOK', [Next]_vars PROVE DrainAdvances
  <2> SUFFICES ASSUME NEW s \in Stage, NEW i \in 1..Len(queue[s])
               PROVE  \/ i = 1 /\ TakeNext(s) /\ hand'[s] = queue[s][1]
                      \/ \E j \in 1..Len(queue'[s]):
                             /\ queue'[s][j] = queue[s][i]
                             /\ DrainLeft(s, j)' <= DrainLeft(s, i)
                             /\ Serves(s) => DrainLeft(s, j)' < DrainLeft(s, i)
    BY DEF DrainAdvances
  <2>1. /\ i \in Nat /\ AskLeft(s) \in Nat /\ AskLeft(s)' \in Nat
    <3>1. Len(queue[s]) \in Nat
      BY <1>2, ElementFacts DEF TypeOK
    <3>2. AskLeft(s) \in 0..3
      BY <1>2, AskLeftIs
    <3>3. handler'[s] \in {"idle", "get", "send", "return"}
      BY <1>2 DEF TypeOK
    <3>4. AskLeft(s)' \in 0..3
      BY <3>3 DEF AskLeft
    <3> QED BY <3>1, <3>2, <3>4
  <2>2. CASE TakeNext(s)
    <3>1. /\ i = 1 => hand'[s] = queue[s][1]
          /\ i # 1 => i - 1 \in 1..Len(queue'[s]) /\ queue'[s][i - 1] = queue[s][i]
          /\ AskLeft(s) = 0 /\ AskLeft(s)' = 1
      BY <1>2, <2>2, MovedUp DEF AskLeft
    <3>2. DrainLeft(s, i - 1)' < DrainLeft(s, i)
      BY <2>1, <3>1 DEF DrainLeft
    <3>3. DrainLeft(s, i - 1)' <= DrainLeft(s, i)
      BY <2>1, <3>1 DEF DrainLeft
    <3> QED BY <2>2, <3>1, <3>2, <3>3
  <2>3. CASE Nears(s)
    <3>1. AskLeft(s)' < AskLeft(s)
      BY <2>3 DEF Nears, Sleeping, AskLeft
    <3>2. DrainLeft(s, i)' < DrainLeft(s, i) /\ DrainLeft(s, i)' <= DrainLeft(s, i)
      BY <2>1, <3>1 DEF DrainLeft
    <3> QED BY <1>2, <2>3, <3>2, KeptInPlace
  <2>4. CASE Awaits(s) /\ ~ Nears(s) /\ ~ TakeNext(s)
    <3>1. AskLeft(s)' <= AskLeft(s)
      <4>1. handler[s] \in {"idle", "get", "send", "return"} /\ handler'[s] = handler[s]
        BY <1>2, <2>4 DEF TypeOK, Awaits
      <4> QED BY <2>4, <4>1 DEF Awaits, AskLeft
    <3>2. DrainLeft(s, i)' <= DrainLeft(s, i)
      BY <2>1, <3>1 DEF DrainLeft
    <3>3. ~ Serves(s)
      BY <1>2, <2>4, ServesNears
    <3> QED BY <1>2, <2>4, <3>2, <3>3, KeptInPlace
  <2> QED BY <1>2, <2>2, <2>3, <2>4, StageSteps
<1> QED BY <1>1, <1>2, TypeCorrect, PTL DEF Spec
=============================================================================
