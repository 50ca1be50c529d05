---------------------------- MODULE TagLoopProofs ----------------------------
(***************************************************************************)
(* Proofs of the safety properties of TagLoop: for every table of anchors, *)
(* number of repetitions, period and size of the heap, and without end.    *)
(***************************************************************************)
EXTENDS TagLoop, TLAPS

LEMMA Constants ==
    /\ Slots \in Nat /\ Slots >= 2
    /\ Repetitions \in Nat /\ Repetitions >= 1
    /\ Period \in Nat /\ Period >= 1
    /\ HeapBlocks \in Nat
    /\ None \notin Anchors \cup {Garbage}
BY TagLoopAssumption

\* Periods are counted one by one.
LEMMA OneMore ==
    ASSUME NEW k \in Int
    PROVE  /\ k * Period \in Int
           /\ (k + 1) * Period = k * Period + Period
           /\ (k - 1) * Period = k * Period - Period
BY Constants

-----------------------------------------------------------------------------
LEMMA AdvanceTypes ==
    ASSUME rep \in 1..Repetitions, slot \in Slot, pc = "range", Advance
    PROVE  /\ pc' \in {"range", "solve"}
           /\ rep' \in 1..Repetitions
           /\ slot' \in Slot
BY Constants DEF Advance, Slot

LEMMA TypeStep ==
    ASSUME TypeOK, Rounds, Next
    PROVE  TypeOK'
<1> USE Constants
<1>1. CASE Select
  BY <1>1 DEF Select, TypeOK, Orders, Slot, clock
<1>2. CASE Range
  <2>1. rep \in 1..Repetitions /\ slot \in Slot /\ count[slot] = rep - 1 /\ order[slot] \in Anchors \cup {Garbage}
    <3>1. /\ pc = "range" /\ rep \in 0..Repetitions /\ slot \in Slot /\ rep >= 1
          /\ count[slot] = IF slot < slot THEN rep ELSE rep - 1
          /\ order \in [Slot -> Anchors \cup {Garbage}]
      BY <1>2 DEF Range, Rounds, TypeOK, Orders
    <3> QED BY <3>1 DEF Slot
  <2>2. count' \in [Slot -> 0..Repetitions]
    BY <1>2, <2>1 DEF Range, TypeOK
  <2>3. pc' \in {"range", "solve"} /\ rep' \in 1..Repetitions /\ slot' \in Slot
    BY <1>2, <2>1, AdvanceTypes DEF Range
  <2>4. polled' \in (Anchors \cup {Garbage, None}) \X (Anchors \cup {Garbage, None})
    BY <1>2, <2>1 DEF Range, TypeOK
  <2> QED BY <1>2, <2>2, <2>3, <2>4 DEF Range, TypeOK, clock
<1>3. CASE RangeFails
  BY <1>3 DEF RangeFails, TypeOK, Orders, clock
<1>4. CASE Solve \/ Send
  BY <1>4 DEF Solve, Send, TypeOK, clock, ranging
<1>5. CASE Pace
  BY <1>5 DEF Pace, TypeOK, ranging
<1>6. CASE Wake \/ Tick
  BY <1>6 DEF Wake, Tick, TypeOK, clock, ranging
<1> QED BY <1>1, <1>2, <1>3, <1>4, <1>5, <1>6 DEF Next, Step

\* The loops: a ranging adds the distance the round lacks.
LEMMA RoundsStep ==
    ASSUME TypeOK, Rounds, Next
    PROVE  Rounds'
<1> USE Constants DEF Rounds, CompleteMeasurements
<1>1. CASE Select
  BY <1>1 DEF Select, Slot
<1>2. CASE Range
  <2>1. /\ pc = "range" /\ rep \in 1..Repetitions /\ slot \in 1..Slots
        /\ \A s \in Slot: count[s] = IF s < slot THEN rep ELSE rep - 1
        /\ count' = [count EXCEPT ![slot] = @ + 1]
        /\ count \in [Slot -> 0..Repetitions]
        /\ polled'[1] = order[slot] /\ order' = order
    BY <1>2 DEF Range, TypeOK, Slot
  <2>2. \A s \in Slot: count'[s] = IF s <= slot THEN rep ELSE rep - 1
    BY <2>1 DEF Slot
  <2>3. CASE slot < Slots /\ slot' = slot + 1 /\ UNCHANGED <<rep, pc>>
    <3>1. \A s \in Slot: count'[s] = IF s < slot' THEN rep' ELSE rep' - 1
      BY <2>1, <2>2, <2>3 DEF Slot
    <3> QED BY <2>1, <2>3, <3>1
  <2>4. CASE slot = Slots /\ rep < Repetitions /\ slot' = 1 /\ rep' = rep + 1 /\ UNCHANGED pc
    <3>1. \A s \in Slot: count'[s] = IF s < slot' THEN rep' ELSE rep' - 1
      BY <2>1, <2>2, <2>4 DEF Slot
    <3> QED BY <2>1, <2>4, <3>1
  <2>5. CASE slot = Slots /\ rep = Repetitions /\ pc' = "solve" /\ UNCHANGED <<rep, slot>>
    BY <2>1, <2>2, <2>5 DEF Slot
  <2> QED BY <1>2, <2>3, <2>4, <2>5 DEF Range, Advance
<1>3. CASE RangeFails
  BY <1>3 DEF RangeFails
<1>4. CASE Solve \/ Send
  BY <1>4 DEF Solve, Send, ranging
<1>5. CASE Pace
  BY <1>5 DEF Pace
<1>6. CASE Wake
  BY <1>6 DEF Wake
<1>7. CASE Tick
  BY <1>7 DEF Tick, ranging
<1> QED BY <1>1, <1>2, <1>3, <1>4, <1>5, <1>6, <1>7 DEF Next, Step

\* The heap: a selection takes one block.
LEMMA SelectedStep ==
    ASSUME TypeOK, Selected, Next
    PROVE  Selected'
<1> USE Constants DEF Selected
<1>1. CASE Select
  <2>1. CASE heap > 0
    <3>1. Selection(order') /\ heap' = heap - 1 /\ starts' = starts + 1 /\ pc' = "range"
      BY <1>1, <2>1 DEF Select
    <3>2. Selection(order)'
      BY <3>1 DEF Selection
    <3> QED BY <2>1, <3>1, <3>2 DEF TypeOK
  <2>2. CASE heap = 0
    BY <1>1, <2>2 DEF Select, TypeOK
  <2> QED BY <2>1, <2>2 DEF TypeOK
<1>2. CASE Range \/ RangeFails
  <2>1. UNCHANGED <<order, starts, heap>> /\ pc = "range" /\ pc' # "select"
    BY <1>2 DEF Range, RangeFails, Advance
  <2> QED BY <2>1 DEF Selection
<1>3. CASE Solve \/ Send \/ Pace
  <2>1. UNCHANGED <<order, starts, heap>> /\ pc # "select" /\ pc' # "select"
    BY <1>3 DEF Solve, Send, Pace, ranging
  <2> QED BY <2>1 DEF Selection
<1>4. CASE Wake \/ Tick
  <2>1. UNCHANGED <<order, starts, heap>> /\ (pc' = "select" \/ pc' = pc)
    BY <1>4 DEF Wake, Tick, ranging
  <2> QED BY <2>1 DEF Selection
<1> QED BY <1>1, <1>2, <1>3, <1>4 DEF Next, Step

\* The clock: each positioning moves last_timestamp by a period at least.
LEMMA PacedStep ==
    ASSUME TypeOK, Paced, Next
    PROVE  Paced'
<1>0. /\ starts \in Int /\ starts + 1 \in Int
      /\ starts * Period \in Int
      /\ (starts + 1) * Period = starts * Period + Period
      /\ (starts - 1) * Period = starts * Period - Period
  BY OneMore DEF TypeOK
<1> USE Constants DEF TypeOK
<1>1. CASE Select
  <2>1. /\ pc = "select" /\ pc' = "range" /\ starts' = starts + 1
        /\ UNCHANGED <<now, last, wake>>
    BY <1>1 DEF Select, clock
  <2>2. (starts' - 1) * Period = starts * Period
    BY <1>0, <2>1
  <2> QED BY <2>1, <2>2 DEF Paced
<1>2. CASE Range \/ RangeFails \/ Solve \/ Send
  <2>1. /\ pc \in {"range", "solve", "send"} /\ pc' \in {"range", "solve", "send", "pace"}
        /\ UNCHANGED <<now, last, wake, starts>>
    BY <1>2 DEF Range, Advance, RangeFails, Solve, Send, clock
  <2> QED BY <2>1 DEF Paced
<1>3. CASE Pace
  <2>1. /\ pc = "pace" /\ pc' = "sleep" /\ wake' = last + Period
        /\ last' = IF wake' > now THEN wake' ELSE now + Period
        /\ UNCHANGED <<now, starts>>
    BY <1>3 DEF Pace
  <2>2. last >= starts * Period - Period /\ last <= now + Period
    BY <1>0, <2>1 DEF Paced
  <2>3. last' >= starts' * Period
    BY <1>0, <2>1, <2>2
  <2> QED BY <1>0, <2>1, <2>2, <2>3 DEF Paced
<1>4. CASE Wake
  BY <1>4 DEF Wake, Paced, clock
<1>5. CASE Tick
  <2>1. now' = now + 1 /\ UNCHANGED <<pc, last, wake, starts>>
    BY <1>5 DEF Tick
  <2>2. now' + Period >= now + Period /\ now' + 2 * Period >= now + 2 * Period
    BY <2>1
  <2> QED BY <1>0, <2>1, <2>2 DEF Paced
<1> QED BY <1>1, <1>2, <1>3, <1>4, <1>5 DEF Next, Step

-----------------------------------------------------------------------------
LEMMA Stutter ==
    ASSUME UNCHANGED vars
    PROVE  (TypeOK /\ LoopInvariant)' = (TypeOK /\ LoopInvariant)
BY DEF vars, clock, ranging, TypeOK, LoopInvariant, Rounds, CompleteMeasurements,
       Selected, Selection, Paced

\* The loops count the rounds, the heap the selections and last_timestamp the
\* periods.
THEOREM LoopCorrect == Spec => [](TypeOK /\ LoopInvariant)
<1> DEFINE Inv == TypeOK /\ LoopInvariant
<1>1. Init => Inv
  <2> SUFFICES ASSUME Init PROVE Inv
    OBVIOUS
  <2>1. TypeOK
    BY Constants DEF Init, TypeOK, Slot
  <2>2. Rounds /\ Selected
    BY Constants DEF Init, Rounds, CompleteMeasurements, Selected
  <2>3. Paced
    BY Constants DEF Init, Paced
  <2> QED BY <2>1, <2>2, <2>3 DEF LoopInvariant
<1>2. Inv /\ [Next]_vars => Inv'
  <2>1. ASSUME Inv, Next PROVE Inv'
    BY <2>1, TypeStep, RoundsStep, SelectedStep, PacedStep DEF LoopInvariant
  <2> QED BY <2>1, Stutter
<1> QED BY <1>1, <1>2, PTL DEF Spec

\* Every location has its distances, all of its own positioning.
THEOREM Complete == Spec => []CompleteMeasurements
<1>1. LoopInvariant => CompleteMeasurements
  BY DEF LoopInvariant, Rounds
<1> QED BY <1>1, LoopCorrect, PTL

\* No anchor is ranged with twice in a row as long as no selection has failed:
\* two rangings in a row are with two places of the order, which differ.
THEOREM Alternation == Spec => []AlternatesInMemory
<1>1. Init => AlternatesInMemory
  BY DEF Init, AlternatesInMemory, Alternating
<1>2. ASSUME TypeOK, LoopInvariant, AlternatesInMemory, [Next]_vars
      PROVE  AlternatesInMemory'
  <2>1. CASE Select
    BY <2>1 DEF Select, AlternatesInMemory, Alternating
  <2>2. CASE Range \/ RangeFails
    <3> SUFFICES ASSUME starts <= HeapBlocks, polled[1] # None
                 PROVE  order[slot] # polled[1]
      <4>1. polled' = <<order[slot], polled[1]>> /\ starts' = starts
        BY <2>2 DEF Range, RangeFails
      <4> QED BY <4>1 DEF AlternatesInMemory, Alternating
    <3>1. /\ pc = "range" /\ rep >= 1 /\ rep \in 0..Repetitions
          /\ slot \in 1..Slots
          /\ \A s, t \in 1..Slots: s # t => order[s] # order[t]
          /\ slot > 1 => polled[1] = order[slot - 1]
          /\ slot = 1 /\ rep > 1 => polled[1] = order[Slots]
          /\ ~ (slot = 1 /\ rep = 1)
      BY <1>2, <2>2 DEF Range, RangeFails, TypeOK, LoopInvariant, Rounds, Selected, Selection, Slot
    <3>2. CASE slot > 1
      BY <3>1, <3>2, Constants
    <3>3. CASE slot = 1
      BY <3>1, <3>3, Constants
    <3> QED BY <3>1, <3>2, <3>3, Constants
  <2>3. CASE Solve \/ Send \/ Pace \/ Wake \/ Tick \/ UNCHANGED vars
    BY <1>2, <2>3 DEF Solve, Send, Pace, Wake, Tick, vars, ranging, AlternatesInMemory, Alternating
  <2> QED BY <1>2, <2>1, <2>2, <2>3 DEF Next, Step
<1> QED BY <1>1, <1>2, LoopCorrect, PTL DEF Spec

\* The pace of the positionings.
THEOREM Pacing == Spec => [](RateBound /\ SleepBound)
<1>1. ASSUME TypeOK, LoopInvariant PROVE RateBound /\ SleepBound
  <2>1. /\ starts * Period \in Int
        /\ (starts - 1) * Period = starts * Period - Period
    BY OneMore, <1>1 DEF TypeOK
  <2>2. last <= now + 2 * Period
    BY Constants, <1>1 DEF LoopInvariant, Paced, TypeOK
  <2>3. pc # "sleep" => last <= now + Period
    BY <1>1 DEF LoopInvariant, Paced
  <2>4. last >= starts * Period - Period
    BY Constants, <1>1, <2>1 DEF LoopInvariant, Paced, TypeOK
  <2> QED BY Constants, <1>1, <2>1, <2>2, <2>3, <2>4 DEF LoopInvariant, Paced, TypeOK, RateBound, SleepBound
<1> QED BY <1>1, LoopCorrect, PTL

-----------------------------------------------------------------------------
\* The rounds that remain are counted one by one, as the periods are.
LEMMA RoundsRemain ==
    ASSUME NEW k \in Nat
    PROVE  /\ k * Slots \in Nat
           /\ k >= 1 => (k - 1) * Slots = k * Slots - Slots
           /\ k < Repetitions => k * Slots <= Repetitions * Slots - Slots
<1>1. k * Slots \in Nat /\ (k - 1) * Slots = k * Slots - Slots
  BY Constants
<1>2. ASSUME k < Repetitions PROVE k * Slots <= Repetitions * Slots - Slots
  <2>1. PICK d \in Nat: Repetitions = k + d + 1
    <3>1. Repetitions - k - 1 \in Nat /\ Repetitions = k + (Repetitions - k - 1) + 1
      BY <1>2, Constants
    <3> QED BY <3>1
  <2>2. d * Slots \in Nat /\ (k + d + 1) * Slots = k * Slots + d * Slots + Slots
    BY Constants
  <2> QED BY <1>1, <2>1, <2>2, Constants
<1> QED BY <1>1, <1>2

\* The steps until the thread sleeps, if every ranging succeeds.
StepsLeft ==
    CASE pc = "select" -> Repetitions * Slots + 4
      [] pc = "range"  -> (Repetitions - rep) * Slots + (Slots - slot) + 4
      [] pc = "solve"  -> 3
      [] pc = "send"   -> 2
      [] pc = "pace"   -> 1
      [] pc = "sleep"  -> 0

\* What PositioningEnds needs besides the fairness of the thread: a positioning
\* under way comes closer to its end with every step, however the rangings and
\* the solution turn out, and the clock does not put it off.
Closer == pc # "sleep" => /\ Step => StepsLeft' < StepsLeft
                          /\ Tick => StepsLeft' = StepsLeft

LEMMA CloserStep ==
    ASSUME TypeOK, LoopInvariant
    PROVE  StepsLeft \in 0..(Repetitions * Slots + 4) /\ Closer
<1> DEFINE k == Repetitions - rep
           rest == k * Slots
           all == Repetitions * Slots
           Left(p, r, s) == CASE p = "select" -> all + 4
                              [] p = "range"  -> r + (Slots - s) + 4
                              [] p = "solve"  -> 3
                              [] p = "send"   -> 2
                              [] p = "pace"   -> 1
                              [] p = "sleep"  -> 0
<1>1. /\ rep \in Nat /\ slot \in 1..Slots
      /\ pc \in {"select", "range", "solve", "send", "pace", "sleep"}
      /\ pc = "range" => rep >= 1 /\ rep <= Repetitions
  BY Constants DEF TypeOK, LoopInvariant, Rounds, Slot
<1>2. ASSUME rep <= Repetitions
      PROVE  /\ rest \in Nat
             /\ rep < Repetitions => (k - 1) * Slots = rest - Slots
             /\ rep >= 1 => rest <= all - Slots
  <2>1. /\ k \in Nat
        /\ rep < Repetitions => k >= 1
        /\ rep >= 1 => k < Repetitions
    BY <1>1, <1>2, Constants
  <2> HIDE DEF k
  <2> QED BY <2>1, RoundsRemain
<1>3. all \in Nat /\ (Repetitions - 1) * Slots = all - Slots
  BY Constants, RoundsRemain
<1>4. StepsLeft = Left(pc, rest, slot)
  BY DEF StepsLeft
<1>5. StepsLeft' = Left(pc', (Repetitions - rep') * Slots, slot')
  BY DEF StepsLeft
<1>6. rep' = rep + 1 => (Repetitions - rep') * Slots = (k - 1) * Slots
  <2> SUFFICES ASSUME rep' = rep + 1 PROVE Repetitions - rep' = k - 1
    OBVIOUS
  <2> QED BY <1>1, Constants
<1>7. rep' = rep => (Repetitions - rep') * Slots = rest
  OBVIOUS
<1>8. rep' = 1 => (Repetitions - rep') * Slots = all - Slots
  BY <1>3
<1> HIDE DEF rest, all, k
<1>9. StepsLeft \in 0..(all + 4)
  <2>1. CASE pc = "range"
    <3>1. StepsLeft = rest + (Slots - slot) + 4
      BY <1>4, <2>1
    <3>2. rest \in Nat /\ rest <= all - Slots
      BY <1>1, <1>2, <2>1
    <3> QED BY <1>1, <1>3, <3>1, <3>2, Constants
  <2>2. CASE pc # "range"
    BY <1>1, <1>3, <1>4, <2>2
  <2> QED BY <2>1, <2>2
<1>10. ASSUME Select PROVE StepsLeft' < StepsLeft
  <2>1. pc = "select" /\ pc' = "range" /\ rep' = 1 /\ slot' = 1
    BY <1>10 DEF Select
  <2>2. StepsLeft' = (all - Slots) + (Slots - 1) + 4
    BY <1>5, <1>8, <2>1
  <2> QED BY <1>3, <1>4, <2>1, <2>2, Constants
<1>11. ASSUME Range PROVE StepsLeft' < StepsLeft
  <2>1. pc = "range" /\ Advance
    BY <1>11 DEF Range
  <2>2. StepsLeft = rest + (Slots - slot) + 4 /\ rest \in Nat
    BY <1>1, <1>2, <1>4, <2>1
  <2>3. CASE slot < Slots /\ slot' = slot + 1 /\ UNCHANGED <<rep, pc>>
    <3>1. StepsLeft' = rest + (Slots - (slot + 1)) + 4
      BY <1>5, <1>7, <2>1, <2>3
    <3> QED BY <1>1, <2>2, <3>1, Constants
  <2>4. CASE slot = Slots /\ rep < Repetitions /\ slot' = 1 /\ rep' = rep + 1 /\ UNCHANGED pc
    <3>1. StepsLeft' = (rest - Slots) + (Slots - 1) + 4
      BY <1>1, <1>2, <1>5, <1>6, <2>1, <2>4
    <3> QED BY <2>2, <2>4, <3>1, Constants
  <2>5. CASE slot = Slots /\ rep = Repetitions /\ pc' = "solve" /\ UNCHANGED <<rep, slot>>
    <3>1. StepsLeft' = 3
      BY <1>5, <2>5
    <3> QED BY <2>2, <2>5, <3>1, Constants
  <2> QED BY <2>1, <2>3, <2>4, <2>5 DEF Advance
<1>12. ASSUME RangeFails PROVE StepsLeft' < StepsLeft
  <2>1. pc = "range" /\ pc' = "pace"
    BY <1>12 DEF RangeFails
  <2>2. StepsLeft = rest + (Slots - slot) + 4 /\ rest \in Nat /\ StepsLeft' = 1
    BY <1>1, <1>2, <1>4, <1>5, <2>1
  <2> QED BY <1>1, <2>2, Constants
<1>13. ASSUME Solve \/ Send \/ Pace PROVE StepsLeft' < StepsLeft
  <2>1. \/ pc = "solve" /\ pc' \in {"send", "pace"}
        \/ pc = "send" /\ pc' = "pace"
        \/ pc = "pace" /\ pc' = "sleep"
    BY <1>13 DEF Solve, Send, Pace
  <2> QED BY <1>4, <1>5, <2>1
<1>14. Wake => pc = "sleep"
  BY DEF Wake
<1>15. Tick => StepsLeft' = StepsLeft
  BY DEF Tick, StepsLeft, ranging
<1> QED BY <1>9, <1>10, <1>11, <1>12, <1>13, <1>14, <1>15 DEF Closer, Step, all

\* A positioning takes at most Repetitions * Slots + 4 steps, its rangings among
\* them, and nothing but the thread's own delay puts its end off.
THEOREM Progress ==
    Spec => [](StepsLeft \in 0..(Repetitions * Slots + 4)) /\ [][Closer]_vars
<1>1. TypeOK /\ LoopInvariant =>
        StepsLeft \in 0..(Repetitions * Slots + 4) /\ [Closer]_vars
  BY CloserStep
<1> QED BY <1>1, LoopCorrect, PTL
=============================================================================
