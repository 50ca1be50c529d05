------------------------------- MODULE TagLoop -------------------------------
(***************************************************************************)
(* The main thread of a tag: it selects the nearest anchors, ranges with   *)
(* each of them Repetitions times in rounds, solves for its position,      *)
(* sends it and sleeps until the next period.                              *)
(*                                                                         *)
(* A ranging succeeds or fails (module Twr), a location that is sent goes  *)
(* its own way (module LocationFlow).  Time passes between any two steps.  *)
(***************************************************************************)
EXTENDS Integers, FiniteSets

CONSTANTS Anchors,       \* the table of anchors
          Slots,         \* how many of them are ranged with, 4 in the code
          Repetitions,   \* 5 in the code
          Period,        \* period_ms
          HeapBlocks,    \* how many index arrays the heap can hold
          Garbage,       \* what an index outside the table reads as an anchor
          None,          \* no anchor
          MaxTime        \* bound: when a behaviour stops

Slot == 1..Slots

ASSUME TagLoopAssumption ==
    /\ IsFiniteSet(Anchors) /\ Garbage \notin Anchors /\ None \notin Anchors \cup {Garbage}
    /\ Slots \in Nat \ {0, 1} /\ Slots <= Cardinality(Anchors)
    /\ Repetitions \in Nat \ {0}
    /\ Period \in Nat \ {0}
    /\ HeapBlocks \in Nat /\ MaxTime \in Nat

VARIABLES
  pc,        \* where the thread is
  now,       \* k_uptime_get()
  last,      \* last_timestamp
  wake,      \* the time until which the thread sleeps
  starts,    \* positionings begun so far
  heap,      \* blocks left on the heap
  order,     \* anchor_indices, as the anchors they stand for
  rep, slot, \* the loop counters of the ranging
  count,     \* count[s]: distances summed up in measurements[s]
  polled     \* the anchors of the two rangings before, latest first

clock == <<now, last, wake>>
ranging == <<order, rep, slot, count, polled>>
vars == <<pc, clock, starts, heap, ranging>>

Orders == [Slot -> Anchors \cup {Garbage}]

\* The nearest anchors are Slots different ones.
Selection(f) == /\ \A s \in Slot: f[s] \in Anchors
                /\ \A s, t \in Slot: s # t => f[s] # f[t]

Init == /\ pc = "select"
        /\ now = 0 /\ last = 0 /\ wake = 0
        /\ starts = 0
        /\ heap = HeapBlocks
        /\ order \in Orders
        /\ rep = 0 /\ slot = 1
        /\ count = [s \in Slot |-> 0]
        /\ polled = <<None, None>>

-----------------------------------------------------------------------------
\* perform_positioning

\* rtls_select_nearby_anchors sorts the anchors by their distance from the last
\* position, which may be any order.  It allocates an array that is never
\* freed; its failure is ignored, and then anchor_indices, on the stack, is
\* uninitialized.
Select ==
    /\ pc = "select"
    /\ pc' = "range"
    /\ starts' = starts + 1
    /\ \E f \in Orders: /\ heap > 0 => Selection(f)
                        /\ order' = f
    /\ heap' = IF heap > 0 THEN heap - 1 ELSE 0
    /\ rep' = 1 /\ slot' = 1
    /\ count' = [s \in Slot |-> 0]
    /\ polled' = <<None, None>>
    /\ UNCHANGED clock

\* The two loops around the ranging.
Advance ==
    \/ slot < Slots /\ slot' = slot + 1 /\ UNCHANGED <<rep, pc>>
    \/ slot = Slots /\ rep < Repetitions /\ slot' = 1 /\ rep' = rep + 1 /\ UNCHANGED pc
    \/ slot = Slots /\ rep = Repetitions /\ pc' = "solve" /\ UNCHANGED <<rep, slot>>

\* uwb_tag_twr returns a distance,
Range ==
    /\ pc = "range"
    /\ count' = [count EXCEPT ![slot] = @ + 1]
    /\ polled' = <<order[slot], polled[1]>>
    /\ Advance
    /\ UNCHANGED <<clock, starts, heap, order>>

\* Mutants of RangeFails: the rounds start over; the anchor is skipped.
RangeFailsOver ==
    /\ pc = "range"
    /\ rep' = 1 /\ slot' = 1
    /\ count' = [s \in Slot |-> 0]
    /\ polled' = <<None, None>>
    /\ UNCHANGED <<pc, clock, starts, heap, order>>

RangeFailsOnward ==
    /\ pc = "range"
    /\ polled' = <<order[slot], polled[1]>>
    /\ Advance
    /\ UNCHANGED <<clock, starts, heap, order, count>>

\* or fails, which ends the positioning.
RangeFails ==
    /\ pc = "range"
    /\ polled' = <<order[slot], polled[1]>>
    /\ pc' = "pace"
    /\ UNCHANGED <<clock, starts, heap, order, rep, slot, count>>

\* rtls_find_position; it fails when the anchors are coplanar.
Solve == /\ pc = "solve"
         /\ pc' \in {"send", "pace"}
         /\ UNCHANGED <<clock, starts, heap, ranging>>

-----------------------------------------------------------------------------
\* main

\* send_location
Send == /\ pc = "send"
        /\ pc' = "pace"
        /\ UNCHANGED <<clock, starts, heap, ranging>>

\* Mutant of Pace: a thread that is late leaves last_timestamp where it was.
PaceUnmoved ==
    /\ pc = "pace"
    /\ wake' = last + Period
    /\ last' = IF wake' > now THEN wake' ELSE last
    /\ pc' = "sleep"
    /\ UNCHANGED <<now, starts, heap, ranging>>

\* A thread that is late does not sleep, and has the next period begin now.
Pace ==
    /\ pc = "pace"
    /\ wake' = last + Period
    /\ last' = IF wake' > now THEN wake' ELSE now + Period
    /\ pc' = "sleep"
    /\ UNCHANGED <<now, starts, heap, ranging>>

\* k_sleep is over; the thread may run later still.
Wake == /\ pc = "sleep"
        /\ now >= wake
        /\ pc' = "select"
        /\ UNCHANGED <<clock, starts, heap, ranging>>

Tick == /\ now < MaxTime
        /\ now' = now + 1
        /\ UNCHANGED <<pc, last, wake, starts, heap, ranging>>

Step == Select \/ Range \/ RangeFails \/ Solve \/ Send \/ Pace \/ Wake

Next == Step \/ Tick

Spec == Init /\ [][Next]_vars

\* The thread runs and time goes on.
FairSpec == Spec /\ WF_vars(Step) /\ WF_vars(Tick)
-----------------------------------------------------------------------------
TypeOK ==
    /\ pc \in {"select", "range", "solve", "send", "pace", "sleep"}
    /\ now \in Nat /\ last \in Nat /\ wake \in Nat
    /\ starts \in Nat
    /\ heap \in 0..HeapBlocks
    /\ order \in Orders
    /\ rep \in 0..Repetitions
    /\ slot \in Slot
    /\ count \in [Slot -> 0..Repetitions]
    /\ polled \in (Anchors \cup {Garbage, None}) \X (Anchors \cup {Garbage, None})

\* A location is computed from Repetitions distances to each of its anchors,
\* all of them measured for it: none is left from a positioning that failed.
CompleteMeasurements ==
    pc \in {"solve", "send"} => \A s \in Slot: count[s] = Repetitions

\* As positioning.c says of the order of iteration, no anchor is ranged with
\* twice in a row,
Alternating == polled[2] # None => polled[1] # polled[2]

\* while there is memory for the selection of the anchors.
AlternatesInMemory == starts <= HeapBlocks => Alternating

\* The pace: the k-th positioning does not begin before k - 2 periods have
\* passed, whatever the positionings before it took and however late the
\* thread woke up,
RateBound == starts * Period <= now + 2 * Period

\* and the thread does not sleep longer than two periods.
SleepBound == pc = "sleep" => wake <= now + 2 * Period

\* The inductive invariant behind these.  In the loops, the distances of the
\* round are those to the slots before the present one:
Rounds ==
    /\ pc = "range" => /\ rep >= 1
                       /\ \A s \in Slot: count[s] = IF s < slot THEN rep ELSE rep - 1
                       /\ slot > 1 => polled[1] = order[slot - 1]
                       /\ slot = 1 /\ rep > 1 => polled[1] = order[Slots]
                       /\ slot = 1 /\ rep = 1 => polled[1] = None
    /\ CompleteMeasurements

Selected == /\ starts + heap >= HeapBlocks
            /\ pc # "select" /\ starts <= HeapBlocks => Selection(order)
            /\ pc = "select" \/ starts >= 1

\* last_timestamp runs ahead of the periods begun, and of the clock by one.
Paced ==
    /\ last >= (IF pc \in {"sleep", "select"} THEN starts ELSE starts - 1) * Period
    /\ pc # "sleep" => last <= now + Period
    /\ pc = "sleep" => \/ wake = last /\ last <= now + 2 * Period
                       \/ wake <= now /\ last <= now + Period

LoopInvariant == Rounds /\ Selected /\ Paced

\* A positioning ends, in success or failure.
PositioningEnds == pc # "sleep" ~> pc = "sleep"
=============================================================================
