------------------------------- MODULE RxFifo -------------------------------
(***************************************************************************)
(* What a client of the driver relies on when it receives through          *)
(* interrupts: frames wait in at most two places, reach the callback in    *)
(* the order in which they arrived and whole, and are dropped only all     *)
(* together, when the transceiver is turned off.                           *)
(***************************************************************************)
EXTENDS Naturals, Sequences

CONSTANTS Frames, Slots

VARIABLES pending,    \* received and not seen by the callback, oldest first
          delivered   \* what the callback read, in its order

vars == <<pending, delivered>>

Init == /\ pending = <<>>
        /\ delivered = <<>>

Receive(f) == /\ Len(pending) < Slots
              /\ pending' = Append(pending, f)
              /\ UNCHANGED delivered

Deliver == /\ pending # <<>>
           /\ delivered' = Append(delivered, Head(pending))
           /\ pending' = Tail(pending)

Drop == /\ pending' = <<>>
        /\ UNCHANGED delivered

Next == \/ \E f \in Frames: Receive(f)
        \/ Deliver
        \/ Drop

Spec == Init /\ [][Next]_vars
=============================================================================
