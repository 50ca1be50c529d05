--------------------------- MODULE OrderedDelivery ---------------------------
(***************************************************************************)
(* What the chain tag -> mesh -> gateway -> broker promises to a           *)
(* subscriber of the location topic: locations may be missing, but those   *)
(* that come were measured, come once, and those of a tag come in the      *)
(* order they were measured.                                               *)
(***************************************************************************)
EXTENDS Naturals, Sequences

CONSTANT Tags

VARIABLES measured,   \* measured[t]: measurements of tag t so far
          published   \* the locations the broker accepted, oldest first

vars == <<measured, published>>

Init == /\ measured = [t \in Tags |-> 0]
        /\ published = <<>>

Measure(t) == /\ measured' = [measured EXCEPT ![t] = @ + 1]
              /\ UNCHANGED published

\* The n-th location of t, unless it or a newer one of t was delivered.
Deliver(t, n) ==
    /\ n \in 1..measured[t]
    /\ \A i \in 1..Len(published): published[i].tag = t => published[i].n < n
    /\ published' = Append(published, [tag |-> t, n |-> n])
    /\ UNCHANGED measured

Next == \E t \in Tags: \/ Measure(t)
                       \/ \E n \in 1..measured[t]: Deliver(t, n)

Spec == Init /\ [][Next]_vars
=============================================================================
