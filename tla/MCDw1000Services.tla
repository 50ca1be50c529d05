--------------------------- MODULE MCDw1000Services ---------------------------
(* The services for TLC.  The computations are those of MCDw1000Calc.        *)
EXTENDS Dw1000Services, MCDw1000Calc

W(file, index, n, value) ==
    [op |-> "write", file |-> file, index |-> index, n |-> n, value |-> value]
R(file, index, n) == [op |-> "read", file |-> file, index |-> index, n |-> n]

\* Sub-indices of no byte, one byte and two bytes, at their limits; values
\* that overlap.
MCAddresses == 0..1 \cup 127..128 \cup 300..303
MCRequests == {W(5, 0, 2, \h0201), W(5, 1, 1, 9), W(5, 127, 2, \h0403), W(5, 128, 1, 5),
               W(63, 300, 4, \h14131211), R(5, 0, 2), R(5, 127, 2), R(5, 128, 1),
               R(63, 300, 4), R(63, 302, 2)}

\* No filter, one type and two; lengths of which neither is part of the other.
MCMasks == {{}, {"FFAD"}, {"FFAD", "FFAA"}}
MCFrames == {{2}, {0, 3}}
=============================================================================
