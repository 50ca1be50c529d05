---------------------------- MODULE MCDw1000Calc ----------------------------
(* The computations for TLC.  Timestamps have digits to the base 4: the    *)
(* counter wraps after 1024 and a truncated timestamp after 256.           *)
EXTENDS Dw1000Calc

MCQuarters == -2..258
MCCounts == {[bw \in 128..255 |-> 1200 - 3 * bw],
             [bw \in 128..255 |-> 700 - bw - (bw \div 16) * 10],
             [bw \in 128..255 |-> IF bw < 200 THEN 800 ELSE 300]}
MCTargets == {0, 100, 299, 300, 301, 435, 436, 500, 549, 550, 555, 700, 800, 1015, 1100, 1200}
MCDeltas == {-255, -90, -40, -20, -3, 0, 5, 20, 40, 90, 255}
MCBytes == 0..255
MCTimes == 1003..1040
=============================================================================
