------------------------ MODULE Dw1000ServicesProofs ------------------------
(***************************************************************************)
(* Proofs about the services of the driver side by side: its computations, *)
(* for every register byte, temperature, count and time; its functions of  *)
(* sleep; its changes of the clocks, with the interrupt routine at any     *)
(* point of them; and its transfers, which implement RegisterFile.         *)
(***************************************************************************)
EXTENDS Dw1000Services, FiniteSetTheorems, SequenceTheorems, TLAPS

-----------------------------------------------------------------------------
(* The correction of the power.                                            *)

Powers == [fn: {"power"}, done: BOOLEAN, adj: Int, da: 0..7, gain: 0..31,
           daChange: Int, gainChange: Int]

\* The loop goes one way only: after a step of the attenuation the gain is
\* within six of the limit it had passed, and cannot be beyond the other.
OneWay ==
    /\ calc.daChange > 0 => Gain <= 8
    /\ calc.daChange < 0 => Gain >= 16

Balanced == calc.gainChange - MIX_DA_FACTOR * calc.daChange = calc.adj

\* The loop ends with one of the best gains, or with one that is too low and
\* as much attenuation added as can be.  Without a change it does not begin.
Ended ==
    /\ calc.done /\ calc.adj # 0 => Gain \in BestGains \/ (calc.daChange = 7 /\ Gain < 4)
    /\ calc.adj = 0 => calc.done /\ calc.daChange = 0 /\ calc.gainChange = 0

PowerInv ==
    /\ "fn" \in DOMAIN calc
    /\ calc.fn = "power" => calc \in Powers /\ OneWay /\ Balanced /\ Ended

-----------------------------------------------------------------------------
\* The difference of power for one of temperature is an integer.
LEMMA Differences ==
    ASSUME NEW chan \in {2, 5}, NEW delta \in Int
    PROVE  PowerDifference(chan, delta) \in Int
<1>1. TEMP_COMP_FACTOR[chan] \in {327, 607}
  BY DEF TEMP_COMP_FACTOR
<1>2. ASSUME NEW k \in {327, 607}
      PROVE  -((-delta * k) \div 4096) \in Int /\ (delta * k) \div 4096 \in Int
  OBVIOUS
<1> QED BY <1>1, <1>2 DEF PowerDifference

\* The two fields of a byte.
LEMMA Halves ==
    ASSUME NEW byte \in 0..255
    PROVE  byte \div 32 \in 0..7 /\ byte % 32 \in 0..31
OBVIOUS

\* Another computation leaves the invariant alone.
LEMMA OtherKept ==
    ASSUME "fn" \in DOMAIN calc', calc'.fn # "power"
    PROVE  PowerInv'
BY DEF PowerInv

\* Every call begins with an adjustment still to be made in full.
LEMMA CallStep ==
    ASSUME PowerInv, Call
    PROVE  PowerInv'
<1>1. ASSUME NEW chan \in Channels, NEW prf \in {DWT_PRF_16M, DWT_PRF_64M}, NEW q \in Quarters,
             GetRangeBias(chan, prf, q)
      PROVE  PowerInv'
  BY <1>1, OtherKept DEF GetRangeBias
<1>3. ASSUME NEW count \in Counts, NEW target \in Targets, CalcBandwidthTempAdj(count, target)
      PROVE  PowerInv'
  BY <1>3, OtherKept DEF CalcBandwidthTempAdj
<1>4. ASSUME NEW chan \in {2, 5}, NEW delta \in Deltas, NEW byte \in Bytes,
             CalcPowerTempAdj(chan, delta, byte)
      PROVE  PowerInv'
  <2> DEFINE adj == PowerDifference(chan, delta)
             new == [fn |-> "power", done |-> adj = 0, adj |-> adj, da |-> byte \div 32,
                     gain |-> byte % 32, daChange |-> 0, gainChange |-> adj]
  <2>1. adj \in Int /\ byte \div 32 \in 0..7 /\ byte % 32 \in 0..31
    <3>1. delta \in Int /\ byte \in 0..255
      BY CalcAssumption
    <3> QED BY <3>1, Differences, Halves
  <2>2. calc' = new
    BY <1>4 DEF CalcPowerTempAdj
  <2> HIDE DEF adj
  <2>3. (adj = 0) \in BOOLEAN
    OBVIOUS
  <2>4. "fn" \in DOMAIN new /\ new \in Powers
    BY <2>1, <2>3 DEF Powers
  <2>5. /\ calc'.daChange = 0 /\ calc'.gainChange = adj /\ calc'.adj = adj
        /\ calc'.done <=> adj = 0
    BY <2>2
  <2>6. OneWay' /\ Balanced' /\ Ended'
    BY <2>1, <2>5 DEF OneWay, Balanced, Ended, MIX_DA_FACTOR
  <2> QED BY <2>2, <2>4, <2>6 DEF PowerInv
<1>5. ASSUME NEW time \in Times, NEW offset \in Times, NEW flight \in Flights,
             Exchange(time, flight, offset)
      PROVE  PowerInv'
  BY <1>5, OtherKept DEF Exchange
<1> QED BY <1>1, <1>3, <1>4, <1>5 DEF Call

\* A turn of the loop changes attenuation and gain by the same power, one way.
LEMMA LoopStep ==
    ASSUME PowerInv, Runs("power"), LowerAttenuation \/ RaiseAttenuation \/ Settle
    PROVE  PowerInv'
<1>1. /\ calc \in Powers /\ OneWay /\ Balanced /\ calc.fn = "power"
  BY DEF PowerInv, Runs
<1>2. Gain \in Int
  BY <1>1 DEF Gain, Powers
<1>3. CASE LowerAttenuation
  <2>1. calc.daChange # 1 /\ Gain > 20
    BY <1>1, <1>2, <1>3 DEF LowerAttenuation, OneWay, Powers
  <2>a. calc.adj # 0
    BY <1>3 DEF PowerInv, Ended, Runs, LowerAttenuation
  <2>2. calc' = [calc EXCEPT !.daChange = @ - 1, !.gainChange = @ - MIX_DA_FACTOR]
    BY <1>1, <1>3, <2>1 DEF LowerAttenuation, Powers
  <2>3. /\ calc' \in Powers /\ "fn" \in DOMAIN calc'
        /\ calc'.daChange = calc.daChange - 1 /\ calc'.gainChange = calc.gainChange - 5
        /\ calc'.adj = calc.adj /\ calc'.gain = calc.gain
    <3>1. calc.daChange - 1 \in Int /\ calc.gainChange - 5 \in Int
      BY <1>1 DEF Powers
    <3>2. calc' = [calc EXCEPT !.daChange = calc.daChange - 1, !.gainChange = calc.gainChange - 5]
      BY <2>2 DEF MIX_DA_FACTOR
    <3>3. calc' \in Powers
      BY <1>1, <3>1, <3>2 DEF Powers
    <3>4. "fn" \in DOMAIN calc'
      BY <3>3 DEF Powers
    <3> QED BY <1>1, <3>2, <3>3, <3>4 DEF Powers
  <2>r. ~calc'.done
    BY <1>1, <2>2 DEF Powers, Runs
  <2>4. Gain' = Gain - 5
    BY <1>1, <2>3 DEF Gain, Powers
  <2>5. calc.daChange <= 0
    BY <1>1, <2>1 DEF OneWay, Powers, Gain
  <2>6. OneWay' /\ Balanced' /\ Ended'
    BY <1>1, <1>2, <2>1, <2>a, <2>3, <2>r, <2>4, <2>5 DEF OneWay, Balanced, Ended, MIX_DA_FACTOR, Powers
  <2> QED BY <2>3, <2>6 DEF PowerInv
<1>4. CASE RaiseAttenuation
  <2>1. calc.daChange >= 0 /\ Gain < 4
    BY <1>1, <1>2, <1>4 DEF RaiseAttenuation, OneWay, Powers
  <2>a. calc.adj # 0
    BY <1>4 DEF PowerInv, Ended, Runs, RaiseAttenuation
  <2>2. CASE calc.daChange = 7
    <3>1. calc' = [calc EXCEPT !.daChange = 7, !.done = TRUE]
      BY <1>1, <1>4, <2>2 DEF RaiseAttenuation, Powers
    <3>2. /\ calc' \in Powers /\ "fn" \in DOMAIN calc'
          /\ calc'.daChange = calc.daChange /\ calc'.gainChange = calc.gainChange
          /\ calc'.adj = calc.adj /\ calc'.gain = calc.gain
      BY <1>1, <2>2, <3>1 DEF Powers
    <3>3. OneWay' /\ Balanced' /\ Ended'
      BY <1>1, <2>1, <2>a, <2>2, <3>2 DEF OneWay, Balanced, Ended, Gain
    <3> QED BY <3>2, <3>3 DEF PowerInv
  <2>3. CASE calc.daChange # 7
    <3>1. calc' = [calc EXCEPT !.daChange = @ + 1, !.gainChange = @ + MIX_DA_FACTOR]
      BY <1>1, <1>4, <2>3 DEF RaiseAttenuation, Powers
    <3>2. /\ calc' \in Powers /\ "fn" \in DOMAIN calc'
          /\ calc'.daChange = calc.daChange + 1 /\ calc'.gainChange = calc.gainChange + 5
          /\ calc'.adj = calc.adj /\ calc'.gain = calc.gain
      <4>1. calc.daChange + 1 \in Int /\ calc.gainChange + 5 \in Int
        BY <1>1 DEF Powers
      <4>2. calc' = [calc EXCEPT !.daChange = calc.daChange + 1, !.gainChange = calc.gainChange + 5]
        BY <3>1 DEF MIX_DA_FACTOR
      <4>3. calc' \in Powers
        BY <1>1, <4>1, <4>2 DEF Powers
      <4>4. "fn" \in DOMAIN calc'
        BY <4>3 DEF Powers
      <4> QED BY <1>1, <4>2, <4>3, <4>4 DEF Powers
    <3>r. ~calc'.done
      BY <1>1, <3>1 DEF Powers, Runs
    <3>3. Gain' = Gain + 5
      BY <1>1, <3>2 DEF Gain, Powers
    <3>4. OneWay' /\ Balanced' /\ Ended'
      BY <1>1, <1>2, <2>1, <2>a, <3>2, <3>r, <3>3 DEF OneWay, Balanced, Ended, MIX_DA_FACTOR, Powers
    <3> QED BY <3>2, <3>4 DEF PowerInv
  <2> QED BY <2>2, <2>3
<1>5. CASE Settle
  <2>1. /\ calc' \in Powers /\ "fn" \in DOMAIN calc'
        /\ calc'.daChange = calc.daChange /\ calc'.gainChange = calc.gainChange
        /\ calc'.adj = calc.adj /\ calc'.gain = calc.gain
    BY <1>1, <1>5 DEF Settle, Powers
  <2>2. Gain' \in BestGains
    BY <1>5, <2>1 DEF Settle, Gain
  <2>a. calc.adj # 0
    BY <1>5 DEF PowerInv, Ended, Runs, Settle
  <2>3. OneWay' /\ Balanced' /\ Ended'
    BY <1>1, <2>1, <2>a, <2>2 DEF OneWay, Balanced, Ended, Gain
  <2> QED BY <2>1, <2>3 DEF PowerInv
<1> QED BY <1>3, <1>4, <1>5

\* Of two settings of the same power, one with one of the best gains, the
\* other with an attenuation that exists, what the loop ends with is the first.
LEMMA PowersMeet ==
    ASSUME NEW da \in Int, NEW gain \in Int,
           gain \in BestGains \/ (da >= 7 /\ gain < 4),
           da < 0 => gain >= 16, da > 7 => gain <= 8,
           NEW a \in 0..7, NEW g \in BestGains, g - 5 * a = gain - 5 * da
    PROVE  da \in 0..7 /\ gain \in BestGains
<1>1. gain \in BestGains
  BY DEF BestGains
<1>2. da >= 0
  BY <1>1 DEF BestGains
<1>3. da <= 7
  BY <1>1 DEF BestGains
<1> QED BY <1>1, <1>2, <1>3

\* The byte has the power that was asked for.
LEMMA PowerOfByte ==
    ASSUME PowerInv
    PROVE  PowerKept
<1> SUFFICES ASSUME calc.fn = "power", calc.done
             PROVE  LET target == PowerOf(calc.da, calc.gain) + calc.adj
                    IN  IF calc.adj = 0 THEN NewAttenuation = calc.da /\ NewGain = calc.gain
                        ELSE (\E a \in 0..7, g \in BestGains: PowerOf(a, g) = target)
                              => PowerOf(NewAttenuation, NewGain) = target /\ NewGain \in BestGains
  BY DEF PowerKept
<1>1. /\ calc.adj \in Int /\ calc.da \in 0..7 /\ calc.gain \in 0..31
      /\ calc.daChange \in Int /\ calc.gainChange \in Int
  BY DEF PowerInv, Powers
<1>2. OneWay /\ Balanced /\ Ended
  BY DEF PowerInv
<1> DEFINE da == calc.da + calc.daChange
<1>3. da \in Int /\ Gain \in Int
  BY <1>1 DEF Gain
<1>4. CASE calc.adj = 0
  <2>1. calc.daChange = 0 /\ calc.gainChange = 0
    BY <1>2, <1>4 DEF Ended
  <2>2. NewAttenuation = calc.da /\ NewGain = calc.gain
    BY <1>1, <2>1 DEF NewAttenuation, NewGain, Gain
  <2> QED BY <1>4, <2>2
<1>5. ASSUME calc.adj # 0, NEW a \in 0..7, NEW g \in BestGains,
             PowerOf(a, g) = PowerOf(calc.da, calc.gain) + calc.adj
      PROVE  PowerOf(NewAttenuation, NewGain) = PowerOf(a, g) /\ NewGain \in BestGains
  <2>0. g - 5 * a = calc.gain - 5 * calc.da + calc.adj
    BY <1>5 DEF PowerOf, MIX_DA_FACTOR
  <2>b. calc.gainChange - 5 * calc.daChange = calc.adj /\ g \in Int
    BY <1>2 DEF Balanced, MIX_DA_FACTOR, BestGains
  <2>1. g - 5 * a = Gain - 5 * da
    <3>1. ASSUME NEW x \in Int, NEW y \in Int, NEW u \in Int, NEW v \in Int
          PROVE  x - 5 * y + (u - 5 * v) = (x + u) - 5 * (y + v)
      OBVIOUS
    <3>2. calc.gain \in Int /\ calc.da \in Int
      BY <1>1
    <3> QED BY <1>1, <2>0, <2>b, <3>1, <3>2 DEF Gain
  <2>2. Gain \in BestGains \/ (da >= 7 /\ Gain < 4)
    BY <1>1, <1>2, <1>5 DEF Ended
  <2>3. (da < 0 => Gain >= 16) /\ (da > 7 => Gain <= 8)
    BY <1>1, <1>2 DEF OneWay
  <2> HIDE DEF da
  <2>4. da \in 0..7 /\ Gain \in BestGains
    BY <1>3, <2>1, <2>2, <2>3, PowersMeet
  <2>5. da % 8 = da /\ Gain % 32 = Gain
    BY <2>4 DEF BestGains
  <2>6. NewAttenuation = da /\ NewGain = Gain
    BY <2>5 DEF NewAttenuation, NewGain, da
  <2> QED BY <1>3, <2>1, <2>4, <2>6 DEF PowerOf, MIX_DA_FACTOR, BestGains
<1> QED BY <1>4, <1>5

\* The byte of TX_POWER that is written has the power of the byte before,
\* changed by what was asked for, and one of the best gains, whenever a byte
\* has both: for every byte and every difference of temperature.
THEOREM PowerIsKept == Spec => []PowerKept
<1>1. ASSUME Init PROVE PowerInv
  BY <1>1 DEF Init, None, PowerInv
<1>2. ASSUME PowerInv, [Next]_calc PROVE PowerInv'
  <2>1. CASE Call
    BY <1>2, <2>1, CallStep
  <2>2. CASE Look
    <3>1. "fn" \in DOMAIN calc' /\ calc'.fn = "bias"
      BY <1>2, <2>2 DEF Look, Runs, PowerInv
    <3> QED BY <3>1, OtherKept
  <2>3. CASE Test
    <3>1. "fn" \in DOMAIN calc' /\ calc'.fn = "bandwidth"
      BY <1>2, <2>3 DEF Test, Runs, PowerInv
    <3> QED BY <3>1, OtherKept
  <2>4. CASE LowerAttenuation \/ RaiseAttenuation \/ Settle
    BY <1>2, <2>4, LoopStep DEF LowerAttenuation, RaiseAttenuation, Settle
  <2>5. CASE Return
    BY <2>5, OtherKept DEF Return, None
  <2>6. CASE calc' = calc
    BY <1>2, <2>6 DEF PowerInv, OneWay, Balanced, Ended, Gain
  <2> QED BY <1>2, <2>1, <2>2, <2>3, <2>4, <2>5, <2>6 DEF Next
<1>3. PowerInv => PowerKept
  BY PowerOfByte
<1> QED BY <1>1, <1>2, <1>3, PTL DEF Spec

\* What a computation is known to be by: its function.
Known == "fn" \in DOMAIN calc

\* A step is one of the computation under way, the start of one, or none.
LEMMA Elsewhere ==
    ASSUME Known, [Next]_calc
    PROVE  /\ Known'
           /\ calc'.fn = "bias" /\ calc' # calc =>
                 \/ Look
                 \/ \E chan \in Channels, prf \in {DWT_PRF_16M, DWT_PRF_64M}, q \in Quarters:
                       GetRangeBias(chan, prf, q)
           /\ calc'.fn = "bandwidth" /\ calc' # calc =>
                 \/ Test
                 \/ \E count \in Counts, target \in Targets: CalcBandwidthTempAdj(count, target)
           /\ calc'.fn = "power" /\ calc' # calc =>
                 \/ LowerAttenuation \/ RaiseAttenuation \/ Settle
                 \/ \E chan \in {2, 5}, delta \in Deltas, byte \in Bytes:
                       CalcPowerTempAdj(chan, delta, byte)
           /\ calc'.fn = "exchange" /\ calc' # calc =>
                 \E time, offset \in Times, flight \in Flights: Exchange(time, flight, offset)
<1>1. ASSUME NEW chan \in Channels, NEW prf \in {DWT_PRF_16M, DWT_PRF_64M}, NEW q \in Quarters,
             GetRangeBias(chan, prf, q)
      PROVE  Known' /\ calc'.fn = "bias"
  BY <1>1 DEF GetRangeBias, Known
<1>3. ASSUME NEW count \in Counts, NEW target \in Targets, CalcBandwidthTempAdj(count, target)
      PROVE  Known' /\ calc'.fn = "bandwidth"
  BY <1>3 DEF CalcBandwidthTempAdj, Known
<1>4. ASSUME NEW chan \in {2, 5}, NEW delta \in Deltas, NEW byte \in Bytes,
             CalcPowerTempAdj(chan, delta, byte)
      PROVE  Known' /\ calc'.fn = "power"
  BY <1>4 DEF CalcPowerTempAdj, Known
<1>5. ASSUME NEW time \in Times, NEW offset \in Times, NEW flight \in Flights,
             Exchange(time, flight, offset)
      PROVE  Known' /\ calc'.fn = "exchange"
  BY <1>5 DEF Exchange, Known
<1>6. ASSUME Look PROVE Known' /\ calc'.fn = "bias"
  BY <1>6 DEF Look, Runs, Known
<1>7. ASSUME Test PROVE Known' /\ calc'.fn = "bandwidth"
  BY <1>7 DEF Test, Runs, Known
<1>8. ASSUME LowerAttenuation PROVE Known' /\ calc'.fn = "power"
  BY <1>8 DEF LowerAttenuation, Runs, Known
<1>9. ASSUME RaiseAttenuation PROVE Known' /\ calc'.fn = "power"
  BY <1>9 DEF RaiseAttenuation, Runs, Known
<1>10. ASSUME Settle PROVE Known' /\ calc'.fn = "power"
  BY <1>10 DEF Settle, Runs, Known
<1>11. ASSUME Return PROVE Known' /\ calc'.fn = "none"
  BY <1>11 DEF Return, None, Known
<1> DEFINE A == \E chan \in Channels, prf \in {DWT_PRF_16M, DWT_PRF_64M}, q \in Quarters:
                   GetRangeBias(chan, prf, q)
           C == \E count \in Counts, target \in Targets: CalcBandwidthTempAdj(count, target)
           D == \E chan \in {2, 5}, delta \in Deltas, byte \in Bytes: CalcPowerTempAdj(chan, delta, byte)
           E == \E time, offset \in Times, flight \in Flights: Exchange(time, flight, offset)
<1>12. /\ A => Known' /\ calc'.fn = "bias"
       /\ C => Known' /\ calc'.fn = "bandwidth"
       /\ D => Known' /\ calc'.fn = "power"
       /\ E => Known' /\ calc'.fn = "exchange"
  BY <1>1, <1>3, <1>4, <1>5
<1>13. \/ calc' = calc \/ A \/ C \/ D \/ E
       \/ Look \/ Test \/ LowerAttenuation \/ RaiseAttenuation \/ Settle \/ Return
  BY DEF Next, Call
<1>14. calc' = calc => Known'
  BY DEF Known
<1> HIDE DEF A, C, D, E
<1>15. /\ Known'
       /\ calc'.fn = "bias" /\ calc' # calc => Look \/ A
       /\ calc'.fn = "bandwidth" /\ calc' # calc => Test \/ C
       /\ calc'.fn = "power" /\ calc' # calc => LowerAttenuation \/ RaiseAttenuation \/ Settle \/ D
       /\ calc'.fn = "exchange" /\ calc' # calc => E
  <2> DEFINE f == calc'.fn
  <2> HIDE DEF f
  <2>1. /\ A => Known' /\ f = "bias"
        /\ C => Known' /\ f = "bandwidth"
        /\ D => Known' /\ f = "power"
        /\ E => Known' /\ f = "exchange"
        /\ Look => Known' /\ f = "bias"
        /\ Test => Known' /\ f = "bandwidth"
        /\ LowerAttenuation \/ RaiseAttenuation \/ Settle => Known' /\ f = "power"
        /\ Return => Known' /\ f = "none"
    BY <1>6, <1>7, <1>8, <1>9, <1>10, <1>11, <1>12 DEF f
  <2>2. /\ Known'
        /\ f = "bias" /\ calc' # calc => Look \/ A
        /\ f = "bandwidth" /\ calc' # calc => Test \/ C
        /\ f = "power" /\ calc' # calc => LowerAttenuation \/ RaiseAttenuation \/ Settle \/ D
        /\ f = "exchange" /\ calc' # calc => E
    BY <2>1, <1>13, <1>14
  <2> QED
    BY <2>2 DEF f
<1> QED
  BY <1>15 DEF A, C, D, E

-----------------------------------------------------------------------------
(* The range bias.                                                         *)

\* A row does not fall and ends in 255.
RowFits(row) ==
    /\ row \in Seq(Int) /\ row # <<>>
    /\ row[Len(row)] = 255
    /\ \A j, k \in 1..Len(row): j <= k => row[j] <= row[k]

\* Every row of the four tables of deca_range_tables.c ends in 255 and is sorted.
LEMMA RowsFit ==
    /\ \A r \in 1..4: RowFits(range25cm16PRFnb[r]) /\ RowFits(range25cm64PRFnb[r])
    /\ \A r \in 1..2: RowFits(range25cm16PRFwb[r]) /\ RowFits(range25cm64PRFwb[r])
<1>1. RowFits(range25cm16PRFnb[1]) BY DEF RowFits, range25cm16PRFnb
<1>2. RowFits(range25cm16PRFnb[2]) BY DEF RowFits, range25cm16PRFnb
<1>3. RowFits(range25cm16PRFnb[3]) BY DEF RowFits, range25cm16PRFnb
<1>4. RowFits(range25cm16PRFnb[4]) BY DEF RowFits, range25cm16PRFnb
<1>5. RowFits(range25cm64PRFnb[1]) BY DEF RowFits, range25cm64PRFnb
<1>6. RowFits(range25cm64PRFnb[2]) BY DEF RowFits, range25cm64PRFnb
<1>7. RowFits(range25cm64PRFnb[3]) BY DEF RowFits, range25cm64PRFnb
<1>8. RowFits(range25cm64PRFnb[4]) BY DEF RowFits, range25cm64PRFnb
<1>9. RowFits(range25cm16PRFwb[1]) BY DEF RowFits, range25cm16PRFwb
<1>10. RowFits(range25cm16PRFwb[2]) BY DEF RowFits, range25cm16PRFwb
<1>11. RowFits(range25cm64PRFwb[1]) BY DEF RowFits, range25cm64PRFwb
<1>12. RowFits(range25cm64PRFwb[2]) BY DEF RowFits, range25cm64PRFwb
<1> QED
  BY <1>1, <1>2, <1>3, <1>4, <1>5, <1>6, <1>7, <1>8, <1>9, <1>10, <1>11, <1>12

\* The row for a channel and a frequency is one of them.
LEMMA BiasRowFits ==
    ASSUME NEW chan \in Channels, NEW prf \in {DWT_PRF_16M, DWT_PRF_64M}
    PROVE  RowFits(BiasRow(chan, prf))
<1>1. chan_idxnb[chan + 1] \in 0..3 /\ chan_idxwb[chan + 1] \in 0..1
  BY DEF Channels, chan_idxnb, chan_idxwb
<1>2. CASE WideBand(chan)
  BY <1>1, <1>2, RowsFit DEF BiasRow, At
<1>3. CASE ~WideBand(chan)
  BY <1>1, <1>3, RowsFit DEF BiasRow, At
<1> QED
  BY <1>2, <1>3

Lookups == [fn: {"bias"}, done: BOOLEAN, chan: Channels, prf: {DWT_PRF_16M, DWT_PRF_64M},
            quarters: Int, i: Nat]

\* The entries passed are below the range, and where the search ends they end.
BiasInv ==
    calc.fn = "bias" =>
        /\ calc \in Lookups
        /\ calc.quarters <= 255
        /\ calc.i + 1 \in 1..Len(Row)
        /\ \A k \in 1..calc.i: Row[k] < calc.quarters
        /\ calc.done => calc.quarters <= Row[calc.i + 1]

\* The rows passed so far were smaller than what is looked up.
LEMMA BiasStep ==
    ASSUME Known, BiasInv, [Next]_calc
    PROVE  BiasInv'
<1>1. ASSUME NEW chan \in Channels, NEW prf \in {DWT_PRF_16M, DWT_PRF_64M}, NEW q \in Quarters,
             GetRangeBias(chan, prf, q)
      PROVE  BiasInv'
  <2> DEFINE quarters == IF q > 255 THEN 255 ELSE q
  <2>1. quarters \in Int /\ quarters <= 255
    BY CalcAssumption
  <2>2. calc' = [fn |-> "bias", done |-> FALSE, chan |-> chan, prf |-> prf,
                 quarters |-> quarters, i |-> 0]
    BY <1>1 DEF GetRangeBias
  <2> HIDE DEF quarters
  <2>3. /\ calc' \in Lookups /\ ~calc'.done /\ calc'.i = 0 /\ calc'.quarters = quarters
        /\ calc'.chan = chan /\ calc'.prf = prf
    BY <2>1, <2>2 DEF Lookups
  <2>4. Row' = BiasRow(chan, prf)
    BY <2>3 DEF Row
  <2>5. RowFits(Row')
    BY <2>4, BiasRowFits
  <2>6. Len(Row') \in Nat /\ Len(Row') >= 1
    BY <2>5 DEF RowFits
  <2> QED
    BY <2>1, <2>3, <2>6 DEF BiasInv
<1>2. ASSUME Look PROVE BiasInv'
  <2>1. /\ calc.fn = "bias" /\ ~calc.done
        /\ calc' = IF Beyond THEN [calc EXCEPT !.i = @ + 1] ELSE [calc EXCEPT !.done = TRUE]
    BY <1>2 DEF Look, Runs
  <2>2. /\ calc \in Lookups /\ calc.quarters <= 255
        /\ calc.i + 1 \in 1..Len(Row)
        /\ \A k \in 1..calc.i: Row[k] < calc.quarters
    BY <2>1 DEF BiasInv
  <2>3. /\ calc.chan \in Channels /\ calc.prf \in {DWT_PRF_16M, DWT_PRF_64M}
        /\ calc.i \in Nat /\ calc.quarters \in Int
    BY <2>2 DEF Lookups
  <2>4. RowFits(Row)
    BY <2>3, BiasRowFits DEF Row
  <2>5. /\ Len(Row) \in Nat /\ Row[Len(Row)] = 255
        /\ \A k \in 1..Len(Row): Row[k] \in Int
    BY <2>4 DEF RowFits
  <2>6. Beyond <=> calc.quarters > Row[calc.i + 1]
    BY DEF Beyond, At
  <2>7. CASE Beyond
    <3>1. calc' = [calc EXCEPT !.i = calc.i + 1]
      BY <2>1, <2>7
    <3>2. /\ calc' \in Lookups /\ calc'.i = calc.i + 1 /\ ~calc'.done
          /\ calc'.quarters = calc.quarters /\ calc'.chan = calc.chan /\ calc'.prf = calc.prf
      BY <2>1, <2>2, <2>3, <3>1 DEF Lookups
    <3>3. Row' = Row
      BY <3>2 DEF Row
    <3>4. calc.i + 1 # Len(Row)
      BY <2>2, <2>3, <2>5, <2>6, <2>7
    <3>5. calc.i + 2 \in 1..Len(Row)
      BY <2>2, <2>3, <2>5, <3>4
    <3>6. \A k \in 1..calc.i + 1: Row[k] < calc.quarters
      BY <2>2, <2>3, <2>6, <2>7
    <3> QED
      BY <2>2, <2>3, <3>2, <3>3, <3>5, <3>6 DEF BiasInv
  <2>8. CASE ~Beyond
    <3>1. calc' = [calc EXCEPT !.done = TRUE]
      BY <2>1, <2>8
    <3>2. /\ calc' \in Lookups /\ calc'.i = calc.i
          /\ calc'.quarters = calc.quarters /\ calc'.chan = calc.chan /\ calc'.prf = calc.prf
      BY <2>1, <2>2, <3>1 DEF Lookups
    <3>3. Row' = Row
      BY <3>2 DEF Row
    <3>4. calc.quarters <= Row[calc.i + 1]
      BY <2>2, <2>3, <2>5, <2>6, <2>8
    <3> QED
      BY <2>2, <3>2, <3>3, <3>4 DEF BiasInv
  <2> QED
    BY <2>7, <2>8
<1>3. calc' = calc => BiasInv'
  BY DEF BiasInv, Row
<1>4. calc'.fn # "bias" => BiasInv'
  BY DEF BiasInv
<1> QED
  BY <1>1, <1>2, <1>3, <1>4, Elsewhere

\* A row found that way is the first one that is not smaller.
LEMMA BiasIsFound == BiasInv => BiasFound
<1> SUFFICES ASSUME BiasInv, calc.fn = "bias"
             PROVE  BiasFound
  BY DEF BiasFound, LookupInRow
<1>1. /\ calc \in Lookups /\ calc.i + 1 \in 1..Len(Row)
      /\ \A k \in 1..calc.i: Row[k] < calc.quarters
      /\ calc.done => calc.quarters <= Row[calc.i + 1]
  BY DEF BiasInv
<1>2. calc.i \in Nat /\ calc.quarters \in Int /\ RowFits(Row)
  BY <1>1, BiasRowFits DEF Lookups, Row
<1>3. /\ Len(Row) \in Nat /\ DOMAIN Row = 1..Len(Row)
      /\ \A k \in 1..Len(Row): Row[k] \in Int
      /\ \A j, k \in 1..Len(Row): j <= k => Row[j] <= Row[k]
  BY <1>2 DEF RowFits
<1>4. LookupInRow
  BY <1>1, <1>2, <1>3 DEF LookupInRow
<1>5. ASSUME calc.done
      PROVE  calc.i = Cardinality({k \in DOMAIN Row: Row[k] < calc.quarters})
  <2>1. ASSUME NEW k \in 1..Len(Row), Row[k] < calc.quarters
        PROVE  k \in 1..calc.i
    <3>1. calc.quarters <= Row[calc.i + 1]
      BY <1>1, <1>5
    <3>2. ~(calc.i + 1 <= k)
      BY <1>1, <1>2, <1>3, <2>1, <3>1
    <3> QED
      BY <1>2, <2>1, <3>2
  <2>2. {k \in DOMAIN Row: Row[k] < calc.quarters} = 1..calc.i
    BY <1>1, <1>2, <1>3, <2>1
  <2>3. Cardinality(1..calc.i) = calc.i
    BY <1>2, FS_Interval
  <2> QED
    BY <2>2, <2>3
<1> QED
  BY <1>4, <1>5 DEF BiasFound

\* dwt_getrangebias never looks beyond the end of a row, and the bias it finds is
\* one centimetre for each entry that the range exceeds: for every range, channel
\* and frequency.
THEOREM BiasIsRight == Spec => []BiasFound
<1>1. Init => Known /\ BiasInv
  BY DEF Init, None, Known, BiasInv
<1>2. Known /\ BiasInv /\ [Next]_calc => Known' /\ BiasInv'
  BY Elsewhere, BiasStep
<1> QED
  BY <1>1, <1>2, BiasIsFound, PTL DEF Spec

-----------------------------------------------------------------------------
(* The bandwidth over temperature.                                         *)

Searches == [fn: {"bandwidth"}, done: BOOLEAN, count: Counts, target: Int,
             bw: 128..255, bit: {1, 2, 4, 8, 16, 32, 64, 128}, best: Nat, lowest: Int]

\* What has not been tried lies between bw and the bit after it.  Of the rest
\* nothing is nearer to the target than the best setting so far.
SearchInv ==
    calc.fn = "bandwidth" =>
        /\ calc \in Searches
        /\ calc.done <=> calc.bit = 1
        /\ calc.bw + calc.bit <= 256
        /\ \A bw \in 129..255: bw <= calc.bw \/ bw >= calc.bw + calc.bit =>
              calc.lowest <= Distance(calc.count[bw], calc.target)
        /\ \/ calc.best = 0 /\ calc.lowest = LargestDifference
           \/ /\ calc.best \in 129..255 /\ calc.lowest < LargestDifference
              /\ calc.lowest = Distance(calc.count[calc.best], calc.target)

\* What was tried is on the right side, and the best of it is remembered.
LEMMA SearchStep ==
    ASSUME Known, SearchInv, [Next]_calc
    PROVE  SearchInv'
<1>1. ASSUME NEW count \in Counts, NEW target \in Targets, CalcBandwidthTempAdj(count, target)
      PROVE  SearchInv'
  <2>1. calc' = [fn |-> "bandwidth", done |-> FALSE, count |-> count, target |-> target,
                 bw |-> 128, bit |-> 128, best |-> 0, lowest |-> LargestDifference]
    BY <1>1 DEF CalcBandwidthTempAdj
  <2>2. /\ calc' \in Searches /\ ~calc'.done /\ calc'.bw = 128 /\ calc'.bit = 128
        /\ calc'.best = 0 /\ calc'.lowest = LargestDifference
    BY <2>1, CalcAssumption DEF Searches, LargestDifference
  <2> QED
    BY <2>2 DEF SearchInv
<1>2. ASSUME Test PROVE SearchInv'
  <2>1. calc.fn = "bandwidth" /\ ~calc.done
    BY <1>2 DEF Test, Runs
  <2>2. /\ calc \in Searches /\ calc.bw + calc.bit <= 256
        /\ \A bw \in 129..255: bw <= calc.bw \/ bw >= calc.bw + calc.bit =>
              calc.lowest <= Distance(calc.count[bw], calc.target)
        /\ \/ calc.best = 0 /\ calc.lowest = LargestDifference
           \/ /\ calc.best \in 129..255 /\ calc.lowest < LargestDifference
              /\ calc.lowest = Distance(calc.count[calc.best], calc.target)
    BY <2>1 DEF SearchInv
  <2>3. /\ calc.count \in Counts /\ calc.target \in Int /\ calc.bw \in 128..255
        /\ calc.bit \in {1, 2, 4, 8, 16, 32, 64, 128} /\ calc.best \in Nat /\ calc.lowest \in Int
    BY <2>2 DEF Searches
  <2> DEFINE bit == calc.bit \div 2
             bw == calc.bw + bit
             raw == calc.count[bw]
             delta == Distance(raw, calc.target)
             near == delta < calc.lowest
             newbw == IF raw > calc.target THEN bw ELSE calc.bw
             best == IF near THEN bw ELSE calc.best
             lowest == IF near THEN delta ELSE calc.lowest
             last == bit = 1
  <2>4. /\ bit \in {1, 2, 4, 8, 16, 32, 64} /\ 2 * bit = calc.bit
        /\ bw = calc.bw + bit /\ bw \in 129..255 /\ bw + bit <= 256
    BY <2>1, <2>2, <2>3 DEF SearchInv
  <2>5. /\ calc.count \in [128..255 -> Int]
        /\ \A a, b \in 128..255: a <= b => calc.count[a] >= calc.count[b]
    <3> DEFINE count == calc.count
    <3>1. count \in Counts
      BY <2>3
    <3> HIDE DEF count
    <3>2. /\ count \in [128..255 -> Int]
          /\ \A a, b \in 128..255: a <= b => count[a] >= count[b]
      BY <3>1, CountsFall
    <3> QED
      BY <3>2 DEF count
  <2>n. newbw = IF raw > calc.target THEN bw ELSE bw - bit
    BY <2>3, <2>4
  <2>7. calc' = [calc EXCEPT !.bit = bit, !.done = last, !.bw = newbw, !.best = best,
                             !.lowest = lowest]
    BY <1>2, <2>n DEF Test
  <2> HIDE DEF bit, bw
  <2>t. calc.count \in [128..255 -> Int] /\ bw \in 128..255
    <3>1. bw \in 128..255
      BY <2>4
    <3> QED
      BY <2>5, <3>1
  <2>r. raw \in Int
    BY <2>t
  <2> HIDE DEF raw
  <2>6. delta \in Int
    BY <2>3, <2>r DEF Distance
  <2> HIDE DEF delta
  <2>8. /\ newbw \in 128..255 /\ newbw + bit <= 256 /\ best \in Nat /\ lowest \in Int
        /\ last \in BOOLEAN
    BY <2>2, <2>3, <2>4, <2>r, <2>6
  <2> HIDE DEF newbw, best, lowest, last
  <2>e. calc'.fn = "bandwidth" /\ DOMAIN calc' = DOMAIN calc
    BY <2>2, <2>7 DEF Searches
  <2>10. /\ calc'.bit = bit /\ calc'.done = last /\ calc'.bw = newbw /\ calc'.best = best
         /\ calc'.lowest = lowest /\ calc'.count = calc.count /\ calc'.target = calc.target
    BY <2>2, <2>7 DEF Searches
  <2>f. /\ DOMAIN calc' = {"fn", "done", "count", "target", "bw", "bit", "best", "lowest"}
        /\ calc' = [x \in DOMAIN calc' |-> calc'[x]] /\ calc'.fn = "bandwidth"
    <3>1. DOMAIN calc = {"fn", "done", "count", "target", "bw", "bit", "best", "lowest"}
      BY <2>2 DEF Searches
    <3>2. calc' = [x \in DOMAIN calc' |-> calc'[x]]
      BY <2>7
    <3> QED
      BY <2>e, <3>1, <3>2
  <2>9. calc' \in Searches
    <3> DEFINE Bits == {1, 2, 4, 8, 16, 32, 64, 128}
    <3>1. bit \in Bits
      BY <2>4
    <3>2. Searches = [fn: {"bandwidth"}, done: BOOLEAN, count: Counts, target: Int,
                      bw: 128..255, bit: Bits, best: Nat, lowest: Int]
      BY DEF Searches
    <3>3. newbw \in 128..255
      BY <2>8
    <3>4. best \in Nat /\ lowest \in Int /\ last \in BOOLEAN
      BY <2>8
    <3> HIDE DEF Bits
    <3>5. calc.count \in Counts /\ calc.target \in Int
      BY <2>3
    <3>6. calc' = [fn |-> "bandwidth", done |-> last, count |-> calc.count,
                   target |-> calc.target, bw |-> newbw, bit |-> bit, best |-> best,
                   lowest |-> lowest]
      BY <2>f, <2>10
    <3> QED
      BY <3>1, <3>2, <3>3, <3>4, <3>5, <3>6
  <2>11. lowest <= calc.lowest /\ lowest <= delta
    BY <2>3, <2>6 DEF lowest
  <2>12. ASSUME NEW b \in 129..255, b <= newbw \/ b >= newbw + bit
         PROVE  lowest <= Distance(calc.count[b], calc.target)
    <3>1. calc.count[b] \in Int
      <4>1. b \in 128..255
        BY <2>12
      <4> QED
        BY <2>5, <4>1
    <3>2. CASE b <= calc.bw \/ b >= calc.bw + calc.bit
      <4>1. calc.lowest <= Distance(calc.count[b], calc.target)
        BY <2>2, <3>2
      <4>2. Distance(calc.count[b], calc.target) \in Int
        BY <2>3, <3>1 DEF Distance
      <4> QED
        BY <2>3, <2>8, <2>11, <4>1, <4>2
    <3>3. CASE b > calc.bw /\ b < calc.bw + calc.bit /\ raw > calc.target
      <4>1. newbw = bw
        BY <3>3 DEF newbw
      <4>2. b <= bw
        BY <2>3, <2>4, <2>12, <3>3, <4>1
      <4>3. calc.count[b] >= raw
        <5>1. b \in 128..255 /\ bw \in 128..255
          BY <2>4, <2>12
        <5> QED
          BY <2>5, <4>2, <5>1 DEF raw
      <4>4. delta <= Distance(calc.count[b], calc.target)
        BY <2>3, <2>r, <3>1, <3>3, <4>3 DEF Distance, delta
      <4>5. Distance(calc.count[b], calc.target) \in Int
        BY <2>3, <3>1 DEF Distance
      <4> QED
        BY <2>6, <2>8, <2>11, <4>4, <4>5
    <3>4. CASE b > calc.bw /\ b < calc.bw + calc.bit /\ ~(raw > calc.target)
      <4>1. newbw = calc.bw
        BY <3>4 DEF newbw
      <4>2. b >= bw
        BY <2>3, <2>4, <2>12, <3>4, <4>1
      <4>3. calc.count[b] <= raw
        <5>1. b \in 128..255 /\ bw \in 128..255
          BY <2>4, <2>12
        <5>2. raw >= calc.count[b]
          BY <2>5, <4>2, <5>1 DEF raw
        <5> QED
          BY <2>r, <3>1, <5>2
      <4>4. delta <= Distance(calc.count[b], calc.target)
        BY <2>3, <2>r, <3>1, <3>4, <4>3 DEF Distance, delta
      <4>5. Distance(calc.count[b], calc.target) \in Int
        BY <2>3, <3>1 DEF Distance
      <4> QED
        BY <2>6, <2>8, <2>11, <4>4, <4>5
    <3>5. calc.bw \in Int /\ calc.bw + calc.bit \in Int /\ b \in Int
      BY <2>3
    <3>6. \/ b <= calc.bw \/ b >= calc.bw + calc.bit
          \/ b > calc.bw /\ b < calc.bw + calc.bit
      BY <3>5
    <3> QED
      BY <3>2, <3>3, <3>4, <3>6
  <2>13. \/ best = 0 /\ lowest = LargestDifference
         \/ /\ best \in 129..255 /\ lowest < LargestDifference
            /\ lowest = Distance(calc.count[best], calc.target)
    <3>1. CASE near
      <4>1. best = bw /\ lowest = delta /\ delta < calc.lowest
        BY <3>1 DEF best, lowest
      <4>2. calc.lowest <= LargestDifference
        BY <2>2, <2>3 DEF LargestDifference
      <4>3. lowest < LargestDifference
        BY <2>3, <2>6, <4>1, <4>2 DEF LargestDifference
      <4>4. best \in 129..255
        BY <2>4, <4>1
      <4>5. lowest = Distance(calc.count[best], calc.target)
        BY <4>1 DEF delta, raw
      <4> QED
        BY <4>3, <4>4, <4>5
    <3>2. CASE ~near
      <4>1. best = calc.best /\ lowest = calc.lowest
        BY <3>2 DEF best, lowest
      <4> QED
        BY <2>2, <4>1
    <3> QED
      BY <3>1, <3>2
  <2>14. calc'.done <=> calc'.bit = 1
    BY <2>10 DEF last
  <2>15. \A b \in 129..255: b <= calc'.bw \/ b >= calc'.bw + calc'.bit =>
            calc'.lowest <= Distance(calc'.count[b], calc'.target)
    BY <2>10, <2>12
  <2> QED
    BY <2>e, <2>8, <2>9, <2>10, <2>13, <2>14, <2>15 DEF SearchInv
<1>3. calc' = calc => SearchInv'
  BY DEF SearchInv
<1>4. calc'.fn # "bandwidth" => SearchInv'
  BY DEF SearchInv
<1> QED
  BY <1>1, <1>2, <1>3, <1>4, Elsewhere

\* No bandwidth is nearer to the count asked for than the best one.
LEMMA SearchFinds == SearchInv => BestBandwidth
<1> DEFINE Off(bw) == Distance(calc.count[bw], calc.target)
<1> SUFFICES ASSUME SearchInv, calc.fn = "bandwidth", calc.done
             PROVE  IF \E bw \in 129..255: Off(bw) < LargestDifference
                    THEN calc.best \in 129..255 /\ \A bw \in 129..255: Off(calc.best) <= Off(bw)
                    ELSE calc.best = 0
  BY DEF BestBandwidth
<1>1. /\ calc \in Searches /\ calc.bit = 1
      /\ \A bw \in 129..255: bw <= calc.bw \/ bw >= calc.bw + calc.bit => calc.lowest <= Off(bw)
      /\ \/ calc.best = 0 /\ calc.lowest = LargestDifference
         \/ /\ calc.best \in 129..255 /\ calc.lowest < LargestDifference
            /\ calc.lowest = Off(calc.best)
  BY DEF SearchInv
<1>2. /\ calc.bw \in 128..255 /\ calc.lowest \in Int /\ calc.target \in Int
      /\ calc.count \in [128..255 -> Int]
  <2>1. /\ calc.bw \in 128..255 /\ calc.lowest \in Int /\ calc.target \in Int
        /\ calc.count \in Counts
    BY <1>1 DEF Searches
  <2> DEFINE count == calc.count
  <2>2. count \in Counts
    BY <2>1
  <2> HIDE DEF count
  <2>3. count \in [128..255 -> Int]
    BY <2>2, CountsFall
  <2> QED
    BY <2>1, <2>3 DEF count
<1>3. ASSUME NEW bw \in 129..255 PROVE Off(bw) \in Int
  <2>1. bw \in 128..255
    OBVIOUS
  <2>2. calc.count[bw] \in Int
    BY <1>2, <2>1
  <2> QED
    BY <1>2, <2>2 DEF Distance
<1> HIDE DEF Off
<1>4. ASSUME NEW bw \in 129..255 PROVE calc.lowest <= Off(bw)
  <2>1. calc.bw \in Int /\ calc.bit = 1
    BY <1>1, <1>2
  <2>2. bw <= calc.bw \/ bw >= calc.bw + calc.bit
    BY <2>1
  <2> QED
    BY <1>1, <2>2
<1>5. CASE calc.best = 0 /\ calc.lowest = LargestDifference
  <2>1. ~\E bw \in 129..255: Off(bw) < LargestDifference
    BY <1>3, <1>4, <1>5 DEF LargestDifference
  <2> QED
    BY <1>5, <2>1
<1>6. CASE calc.best \in 129..255 /\ calc.lowest < LargestDifference /\ calc.lowest = Off(calc.best)
  <2>1. \E bw \in 129..255: Off(bw) < LargestDifference
    BY <1>6
  <2> QED
    BY <1>4, <1>6, <2>1
<1> QED
  BY <1>1, <1>5, <1>6

\* dwt_calcbandwidthtempadj finds a setting as near to the target as any, if one is
\* near enough, having tried seven of 127: for every count that does not rise.
THEOREM BestIsFound == Spec => []BestBandwidth
<1>1. Init => Known /\ SearchInv
  BY DEF Init, None, Known, SearchInv
<1>2. Known /\ SearchInv /\ [Next]_calc => Known' /\ SearchInv'
  BY Elsewhere, SearchStep
<1> QED
  BY <1>1, <1>2, SearchFinds, PTL DEF Spec

-----------------------------------------------------------------------------
(* The timestamps of an exchange.                                          *)

\* Division with remainder, and its uniqueness.
LEMMA Remainder ==
    ASSUME NEW a \in Int, NEW m \in Nat \ {0}
    PROVE  /\ a % m \in Int /\ 0 <= a % m /\ a % m < m
           /\ \E k \in Int: a = k * m + (a % m)
<1>1. a \div m \in Int /\ a = (a \div m) * m + (a % m)
  OBVIOUS
<1>2. a % m \in Int /\ 0 <= a % m /\ a % m < m
  OBVIOUS
<1> QED
  BY <1>1, <1>2

\* The remainder of a number that is r and some multiples.
LEMMA RemainderIs ==
    ASSUME NEW r \in Int, NEW m \in Nat \ {0}, NEW k \in Int, 0 <= r, r < m
    PROVE  (r + k * m) % m = r
OBVIOUS

\* A difference of two remainders has the remainder of the difference.
LEMMA Difference ==
    ASSUME NEW a \in Int, NEW b \in Int, NEW m \in Nat \ {0}, NEW r \in Int, NEW k \in Int,
           0 <= r, r < m, a - b = r + k * m
    PROVE  ((a % m) - (b % m)) % m = r
<1>1. PICK i \in Int: a = i * m + (a % m)
  BY Remainder
<1>2. PICK j \in Int: b = j * m + (b % m)
  BY Remainder
<1>3. a % m \in Int /\ b % m \in Int
  BY Remainder
<1> DEFINE u == a % m
           v == b % m
<1>4. u \in Int /\ v \in Int /\ a = i * m + u /\ b = j * m + v
  BY <1>1, <1>2, <1>3
<1> HIDE DEF u, v
<1>5. u - v = r + (k - i + j) * m
  <2>1. (k - i + j) * m = k * m - i * m + j * m
    OBVIOUS
  <2>2. k * m \in Int /\ i * m \in Int /\ j * m \in Int
    OBVIOUS
  <2> HIDE DEF u
  <2> QED
    BY <1>4, <2>1, <2>2
<1>6. k - i + j \in Int
  OBVIOUS
<1>7. (u - v) % m = r
  BY <1>5, <1>6, RemainderIs
<1> QED
  BY <1>7 DEF u, v

\* The counters have at least two digits.
LEMMA Sizes ==
    /\ Lower \in Nat \ {0} /\ Wrap \in Nat \ {0} /\ Wrap = Base * Lower /\ Lower <= Wrap
<1>1. Base \in Nat /\ Base > 1
  BY CalcAssumption
<1>2. ASSUME NEW a \in Nat \ {0} PROVE a * Base \in Nat \ {0} /\ a <= a * Base
  BY <1>1
<1>3. Base * Base \in Nat \ {0}
  BY <1>1, <1>2
<1>4. Base * Base * Base \in Nat \ {0}
  BY <1>2, <1>3
<1>5. Lower \in Nat \ {0}
  BY <1>2, <1>4 DEF Lower
<1>6. Lower * Base = Base * Lower
  BY <1>1, <1>5
<1> QED
  BY <1>2, <1>5, <1>6 DEF Wrap

\* The delay until a response is sent: the one asked for, but for the digit that cannot
\* be programmed and the bit that is cleared.
LEMMA Delays ==
    ASSUME NEW time \in Int, NEW flight \in Flights
    PROVE  LET ts == time % Wrap
               dt == TS_TO_DT(ts + ReplyDelay)
               wait == (DT_TO_TS(dt) - ts) % Wrap
           IN  /\ ts \in Int /\ dt \in Int /\ DT_TO_TS(dt) \in Int
               /\ wait \in ReplyDelay - 2 * Base + 1..ReplyDelay
               /\ 0 <= wait /\ wait + AntennaDelay + 2 * flight < Lower
               /\ \E k \in Int: DT_TO_TS(dt) - ts = wait + k * Wrap
<1> DEFINE ts == time % Wrap
           sum == ts + ReplyDelay
           q == sum \div Base
           r == sum % Base
           x == q % Lower
           e == x % 2
           dt == TS_TO_DT(sum)
<1>1. /\ Lower \in Nat \ {0} /\ Wrap \in Nat \ {0} /\ Wrap = Base * Lower /\ Lower <= Wrap
  BY Sizes
<1>2. /\ Base \in Nat /\ Base > 1 /\ ReplyDelay \in Nat /\ AntennaDelay \in Nat
      /\ ReplyDelay >= 2 * Base /\ flight \in Nat
  BY CalcAssumption
<1>3. ReplyDelay + AntennaDelay + 2 * flight < Lower
  BY ExchangesFit
<1>4. dt = x - e
  BY DEF TS_TO_DT
<1>5. ts \in Int
  BY <1>1, Remainder
<1> HIDE DEF ts
<1>6. sum \in Int
  BY <1>2, <1>5
<1>7. /\ q \in Int /\ r \in Int /\ 0 <= r /\ r < Base /\ sum = q * Base + r
  <2> HIDE DEF sum
  <2> QED
    BY <1>2, <1>6
<1>s. sum = ts + ReplyDelay
  OBVIOUS
<1> HIDE DEF sum, q, r
<1>8. x \in Int /\ \E k \in Int: q = k * Lower + x
  BY <1>1, <1>7, Remainder
<1>9. PICK k \in Int: q = k * Lower + x
  BY <1>8
<1> HIDE DEF x
<1>10. e \in 0..1
  BY <1>8
<1> HIDE DEF e
<1>11. dt \in Int
  BY <1>4, <1>8, <1>10
<1> DEFINE rest == ReplyDelay - r - e * Base
<1>12. rest \in ReplyDelay - 2 * Base + 1..ReplyDelay
  <2>1. CASE e = 0
    BY <1>2, <1>7, <2>1
  <2>2. CASE e = 1
    BY <1>2, <1>7, <2>2
  <2> QED
    BY <1>10, <2>1, <2>2
<1>13. DT_TO_TS(dt) - ts = rest + (-k) * Wrap
  <2>1. dt * Base = x * Base - e * Base
    BY <1>2, <1>4, <1>8, <1>10
  <2>2. q * Base = (k * Lower) * Base + x * Base
    BY <1>1, <1>2, <1>8, <1>9
  <2>3. (k * Lower) * Base = k * Wrap
    BY <1>1, <1>2
  <2>4. (-k) * Wrap = -(k * Wrap)
    BY <1>1
  <2>5. x * Base \in Int /\ e * Base \in Int /\ k * Wrap \in Int /\ q * Base \in Int
    BY <1>1, <1>2, <1>7, <1>8, <1>10
  <2> DEFINE kW == k * Wrap
             xB == x * Base
             eB == e * Base
             qB == q * Base
             dB == dt * Base
  <2>6. /\ kW \in Int /\ xB \in Int /\ eB \in Int /\ qB \in Int
        /\ dB = xB - eB /\ qB = kW + xB
    BY <2>1, <2>2, <2>3, <2>5
  <2>7. ts + ReplyDelay = qB + r
    BY <1>7, <1>s
  <2>8. DT_TO_TS(dt) = dB
    BY DEF DT_TO_TS
  <2>9. rest = ReplyDelay - r - eB
    OBVIOUS
  <2> HIDE DEF kW, xB, eB, qB, dB, rest
  <2>10. dB - ts = rest - kW
    BY <1>2, <1>5, <1>7, <2>6, <2>7, <2>9
  <2> QED
    BY <1>2, <2>4, <2>6, <2>8, <2>10, <1>12 DEF kW
<1>14. rest \in Int /\ 0 <= rest /\ rest < Wrap /\ rest + AntennaDelay + 2 * flight < Lower
  BY <1>1, <1>2, <1>3, <1>12
<1> HIDE DEF rest
<1>15. (DT_TO_TS(dt) - ts) % Wrap = rest
  <2> DEFINE j == -k
  <2>1. j \in Int /\ DT_TO_TS(dt) - ts = rest + j * Wrap
    BY <1>13
  <2> HIDE DEF j
  <2>2. (rest + j * Wrap) % Wrap = rest
    BY <1>1, <1>14, <2>1, RemainderIs
  <2> QED
    BY <2>1, <2>2
<1>16. DT_TO_TS(dt) \in Int
  BY <1>2, <1>11 DEF DT_TO_TS
<1>17. \E j \in Int: DT_TO_TS(dt) - ts = rest + j * Wrap
  <2>1. -k \in Int
    OBVIOUS
  <2> QED
    BY <1>13, <2>1
<1> HIDE DEF dt
<1> QED
  BY <1>5, <1>11, <1>12, <1>14, <1>15, <1>16, <1>17 DEF ts, dt, sum

\* Both sides of an exchange come to the same time of flight.
LEMMA ExchangeAgrees ==
    ASSUME NEW time \in Times, NEW offset \in Times, NEW flight \in Flights,
           Exchange(time, flight, offset)
    PROVE  TimesAgree'
<1> DEFINE ts == time % Wrap
           dt == TS_TO_DT(ts + ReplyDelay)
           due == DT_TO_TS(dt)
           wait == (due - ts) % Wrap
           response == Response(time)
           sent == SendingTime(time)
<1>1. /\ time \in Int /\ offset \in Int /\ flight \in Nat /\ AntennaDelay \in Nat
      /\ ReplyDelay \in Nat /\ Base \in Nat
  BY CalcAssumption
<1>2. /\ ts \in Int /\ due \in Int /\ wait \in ReplyDelay - 2 * Base + 1..ReplyDelay
      /\ 0 <= wait /\ wait + AntennaDelay + 2 * flight < Lower
      /\ \E k \in Int: due - ts = wait + k * Wrap
  BY <1>1, Delays
<1>3. /\ Lower \in Nat \ {0} /\ Base \in Nat /\ Wrap = Base * Lower
  BY <1>1, Sizes
<1>4. /\ sent = time + wait + AntennaDelay
      /\ response.poll = ts % Lower /\ response.sent = (due + AntennaDelay) % Lower
  BY DEF SendingTime, Response
<1>5. /\ calc'.flight = flight /\ calc'.interval = sent - time
      /\ calc'.tag = (((sent + flight + offset) % Lower) - ((time - flight + offset) % Lower)) % Lower
      /\ calc'.anchor = (response.sent - response.poll) % Lower
  BY DEF Exchange, Elapsed
<1> HIDE DEF ts, dt, due, wait, response, sent
<1>6. wait \in Int
  BY <1>1, <1>2
<1>7. calc'.anchor = wait + AntennaDelay
  <2>1. PICK k \in Int: due - ts = wait + k * Wrap
    BY <1>2
  <2>2. k * Wrap = (k * Base) * Lower /\ k * Base \in Int
    BY <1>3
  <2>3. (due + AntennaDelay) - ts = (wait + AntennaDelay) + (k * Base) * Lower
    <3> DEFINE kW == k * Wrap
    <3>1. kW \in Int /\ kW = (k * Base) * Lower /\ due - ts = wait + kW
      BY <1>3, <2>1, <2>2
    <3> HIDE DEF kW
    <3>2. (due + AntennaDelay) - ts = (wait + AntennaDelay) + kW
      BY <1>1, <1>2, <1>6, <3>1
    <3> QED
      BY <3>1, <3>2
  <2>4. wait + AntennaDelay \in Int /\ 0 <= wait + AntennaDelay /\ wait + AntennaDelay < Lower
    BY <1>1, <1>2, <1>3, <1>6
  <2>5. due + AntennaDelay \in Int
    BY <1>1, <1>2
  <2>6. (((due + AntennaDelay) % Lower) - (ts % Lower)) % Lower = wait + AntennaDelay
    <3> DEFINE x == due + AntennaDelay
               r == wait + AntennaDelay
               l == k * Base
    <3>1. /\ x \in Int /\ ts \in Int /\ Lower \in Nat \ {0} /\ r \in Int /\ l \in Int
          /\ 0 <= r /\ r < Lower /\ x - ts = r + l * Lower
      BY <1>2, <1>3, <2>2, <2>3, <2>4, <2>5
    <3> HIDE DEF x, r, l
    <3>2. ((x % Lower) - (ts % Lower)) % Lower = r
      BY <3>1, Difference
    <3> QED
      BY <3>2 DEF x, r
  <2> QED
    BY <1>4, <1>5, <2>6
<1>8. calc'.tag = wait + AntennaDelay + 2 * flight
  <2> DEFINE a == sent + flight + offset
             b == time - flight + offset
             c == wait + AntennaDelay + 2 * flight
             k == 0
  <2>1. a \in Int /\ b \in Int /\ c \in Int /\ 0 <= c /\ c < Lower
    BY <1>1, <1>2, <1>3, <1>4, <1>6
  <2>k. k \in Int /\ a - b = c + k * Lower
    BY <1>1, <1>2, <1>3, <1>4, <1>6
  <2> HIDE DEF a, b, c, k
  <2>2. ((a % Lower) - (b % Lower)) % Lower = c
    BY <1>3, <2>1, <2>k, Difference
  <2> QED
    BY <1>5, <2>2 DEF a, b, c
<1>9. calc'.interval = wait + AntennaDelay
  BY <1>1, <1>4, <1>5, <1>6
<1>10. calc'.interval - AntennaDelay = wait
  BY <1>1, <1>6, <1>9
<1>11. /\ calc'.anchor = calc'.interval
       /\ calc'.tag = calc'.interval + 2 * calc'.flight
       /\ calc'.interval - AntennaDelay \in ReplyDelay - 2 * Base + 1..ReplyDelay
  BY <1>2, <1>5, <1>7, <1>8, <1>9, <1>10
<1> QED
  BY <1>11 DEF TimesAgree

\* The tag and the anchor measure the same times whatever their counters show when the
\* exchange begins, wherever they wrap, and for every number of digits that is enough
\* for the length of the exchange.
THEOREM TimesDoAgree == Spec => []TimesAgree
<1>1. Init => Known /\ TimesAgree
  BY DEF Init, None, Known, TimesAgree
<1>2. Known /\ TimesAgree /\ [Next]_calc => Known' /\ TimesAgree'
  <2> SUFFICES ASSUME Known, TimesAgree, [Next]_calc
               PROVE  Known' /\ TimesAgree'
    OBVIOUS
  <2>1. calc' = calc => TimesAgree'
    BY DEF TimesAgree
  <2>2. calc'.fn # "exchange" => TimesAgree'
    BY DEF TimesAgree
  <2> QED
    BY <2>1, <2>2, ExchangeAgrees, Elsewhere
<1> QED
  BY <1>1, <1>2, PTL DEF Spec

-----------------------------------------------------------------------------
(* Lists of steps.                                                         *)

\* What is left of a list of steps from the k-th on.
Rest(s, k) == SubSeq(s, k, Len(s))

IsList(s) == \E S: s \in Seq(S)

\* The next step of a list, and what is left after it.
LEMMA RestStep ==
    ASSUME NEW S, NEW s \in Seq(S), NEW k \in 1..Len(s)
    PROVE  /\ Rest(s, k) # <<>>
           /\ Head(Rest(s, k)) = s[k]
           /\ Tail(Rest(s, k)) = Rest(s, k + 1)
<1>1. /\ Rest(s, k) \in Seq(S) /\ Len(Rest(s, k)) = Len(s) - k + 1
      /\ \A i \in 1..Len(s) - k + 1: Rest(s, k)[i] = s[k + i - 1]
  BY SubSeqProperties DEF Rest
<1>2. /\ Rest(s, k + 1) \in Seq(S) /\ Len(Rest(s, k + 1)) = Len(s) - k
      /\ \A i \in 1..Len(s) - k: Rest(s, k + 1)[i] = s[k + i]
  BY SubSeqProperties DEF Rest
<1>3. Rest(s, k) # <<>>
  BY <1>1
<1>4. Head(Rest(s, k)) = s[k]
  BY <1>1, <1>3
<1>5. Tail(Rest(s, k)) = Rest(s, k + 1)
  <2> DEFINE t == Tail(Rest(s, k))
             r == Rest(s, k + 1)
  <2>1. /\ t \in Seq(S) /\ Len(t) = Len(s) - k
        /\ \A i \in 1..Len(s) - k: t[i] = Rest(s, k)[i + 1]
    BY <1>1, <1>3, HeadTailProperties
  <2>2. ASSUME NEW i \in 1..Len(s) - k PROVE t[i] = r[i]
    <3>1. i + 1 \in 1..Len(s) - k + 1 /\ k + (i + 1) - 1 = k + i
      OBVIOUS
    <3>2. Rest(s, k)[i + 1] = s[k + i]
      BY <1>1, <3>1
    <3> QED
      BY <1>2, <2>1, <3>2
  <2> HIDE DEF t, r
  <2>3. r \in Seq(S) /\ Len(r) = Len(t)
    BY <1>2, <2>1 DEF r
  <2>4. t = r
    BY <2>1, <2>2, <2>3, SeqEqual
  <2> QED
    BY <2>4 DEF t, r
<1> QED
  BY <1>3, <1>4, <1>5

\* A list is all to come at first and over after its last step.
LEMMA RestEnds ==
    ASSUME NEW S, NEW s \in Seq(S)
    PROVE  Rest(s, 1) = s /\ Rest(s, Len(s) + 1) = <<>>
BY SubSeqProperties DEF Rest

\* A step of a list takes it to what is left of it.
LEMMA RestOf ==
    ASSUME NEW s, IsList(s), NEW k \in 1..Len(s)
    PROVE  /\ Rest(s, 1) = s /\ Rest(s, Len(s) + 1) = <<>>
           /\ Rest(s, k) # <<>> /\ Head(Rest(s, k)) = s[k] /\ Tail(Rest(s, k)) = Rest(s, k + 1)
<1> PICK S: s \in Seq(S)
  BY DEF IsList
<1> QED
  BY RestStep, RestEnds

\* The elements of what is left.
LEMMA RestElements ==
    ASSUME NEW S, NEW s \in Seq(S), NEW k \in 1..Len(s)
    PROVE  /\ Rest(s, k) \in Seq(S) /\ Len(Rest(s, k)) = Len(s) - k + 1
           /\ \A i \in 1..Len(s) - k + 1: Rest(s, k)[i] = s[k + i - 1]
BY SubSeqProperties DEF Rest

\* A list whose steps are all to come, and one without any.
LEMMA WholeList ==
    ASSUME NEW s, IsList(s)
    PROVE  Rest(s, 1) = s /\ Rest(s, Len(s) + 1) = <<>>
<1>1. PICK S: s \in Seq(S)
  BY DEF IsList
<1> QED
  BY <1>1, RestEnds

\* The services of sleep, by themselves.
LEMMA SleepRuns == ServicesSpec => Sleep!Spec
<1>1. ServicesInit => Sleep!Init
  BY DEF ServicesInit
<1>2. [ServicesNext]_services => [Sleep!Next]_(Sleep!vars)
  BY DEF ServicesNext, services, sleep, Sleep!vars, registers, clocks
<1> QED
  BY <1>1, <1>2, PTL DEF ServicesSpec, Sleep!Spec

-----------------------------------------------------------------------------
(* Sleep.                                                                  *)

SleepModes == SUBSET {"PRESRV_SLEEP", "CONFIG", "RX_EN", "ONW_LLDE"}
Controls == SUBSET {"ATXSLP", "ARXSLP", "SNOZE"}

\* The configuration the driver writes, and the one the chip took over.
Images == [wcfg: SleepModes, wake: Sleep!Wakes, tim: Nat, cen: BOOLEAN, ctrl1: Controls]

\* What the client asked for.
Wishes == [count: Nat, listening: BOOLEAN, afterTx: BOOLEAN]

SleepTypes ==
    /\ hif \in Images /\ aon \in Images
    /\ power \in {"on", "asleep"} /\ ucode \in BOOLEAN /\ irq \in BOOLEAN
    /\ sleep_mode \in {{}, {"ONW_LLDE"}}
    /\ asked \in Wishes

\* Is the microcode reloaded just as the client had it loaded?
Reloads(image) == "ONW_LLDE" \in image.wcfg <=> sleep_mode # {}

\* Does PMSC_CTRL1 hold just what the client asked for?
Exactly(bits) == /\ "ATXSLP" \in bits <=> asked.afterTx
                 /\ "ARXSLP" \in bits <=> asked.listening
                 /\ "SNOZE" \in bits <=> asked.listening

\* The functions of the driver, by what they have still to do.
Counting(n, k) ==
    /\ todo = Rest(Sleep!ConfigureSleepCnt(n), k)
    /\ power = "on" /\ ~irq /\ ~asked.listening /\ asked.count = n /\ Exactly(hif.ctrl1)
    /\ k >= 2 => hif.wake = {}
    /\ k \in 4..7 => ~hif.cen
    /\ k >= 5 => ~aon.cen
    /\ k >= 6 => hif.tim = n
    /\ k >= 7 => aon.tim = n
    /\ k = 8 => hif.cen

Calibrating(k) ==
    /\ todo = Rest(Sleep!CalibrateSleepCnt, k)
    /\ power = "on" /\ ~irq /\ asked.count = 0 /\ hif.wake = {} /\ Exactly(hif.ctrl1)

Configuring(mode, wake, k) ==
    /\ todo = Rest(Sleep!ConfigureSleep(mode, wake), k)
    /\ power = "on" /\ ~irq /\ ~asked.listening /\ Exactly(hif.ctrl1)
    /\ "WAKE_SLPCNT" \in wake => asked.count # 0
    /\ k = 2 => Reloads(hif)

Switched(on, bits) == IF on THEN hif.ctrl1 \cup bits ELSE hif.ctrl1 \ bits

BitsSwitched == {{"ATXSLP"}, {"ARXSLP", "SNOZE"}}

Switching(on, bits) ==
    /\ todo = <<Sleep!Switch(on, bits)>>
    /\ power = "on" /\ ~irq /\ "ARXSLP" \notin hif.ctrl1
    /\ Exactly(Switched(on, bits))

Entering == todo = <<Sleep!Do("upload")>> /\ ~irq /\ Exactly(hif.ctrl1)

Serving(k) ==
    /\ todo = Rest(Sleep!LowPowerListenIsr, k)
    /\ power = "on" /\ (irq <=> k <= 2)
    /\ k = 1 => Exactly(hif.ctrl1)
    /\ k >= 2 => /\ "ATXSLP" \in hif.ctrl1 <=> asked.afterTx
                 /\ "ARXSLP" \notin hif.ctrl1 /\ "SNOZE" \notin hif.ctrl1

Counts8 == \E n \in SleepCounts, k \in 1..8: Counting(n, k)

Phases ==
    \/ todo = <<>> /\ (irq => power = "on" /\ asked.listening) /\ Exactly(hif.ctrl1)
    \/ Counts8
    \/ \E k \in 1..4: Calibrating(k)
    \/ \E mode \in Sleep!Modes, wake \in Sleep!Wakes, k \in 1..2: Configuring(mode, wake, k)
    \/ \E on \in BOOLEAN, bits \in BitsSwitched: Switching(on, bits)
    \/ Entering
    \/ \E k \in 1..4: Serving(k)

\* A count that is set is in the registers and in the chip, whose counter runs.
Counted ==
    asked.count # 0 /\ ~Counts8 =>
        /\ hif.cen /\ hif.tim = asked.count
        /\ aon.cen /\ aon.tim = asked.count

\* A chip is told to wake by its counter only once that is set, and to sleep only when
\* it reloads the microcode.  A chip that listens keeps what it has while it sleeps.
Armed ==
    /\ "WAKE_SLPCNT" \in hif.wake => asked.count # 0
    /\ hif.wake # {} => Reloads(hif)
    /\ "ARXSLP" \in hif.ctrl1 => asked.listening
    /\ asked.listening => "PRESRV_SLEEP" \in hif.wcfg /\ "CONFIG" \in hif.wcfg

Sleeping ==
    /\ power = "asleep" => /\ Reloads(aon)
                           /\ aon.wcfg = hif.wcfg
                           /\ aon.wake \cap Sleep!Sources # {}
                           /\ "WAKE_SLPCNT" \in aon.wake => aon.cen /\ aon.tim = asked.count
                           /\ todo = <<>> \/ Entering
    /\ power = "on" => (ucode <=> sleep_mode # {})

SleepInv == SleepTypes /\ Phases /\ Counted /\ Armed /\ Sleeping

\* The lists of steps.
LEMMA CountSteps ==
    ASSUME NEW n
    PROVE  LET s == Sleep!ConfigureSleepCnt(n)
           IN  /\ IsList(s)
               /\ Len(s) = 8
               /\ s[1] = Sleep!Write("wake", {}) /\ s[2] = Sleep!Write("tim", 0)
               /\ s[3] = Sleep!Write("cen", FALSE) /\ s[4] = Sleep!Do("upload")
               /\ s[5] = Sleep!Write("tim", n) /\ s[6] = Sleep!Do("upload")
               /\ s[7] = Sleep!Write("cen", TRUE) /\ s[8] = Sleep!Do("upload")
<1>1. Sleep!ConfigureSleepCnt(n)
        \in Seq({Sleep!Write("wake", {}), Sleep!Write("tim", 0), Sleep!Write("tim", n),
                 Sleep!Write("cen", TRUE), Sleep!Write("cen", FALSE), Sleep!Do("upload")})
  BY DEF Sleep!ConfigureSleepCnt
<1> QED
  BY <1>1 DEF Sleep!ConfigureSleepCnt, IsList

\* The steps of dwt_calibratesleepcnt.
LEMMA CalibrateSteps ==
    LET s == Sleep!CalibrateSleepCnt
    IN  /\ IsList(s)
        /\ Len(s) = 4
        /\ s[1] = Sleep!Write("cen", FALSE) /\ s[2] = Sleep!Do("upload")
        /\ s[3] = Sleep!Write("cen", FALSE) /\ s[4] = Sleep!Do("upload")
<1>1. Sleep!CalibrateSleepCnt \in Seq({Sleep!Write("cen", FALSE), Sleep!Do("upload")})
  BY DEF Sleep!CalibrateSleepCnt
<1> QED
  BY <1>1 DEF Sleep!CalibrateSleepCnt, IsList

\* The steps of dwt_configuresleep.
LEMMA ConfigureSteps ==
    ASSUME NEW mode, NEW wake
    PROVE  LET s == Sleep!ConfigureSleep(mode, wake)
           IN  /\ IsList(s)
               /\ Len(s) = 2
               /\ s[1] = Sleep!Write("wcfg", mode \cup sleep_mode) /\ s[2] = Sleep!Write("wake", wake)
<1>1. Sleep!ConfigureSleep(mode, wake)
        \in Seq({Sleep!Write("wcfg", mode \cup sleep_mode), Sleep!Write("wake", wake)})
  BY DEF Sleep!ConfigureSleep
<1> QED
  BY <1>1 DEF Sleep!ConfigureSleep, IsList

\* The steps of dwt_lowpowerlistenisr.
LEMMA ServeSteps ==
    LET s == Sleep!LowPowerListenIsr
    IN  /\ IsList(s)
        /\ Len(s) = 4
        /\ s[1] = Sleep!Switch(FALSE, {"ARXSLP", "SNOZE"}) /\ s[2] = Sleep!Do("clear")
        /\ s[3] = Sleep!Do("frame") /\ s[4] = Sleep!Do("cbRxOk")
<1> DEFINE off == Sleep!Switch(FALSE, {"ARXSLP", "SNOZE"})
           S == {off, Sleep!Do("clear"), Sleep!Do("frame"), Sleep!Do("cbRxOk")}
           c == <<off, Sleep!Do("clear"), Sleep!Do("frame"), Sleep!Do("cbRxOk")>>
<1>1. Sleep!LowPowerListenIsr = c
  <2> DEFINE a == <<off>>
             b == <<Sleep!Do("clear"), Sleep!Do("frame"), Sleep!Do("cbRxOk")>>
  <2>1. Sleep!LowPowerListenIsr = a \o b
    BY DEF Sleep!LowPowerListenIsr, Sleep!SetLowPowerListening
  <2> HIDE DEF off
  <2>2. a \in Seq(S) /\ b \in Seq(S) /\ c \in Seq(S)
    OBVIOUS
  <2>3. /\ a \o b \in Seq(S) /\ Len(a \o b) = 4
        /\ \A i \in 1..4: (a \o b)[i] = IF i <= 1 THEN a[i] ELSE b[i - 1]
    BY <2>2, ConcatProperties
  <2>4. \A i \in 1..4: (a \o b)[i] = c[i]
    BY <2>3
  <2>5. a \o b = c
    BY <2>2, <2>3, <2>4, SeqEqual
  <2> QED
    BY <2>1, <2>5
<1>2. c \in Seq(S)
  OBVIOUS
<1> QED
  BY <1>1, <1>2 DEF IsList

-----------------------------------------------------------------------------
\* What is written into a field of the configuration.
Fits(reg, value) ==
    \/ reg = "wcfg" /\ value \in SleepModes
    \/ reg = "wake" /\ value \in Sleep!Wakes
    \/ reg = "tim" /\ value \in Nat
    \/ reg = "cen" /\ value \in BOOLEAN

\* The transfers of a step.
LEMMA WriteStep ==
    ASSUME SleepInv, Sleep!Step, power = "on",
           NEW reg, NEW value, Head(todo) = Sleep!Write(reg, value), Fits(reg, value)
    PROVE  /\ hif' \in Images
           /\ hif'.wcfg = IF reg = "wcfg" THEN value ELSE hif.wcfg
           /\ hif'.wake = IF reg = "wake" THEN value ELSE hif.wake
           /\ hif'.tim = IF reg = "tim" THEN value ELSE hif.tim
           /\ hif'.cen = IF reg = "cen" THEN value ELSE hif.cen
           /\ hif'.ctrl1 = hif.ctrl1
           /\ todo' = Tail(todo)
           /\ aon' = aon /\ power' = "on" /\ ucode' = ucode /\ irq' = irq /\ asked' = asked
           /\ sleep_mode' = sleep_mode
           /\ SleepTypes' /\ Sleeping'
<1>1. /\ todo' = Tail(todo) /\ sleep_mode' = sleep_mode
      /\ hif' = [hif EXCEPT ![reg] = value]
      /\ aon' = aon /\ power' = power /\ ucode' = ucode /\ irq' = irq /\ asked' = asked
  <2>1. LET s == Head(todo) IN s.do = "write" /\ s.reg = reg /\ s.value = value
    BY DEF Sleep!Write
  <2> QED
    BY <2>1 DEF Sleep!Step
<1>2. hif \in Images
  BY DEF SleepInv, SleepTypes
<1>3. /\ hif' \in Images
      /\ hif'.wcfg = IF reg = "wcfg" THEN value ELSE hif.wcfg
      /\ hif'.wake = IF reg = "wake" THEN value ELSE hif.wake
      /\ hif'.tim = IF reg = "tim" THEN value ELSE hif.tim
      /\ hif'.cen = IF reg = "cen" THEN value ELSE hif.cen
      /\ hif'.ctrl1 = hif.ctrl1
  <2> DEFINE Wakes == Sleep!Wakes
  <2>1. Images = [wcfg: SleepModes, wake: Wakes, tim: Nat, cen: BOOLEAN, ctrl1: Controls]
    BY DEF Images
  <2>2. \/ reg = "wcfg" /\ value \in SleepModes
        \/ reg = "wake" /\ value \in Wakes
        \/ reg = "tim" /\ value \in Nat
        \/ reg = "cen" /\ value \in BOOLEAN
    BY DEF Fits
  <2> HIDE DEF Wakes
  <2> QED
    BY <1>1, <1>2, <2>1, <2>2
<1>4. SleepTypes'
  BY <1>1, <1>3 DEF SleepInv, SleepTypes
<1>5. Sleeping'
  BY <1>1 DEF SleepInv, Sleeping, Reloads, Entering
<1> QED
  BY <1>1, <1>3, <1>4, <1>5

\* An upload takes the configuration over, but for a counter that runs.
LEMMA UploadStep ==
    ASSUME SleepInv, Sleep!Step, power = "on", hif.wake = {},
           Head(todo) = Sleep!Do("upload")
    PROVE  /\ aon' \in Images /\ aon'.cen = hif.cen
           /\ aon'.tim = IF aon.cen THEN aon.tim ELSE hif.tim
           /\ todo' = Tail(todo)
           /\ hif' = hif /\ power' = "on" /\ ucode' = ucode /\ irq' = irq /\ asked' = asked
           /\ sleep_mode' = sleep_mode
           /\ SleepTypes' /\ Sleeping' /\ Armed'
<1>1. /\ todo' = Tail(todo) /\ sleep_mode' = sleep_mode
      /\ Sleep!Upload /\ hif' = hif /\ irq' = irq /\ asked' = asked
  <2>1. Head(todo).do = "upload"
    BY DEF Sleep!Do
  <2> QED
    BY <2>1 DEF Sleep!Step
<1>2. hif \in Images /\ aon \in Images
  BY DEF SleepInv, SleepTypes
<1>3. /\ aon' = [hif EXCEPT !.tim = IF aon.cen THEN aon.tim ELSE hif.tim]
      /\ power' = power /\ ucode' = ucode
  BY <1>1 DEF Sleep!Upload, Sleep!DWT_SLP_EN
<1>4. (IF aon.cen THEN aon.tim ELSE hif.tim) \in Nat
  BY <1>2 DEF Images
<1>5. /\ aon' \in Images /\ aon'.cen = hif.cen
      /\ aon'.tim = IF aon.cen THEN aon.tim ELSE hif.tim
  BY <1>2, <1>3, <1>4 DEF Images
<1>6. SleepTypes'
  BY <1>1, <1>2, <1>3, <1>5 DEF SleepInv, SleepTypes
<1>7. Sleeping' /\ Armed'
  BY <1>1, <1>3 DEF SleepInv, Sleeping, Armed
<1> QED
  BY <1>1, <1>3, <1>5, <1>6, <1>7

\* The sets of sources and modes.
LEMMA WakeSets ==
    /\ {} \in Sleep!Wakes
    /\ \A wake \in Sleep!Wakes: wake # {} => "SLP_EN" \in wake /\ wake \cap Sleep!Sources # {}
    /\ \A mode \in Sleep!Modes: mode \in SleepModes /\ "ONW_LLDE" \notin mode
<1>1. {} \in Sleep!Wakes
  BY DEF Sleep!Wakes
<1>2. ASSUME NEW wake \in Sleep!Wakes, wake # {}
      PROVE  "SLP_EN" \in wake /\ wake \cap Sleep!Sources # {}
  <2>1. PICK w \in (SUBSET Sleep!Sources) \ {{}}: wake = w \cup {Sleep!DWT_SLP_EN}
    BY <1>2 DEF Sleep!Wakes
  <2>2. PICK x \in w: x \in Sleep!Sources
    BY <2>1
  <2>3. x \in wake \cap Sleep!Sources
    BY <2>1, <2>2
  <2> QED
    BY <2>1, <2>3 DEF Sleep!DWT_SLP_EN
<1>3. \A mode \in Sleep!Modes: mode \in SleepModes /\ "ONW_LLDE" \notin mode
  BY DEF Sleep!Modes, SleepModes, Sleep!DWT_CONFIG, Sleep!DWT_PRESRV_SLEEP, Sleep!DWT_RX_EN
<1> QED
  BY <1>1, <1>2, <1>3

-----------------------------------------------------------------------------
\* dwt_configuresleepcnt, transfer by transfer.
LEMMA CountingStep ==
    ASSUME SleepInv, Sleep!Step, NEW n \in SleepCounts, NEW k \in 1..8, Counting(n, k)
    PROVE  SleepInv'
<1> DEFINE s == Sleep!ConfigureSleepCnt(n)
<1>1. /\ SleepTypes /\ Armed
      /\ todo = Rest(s, k) /\ power = "on" /\ ~irq /\ ~asked.listening /\ asked.count = n
      /\ Exactly(hif.ctrl1)
      /\ k >= 2 => hif.wake = {}
      /\ k \in 4..7 => ~hif.cen
      /\ k >= 5 => ~aon.cen
      /\ k >= 6 => hif.tim = n
      /\ k >= 7 => aon.tim = n
      /\ k = 8 => hif.cen
  BY DEF SleepInv, Counting
<1>2. /\ IsList(s)
      /\ Len(s) = 8
      /\ s[1] = Sleep!Write("wake", {}) /\ s[2] = Sleep!Write("tim", 0)
      /\ s[3] = Sleep!Write("cen", FALSE) /\ s[4] = Sleep!Do("upload")
      /\ s[5] = Sleep!Write("tim", n) /\ s[6] = Sleep!Do("upload")
      /\ s[7] = Sleep!Write("cen", TRUE) /\ s[8] = Sleep!Do("upload")
  BY CountSteps
<1> HIDE DEF s
<1>3. /\ Head(todo) = s[k] /\ Tail(todo) = Rest(s, k + 1) /\ Rest(s, 9) = <<>>
  <2>1. k \in 1..Len(s) /\ Len(s) + 1 = 9
    BY <1>2
  <2> QED
    BY <1>1, <1>2, <2>1, RestOf
<1>4. hif \in Images /\ aon \in Images /\ n \in Nat
  BY <1>1, ServicesAssumption DEF SleepTypes, Sleep!SleepAssumption
\* What remains to be shown when the list has not ended.
<1>5. ASSUME todo' = Rest(s, k + 1), k # 8, SleepTypes', Sleeping', Armed',
             power' = "on", irq' = irq, asked' = asked, hif'.ctrl1 = hif.ctrl1,
             hif'.wake = {},
             k + 1 \in 4..7 => ~hif'.cen,
             k + 1 >= 5 => ~aon'.cen,
             k + 1 >= 6 => hif'.tim = n,
             k + 1 >= 7 => aon'.tim = n,
             k + 1 = 8 => hif'.cen
      PROVE  SleepInv'
  <2>1. Counting(n, k + 1)' /\ k + 1 \in 1..8
    BY <1>1, <1>5 DEF Counting, Exactly, s
  <2>2. Counts8'
    BY <2>1 DEF Counts8
  <2>3. Phases' /\ Counted'
    BY <2>2 DEF Phases, Counted
  <2> QED
    BY <1>5, <2>3 DEF SleepInv
<1>6. ASSUME NEW reg, NEW value, s[k] = Sleep!Write(reg, value), Fits(reg, value)
      PROVE  /\ hif' \in Images
             /\ hif'.wake = IF reg = "wake" THEN value ELSE hif.wake
             /\ hif'.tim = IF reg = "tim" THEN value ELSE hif.tim
             /\ hif'.cen = IF reg = "cen" THEN value ELSE hif.cen
             /\ hif'.ctrl1 = hif.ctrl1 /\ hif'.wcfg = (IF reg = "wcfg" THEN value ELSE hif.wcfg)
             /\ todo' = Rest(s, k + 1)
             /\ aon' = aon /\ power' = "on" /\ irq' = irq /\ asked' = asked
             /\ sleep_mode' = sleep_mode /\ SleepTypes' /\ Sleeping'
  BY <1>1, <1>3, <1>6, WriteStep
<1>7. ASSUME k >= 2, s[k] = Sleep!Do("upload")
      PROVE  /\ aon'.cen = hif.cen
             /\ aon'.tim = IF aon.cen THEN aon.tim ELSE hif.tim
             /\ todo' = Rest(s, k + 1)
             /\ hif' = hif /\ power' = "on" /\ irq' = irq /\ asked' = asked
             /\ SleepTypes' /\ Sleeping' /\ Armed'
  BY <1>1, <1>3, <1>7, UploadStep
<1>8. hif.ctrl1 = hif'.ctrl1 /\ hif'.wake = {} /\ asked' = asked => Armed'
  BY <1>1 DEF Armed
<1>a. CASE k = 1
  <2>1. s[k] = Sleep!Write("wake", {}) /\ Fits("wake", {})
    BY <1>2, <1>4, <1>a, WakeSets DEF Fits
  <2> QED
    BY <1>1, <1>4, <1>5, <1>6, <1>8, <1>a, <2>1
<1>b. CASE k = 2
  <2>1. s[k] = Sleep!Write("tim", 0) /\ Fits("tim", 0)
    BY <1>2, <1>4, <1>b, WakeSets DEF Fits
  <2> QED
    BY <1>1, <1>4, <1>5, <1>6, <1>8, <1>b, <2>1
<1>c. CASE k = 3
  <2>1. s[k] = Sleep!Write("cen", FALSE) /\ Fits("cen", FALSE)
    BY <1>2, <1>4, <1>c, WakeSets DEF Fits
  <2>2. /\ hif'.cen = FALSE /\ hif'.wake = hif.wake /\ hif'.tim = hif.tim /\ hif'.ctrl1 = hif.ctrl1
        /\ todo' = Rest(s, k + 1)
        /\ aon' = aon /\ power' = "on" /\ irq' = irq /\ asked' = asked
        /\ SleepTypes' /\ Sleeping'
    BY <1>6, <2>1
  <2> QED
    BY <1>1, <1>5, <1>8, <1>c, <2>2
<1>d. CASE k = 4
  BY <1>1, <1>2, <1>5, <1>7, <1>d
<1>e. CASE k = 5
  <2>1. s[k] = Sleep!Write("tim", n) /\ Fits("tim", n)
    BY <1>2, <1>4, <1>e, WakeSets DEF Fits
  <2> QED
    BY <1>1, <1>4, <1>5, <1>6, <1>8, <1>e, <2>1
<1>f. CASE k = 6
  BY <1>1, <1>2, <1>5, <1>7, <1>f
<1>g. CASE k = 7
  <2>1. s[k] = Sleep!Write("cen", TRUE) /\ Fits("cen", TRUE)
    BY <1>2, <1>4, <1>g, WakeSets DEF Fits
  <2>2. /\ hif'.cen = TRUE /\ hif'.wake = hif.wake /\ hif'.tim = hif.tim /\ hif'.ctrl1 = hif.ctrl1
        /\ todo' = Rest(s, k + 1)
        /\ aon' = aon /\ power' = "on" /\ irq' = irq /\ asked' = asked
        /\ SleepTypes' /\ Sleeping'
    BY <1>6, <2>1
  <2> QED
    BY <1>1, <1>5, <1>8, <1>g, <2>2
<1>h. CASE k = 8
  <2>1. /\ aon'.cen /\ aon'.tim = n /\ hif'.cen /\ hif'.tim = n /\ asked'.count = n
        /\ todo' = <<>> /\ ~irq' /\ SleepTypes' /\ Sleeping' /\ Armed'
        /\ hif' = hif /\ asked' = asked
    BY <1>1, <1>2, <1>3, <1>7, <1>h
  <2>2. Exactly(hif.ctrl1)'
    BY <1>1, <2>1 DEF Exactly
  <2> QED
    BY <2>1, <2>2 DEF SleepInv, Phases, Counted
<1> QED
  BY <1>a, <1>b, <1>c, <1>d, <1>e, <1>f, <1>g, <1>h

\* dwt_calibratesleepcnt: nothing is armed, and there is no count.
LEMMA CalibratingStep ==
    ASSUME SleepInv, Sleep!Step, NEW k \in 1..4, Calibrating(k)
    PROVE  SleepInv'
<1> DEFINE s == Sleep!CalibrateSleepCnt
<1>1. /\ SleepTypes /\ Armed
      /\ todo = Rest(s, k) /\ power = "on" /\ ~irq /\ asked.count = 0 /\ hif.wake = {}
      /\ Exactly(hif.ctrl1)
  BY DEF SleepInv, Calibrating
<1>2. /\ IsList(s)
      /\ Len(s) = 4
      /\ s[1] = Sleep!Write("cen", FALSE) /\ s[2] = Sleep!Do("upload")
      /\ s[3] = Sleep!Write("cen", FALSE) /\ s[4] = Sleep!Do("upload")
  BY CalibrateSteps
<1> HIDE DEF s
<1>3. /\ Head(todo) = s[k] /\ Tail(todo) = Rest(s, k + 1) /\ Rest(s, 5) = <<>>
  <2>1. k \in 1..Len(s) /\ Len(s) + 1 = 5 /\ IsList(s)
    BY <1>2
  <2>2. Rest(s, 5) = <<>> /\ Head(Rest(s, k)) = s[k] /\ Tail(Rest(s, k)) = Rest(s, k + 1)
    BY <2>1, RestOf
  <2> QED
    BY <1>1, <2>2
<1>4. hif \in Images
  BY <1>1 DEF SleepTypes
<1>5. /\ hif'.wake = {} /\ hif'.ctrl1 = hif.ctrl1 /\ hif'.wcfg = hif.wcfg
      /\ power' = "on" /\ irq' = irq /\ asked' = asked
      /\ todo' = Rest(s, k + 1) /\ SleepTypes' /\ Sleeping'
  <2>1. CASE k \in {1, 3}
    <3>1. Head(todo) = Sleep!Write("cen", FALSE) /\ Fits("cen", FALSE)
      BY <1>2, <1>3, <2>1 DEF Fits
    <3> QED
      BY <1>1, <1>3, <3>1, WriteStep
  <2>2. CASE k \in {2, 4}
    <3>1. Head(todo) = Sleep!Do("upload")
      BY <1>2, <1>3, <2>2
    <3> QED
      BY <1>1, <1>3, <3>1, UploadStep
  <2> QED
    BY <2>1, <2>2
<1>6. Armed' /\ Counted'
  BY <1>1, <1>5 DEF Armed, Counted
<1>7. Phases'
  <2>0. Exactly(hif.ctrl1)'
    BY <1>1, <1>5 DEF Exactly
  <2>1. CASE k = 4
    BY <1>1, <1>3, <1>5, <2>0, <2>1 DEF Phases
  <2>2. CASE k # 4
    <3>1. Calibrating(k + 1)' /\ k + 1 \in 1..4
      BY <1>1, <1>5, <2>0, <2>2 DEF Calibrating, s
    <3> QED
      BY <3>1 DEF Phases
  <2> QED
    BY <2>1, <2>2
<1> QED
  BY <1>5, <1>6, <1>7 DEF SleepInv

\* dwt_configuresleep: the wake-up configuration first, then the sources.
LEMMA ConfiguringStep ==
    ASSUME SleepInv, Sleep!Step, ~Counts8, NEW mode \in Sleep!Modes, NEW wake \in Sleep!Wakes,
           NEW k \in 1..2, Configuring(mode, wake, k)
    PROVE  SleepInv'
<1> DEFINE s == Sleep!ConfigureSleep(mode, wake)
<1>1. /\ SleepTypes /\ Armed /\ Counted
      /\ todo = Rest(s, k) /\ power = "on" /\ ~irq /\ ~asked.listening /\ Exactly(hif.ctrl1)
      /\ "WAKE_SLPCNT" \in wake => asked.count # 0
      /\ k = 2 => Reloads(hif)
  BY DEF SleepInv, Configuring
<1>2. /\ IsList(s)
      /\ Len(s) = 2
      /\ s[1] = Sleep!Write("wcfg", mode \cup sleep_mode) /\ s[2] = Sleep!Write("wake", wake)
  BY ConfigureSteps
<1> HIDE DEF s
<1>3. /\ Head(todo) = s[k] /\ Tail(todo) = Rest(s, k + 1) /\ Rest(s, 3) = <<>>
  <2>1. k \in 1..Len(s) /\ Len(s) + 1 = 3
    BY <1>2
  <2> QED
    BY <1>1, <1>2, <2>1, RestOf
<1>4. hif \in Images /\ sleep_mode \in {{}, {"ONW_LLDE"}}
  BY <1>1 DEF SleepTypes
<1>5. CASE k = 1
  <2>1. /\ mode \cup sleep_mode \in SleepModes
        /\ "ONW_LLDE" \in mode \cup sleep_mode <=> sleep_mode # {}
    BY <1>4, WakeSets DEF SleepModes
  <2>2. Head(todo) = Sleep!Write("wcfg", mode \cup sleep_mode) /\ Fits("wcfg", mode \cup sleep_mode)
    BY <1>2, <1>3, <1>5, <2>1 DEF Fits
  <2>3. /\ aon' = aon /\ power' = "on" /\ irq' = irq /\ asked' = asked /\ sleep_mode' = sleep_mode
        /\ todo' = Tail(todo) /\ SleepTypes' /\ Sleeping'
        /\ hif'.wcfg = mode \cup sleep_mode /\ hif'.wake = hif.wake /\ hif'.cen = hif.cen
        /\ hif'.tim = hif.tim /\ hif'.ctrl1 = hif.ctrl1
    BY <1>1, <2>2, WriteStep
  <2>4. todo' = Rest(s, 2)
    BY <1>3, <1>5, <2>3
  <2>5. Reloads(hif)'
    BY <2>1, <2>3 DEF Reloads
  <2>6. Armed' /\ Counted'
    BY <1>1, <2>3, <2>5 DEF Armed, Counted
  <2>7. todo' = Rest(Sleep!ConfigureSleep(mode, wake)', 2)
    BY <2>3, <2>4 DEF s, Sleep!ConfigureSleep, Sleep!Write
  <2>8. Configuring(mode, wake, 2)'
    BY <1>1, <2>3, <2>5, <2>7 DEF Configuring, Exactly
  <2>9. Phases'
    BY <2>8 DEF Phases
  <2> QED
    BY <2>3, <2>6, <2>9 DEF SleepInv
<1>6. CASE k = 2
  <2>1. Head(todo) = Sleep!Write("wake", wake) /\ Fits("wake", wake)
    BY <1>2, <1>3, <1>6 DEF Fits
  <2>2. /\ aon' = aon /\ power' = "on" /\ irq' = irq /\ asked' = asked /\ sleep_mode' = sleep_mode
        /\ todo' = Tail(todo) /\ SleepTypes' /\ Sleeping'
        /\ hif'.wcfg = hif.wcfg /\ hif'.wake = wake /\ hif'.cen = hif.cen
        /\ hif'.tim = hif.tim /\ hif'.ctrl1 = hif.ctrl1
    BY <1>1, <2>1, WriteStep
  <2>3. todo' = <<>>
    BY <1>3, <1>6, <2>2
  <2>4. Reloads(hif)'
    BY <1>1, <1>6, <2>2 DEF Reloads
  <2>5. Armed' /\ Counted' /\ Phases'
    BY <1>1, <2>2, <2>3, <2>4 DEF Armed, Counted, Phases, Exactly
  <2> QED
    BY <2>2, <2>5 DEF SleepInv
<1> QED
  BY <1>5, <1>6

\* Bits of PMSC_CTRL1 are switched, and the others stay.
LEMMA SwitchStep ==
    ASSUME SleepInv, Sleep!Step, power = "on",
           NEW on \in BOOLEAN, NEW bits \in BitsSwitched, Head(todo) = Sleep!Switch(on, bits)
    PROVE  /\ hif' \in Images /\ hif'.ctrl1 = Switched(on, bits)
           /\ hif'.wcfg = hif.wcfg /\ hif'.wake = hif.wake /\ hif'.tim = hif.tim /\ hif'.cen = hif.cen
           /\ todo' = Tail(todo)
           /\ aon' = aon /\ power' = "on" /\ ucode' = ucode /\ irq' = irq /\ asked' = asked
           /\ sleep_mode' = sleep_mode
           /\ SleepTypes' /\ Sleeping'
<1>1. /\ todo' = Tail(todo) /\ sleep_mode' = sleep_mode
      /\ hif' = [hif EXCEPT !.ctrl1 = IF on THEN @ \cup bits ELSE @ \ bits]
      /\ aon' = aon /\ power' = power /\ ucode' = ucode /\ irq' = irq /\ asked' = asked
  <2>1. LET s == Head(todo) IN s.do = "switch" /\ s.on = on /\ s.bits = bits
    BY DEF Sleep!Switch
  <2> QED
    BY <2>1 DEF Sleep!Step
<1>2. hif \in Images
  BY DEF SleepInv, SleepTypes
<1>3. Switched(on, bits) \in Controls
  <2>1. hif.ctrl1 \in Controls
    BY <1>2 DEF Images
  <2>2. hif.ctrl1 \cup bits \in Controls /\ hif.ctrl1 \ bits \in Controls
    BY <2>1 DEF Controls, BitsSwitched
  <2> QED
    BY <2>2 DEF Switched
<1>4. hif' = [hif EXCEPT !.ctrl1 = Switched(on, bits)]
  BY <1>1 DEF Switched
<1>5. /\ hif' \in Images /\ hif'.ctrl1 = Switched(on, bits)
      /\ hif'.wcfg = hif.wcfg /\ hif'.wake = hif.wake /\ hif'.tim = hif.tim /\ hif'.cen = hif.cen
  <2> HIDE DEF Switched
  <2> QED
    BY <1>2, <1>3, <1>4 DEF Images
<1>6. SleepTypes'
  BY <1>1, <1>5 DEF SleepInv, SleepTypes
<1>7. Sleeping'
  BY <1>1 DEF SleepInv, Sleeping, Reloads, Entering
<1> QED
  BY <1>1, <1>5, <1>6, <1>7

\* dwt_setlowpowerlistening and dwt_entersleepaftertx.
LEMMA SwitchingStep ==
    ASSUME SleepInv, Sleep!Step, ~Counts8, NEW on \in BOOLEAN, NEW bits \in BitsSwitched,
           Switching(on, bits)
    PROVE  SleepInv'
<1>1. /\ SleepTypes /\ Armed /\ Counted
      /\ todo = <<Sleep!Switch(on, bits)>>
      /\ power = "on" /\ ~irq
      /\ Exactly(Switched(on, bits))
  BY DEF SleepInv, Switching
<1>2. Head(todo) = Sleep!Switch(on, bits) /\ Tail(todo) = <<>>
  BY <1>1
<1>3. /\ aon' = aon /\ power' = "on" /\ irq' = irq /\ asked' = asked /\ sleep_mode' = sleep_mode
      /\ todo' = <<>> /\ SleepTypes' /\ Sleeping'
      /\ hif'.wcfg = hif.wcfg /\ hif'.wake = hif.wake /\ hif'.cen = hif.cen
      /\ hif'.tim = hif.tim /\ hif'.ctrl1 = Switched(on, bits)
  BY <1>1, <1>2, SwitchStep
<1>4. Exactly(hif.ctrl1)'
  BY <1>1, <1>3 DEF Exactly
<1>5. Armed' /\ Counted' /\ Phases'
  BY <1>1, <1>3, <1>4 DEF Armed, Counted, Phases, Reloads, Exactly
<1> QED
  BY <1>3, <1>5 DEF SleepInv

\* Before and after its calls dwt_configuresleepcnt has nothing to do.
LEMMA NotCounting ==
    ASSUME todo = <<>> PROVE ~Counts8
<1> SUFFICES ASSUME NEW n \in SleepCounts, NEW k \in 1..8, Counting(n, k)
             PROVE  FALSE
  BY DEF Counts8
<1> DEFINE s == Sleep!ConfigureSleepCnt(n)
<1>1. todo = Rest(s, k)
  BY DEF Counting
<1>2. IsList(s) /\ k \in 1..Len(s)
  BY CountSteps
<1> HIDE DEF s
<1> QED
  BY <1>1, <1>2, RestOf

\* The chip falls asleep by dwt_entersleep or by itself.
LEMMA FallsAsleep ==
    ASSUME SleepInv, ~Counts8, Sleep!Upload, "SLP_EN" \in hif.wake, ~irq,
           hif' = hif, sleep_mode' = sleep_mode, irq' = irq, asked' = asked, Exactly(hif.ctrl1),
           todo' = <<>> \/ todo' = <<Sleep!Do("upload")>>
    PROVE  SleepInv'
<1>1. /\ hif \in Images /\ aon \in Images /\ SleepTypes /\ Armed /\ Counted
  BY DEF SleepInv, SleepTypes
<1>2. /\ aon' = [hif EXCEPT !.tim = IF aon.cen THEN aon.tim ELSE hif.tim]
      /\ power' = "asleep" /\ ucode' = FALSE
  BY DEF Sleep!Upload, Sleep!DWT_SLP_EN
<1>3. (IF aon.cen THEN aon.tim ELSE hif.tim) \in Nat
  BY <1>1 DEF Images
<1>4. /\ aon' \in Images /\ aon'.cen = hif.cen /\ aon'.wcfg = hif.wcfg /\ aon'.wake = hif.wake
      /\ aon'.tim = IF aon.cen THEN aon.tim ELSE hif.tim
  BY <1>1, <1>2, <1>3 DEF Images
<1>5. SleepTypes'
  BY <1>1, <1>2, <1>4 DEF SleepTypes
<1>6. hif.wake \in Sleep!Wakes /\ hif.wake # {}
  BY <1>1 DEF Images
<1>7. /\ asked.count # 0 => hif.cen /\ hif.tim = asked.count /\ aon.cen /\ aon.tim = asked.count
  BY <1>1 DEF Counted
<1>10. Exactly(hif.ctrl1)'
  BY DEF Exactly
<1>8. Sleeping'
  <2>1. Reloads(hif) /\ aon'.wake \cap Sleep!Sources # {}
    BY <1>1, <1>4, <1>6, WakeSets DEF Armed
  <2>2. Reloads(aon)'
    BY <1>4, <2>1 DEF Reloads
  <2>3. "WAKE_SLPCNT" \in aon'.wake => aon'.cen /\ aon'.tim = asked'.count
    BY <1>1, <1>4, <1>7 DEF Armed
  <2> QED
    BY <1>2, <1>4, <1>10, <2>1, <2>2, <2>3 DEF Sleeping, Entering, Sleep!Sources
<1>9. Armed' /\ Counted'
  BY <1>1, <1>4, <1>7 DEF Armed, Counted, Reloads
<1>11. Phases'
  BY <1>10 DEF Phases, Entering
<1> QED
  BY <1>5, <1>8, <1>9, <1>11 DEF SleepInv

\* The upload of dwt_entersleep sends the chip to sleep, or finds it asleep.
LEMMA EnteringStep ==
    ASSUME SleepInv, Sleep!Step, ~Counts8, Entering
    PROVE  SleepInv'
<1>1. /\ SleepTypes /\ Armed /\ Counted /\ Sleeping /\ todo = <<Sleep!Do("upload")>> /\ ~irq
      /\ Exactly(hif.ctrl1)
      /\ power \in {"on", "asleep"}
  BY DEF SleepInv, Entering, SleepTypes
<1>2. Head(todo) = Sleep!Do("upload") /\ Tail(todo) = <<>>
  BY <1>1
<1>3. CASE power = "asleep"
  <2>1. /\ todo' = <<>> /\ sleep_mode' = sleep_mode
        /\ UNCHANGED <<hif, aon, power, ucode, irq, asked>>
    BY <1>2, <1>3 DEF Sleep!Step
  <2>2. SleepTypes' /\ Sleeping' /\ Armed'
    BY <1>1, <2>1 DEF SleepTypes, Sleeping, Armed, Reloads, Entering
  <2>3. Phases' /\ Counted'
    BY <1>1, <2>1 DEF Phases, Counted, Exactly
  <2> QED
    BY <2>2, <2>3 DEF SleepInv
<1>4. CASE power = "on" /\ "SLP_EN" \in hif.wake
  <2>1. /\ todo' = <<>> /\ Sleep!Upload /\ sleep_mode' = sleep_mode
        /\ UNCHANGED <<hif, irq, asked>>
    <3>1. Head(todo).do = "upload"
      BY <1>2 DEF Sleep!Do
    <3> QED
      BY <1>2, <1>4, <3>1 DEF Sleep!Step
  <2> QED
    BY <1>1, <1>4, <2>1, FallsAsleep
<1>5. CASE power = "on" /\ "SLP_EN" \notin hif.wake
  <2>1. hif.wake = {}
    BY <1>1, <1>5, WakeSets DEF SleepTypes, Images
  <2>2. /\ aon'.cen = hif.cen /\ aon'.tim = IF aon.cen THEN aon.tim ELSE hif.tim
        /\ todo' = <<>> /\ hif' = hif /\ irq' = irq /\ asked' = asked
        /\ SleepTypes' /\ Sleeping' /\ Armed'
    BY <1>2, <1>5, <2>1, UploadStep
  <2>3. Phases' /\ Counted'
    BY <1>1, <2>2 DEF Phases, Counted, Exactly
  <2> QED
    BY <2>2, <2>3 DEF SleepInv
<1> QED
  BY <1>1, <1>3, <1>4, <1>5

\* dwt_lowpowerlistenisr: low-power listening is off before the interrupt is cleared.
LEMMA ServingStep ==
    ASSUME SleepInv, Sleep!Step, ~Counts8, NEW k \in 1..4, Serving(k)
    PROVE  SleepInv'
<1> DEFINE s == Sleep!LowPowerListenIsr
<1>1. /\ SleepTypes /\ Armed /\ Counted /\ Sleeping
      /\ todo = Rest(s, k) /\ power = "on" /\ (irq <=> k <= 2)
      /\ k = 1 => Exactly(hif.ctrl1)
      /\ k >= 2 => /\ "ATXSLP" \in hif.ctrl1 <=> asked.afterTx
                   /\ "ARXSLP" \notin hif.ctrl1 /\ "SNOZE" \notin hif.ctrl1
  BY DEF SleepInv, Serving
<1>2. /\ IsList(s) /\ Len(s) = 4
      /\ s[1] = Sleep!Switch(FALSE, {"ARXSLP", "SNOZE"}) /\ s[2] = Sleep!Do("clear")
      /\ s[3] = Sleep!Do("frame") /\ s[4] = Sleep!Do("cbRxOk")
  BY ServeSteps
<1> HIDE DEF s
<1>3. /\ Head(todo) = s[k] /\ Tail(todo) = Rest(s, k + 1) /\ Rest(s, 5) = <<>>
  <2>1. k \in 1..Len(s) /\ Len(s) + 1 = 5 /\ IsList(s)
    BY <1>2
  <2>2. Rest(s, 5) = <<>> /\ Head(Rest(s, k)) = s[k] /\ Tail(Rest(s, k)) = Rest(s, k + 1)
    BY <2>1, RestOf
  <2> QED
    BY <1>1, <2>2
<1>4. ASSUME k # 4, todo' = Rest(s, k + 1), power' = "on", irq' <=> k + 1 <= 2,
             "ATXSLP" \in hif'.ctrl1 <=> asked'.afterTx,
             "ARXSLP" \notin hif'.ctrl1, "SNOZE" \notin hif'.ctrl1
      PROVE  Phases'
  <2>1. Serving(k + 1)' /\ k + 1 \in 1..4
    BY <1>4 DEF Serving, s
  <2> QED
    BY <2>1 DEF Phases
<1>5. todo' = Rest(s, k + 1) /\ sleep_mode' = sleep_mode
  BY <1>3 DEF Sleep!Step
<1>a. CASE k = 1
  <2>1. Head(todo) = Sleep!Switch(FALSE, {"ARXSLP", "SNOZE"}) /\ {"ARXSLP", "SNOZE"} \in BitsSwitched
    BY <1>2, <1>3, <1>a DEF BitsSwitched
  <2>2. /\ aon' = aon /\ power' = "on" /\ irq' = irq /\ asked' = asked
        /\ SleepTypes' /\ Sleeping'
        /\ hif'.wcfg = hif.wcfg /\ hif'.wake = hif.wake /\ hif'.cen = hif.cen
        /\ hif'.tim = hif.tim /\ hif'.ctrl1 = hif.ctrl1 \ {"ARXSLP", "SNOZE"}
    BY <1>1, <2>1, SwitchStep DEF Switched
  <2>3. Armed' /\ Counted'
    BY <1>1, <1>5, <2>2 DEF Armed, Counted, Reloads
  <2>4. Phases'
    BY <1>1, <1>4, <1>5, <1>a, <2>2 DEF Exactly
  <2> QED
    BY <2>2, <2>3, <2>4 DEF SleepInv
<1>b. CASE k = 2
  <2>1. irq' = FALSE /\ UNCHANGED <<hif, aon, power, ucode, asked>>
    <3>1. Head(todo).do = "clear"
      BY <1>2, <1>3, <1>b DEF Sleep!Do
    <3> QED
      BY <1>1, <3>1 DEF Sleep!Step
  <2>2. Phases'
    BY <1>1, <1>4, <1>5, <1>b, <2>1
  <2>3. SleepTypes' /\ Sleeping' /\ Armed' /\ Counted'
    BY <1>1, <1>5, <2>1 DEF SleepTypes, Sleeping, Armed, Counted, Reloads
  <2> QED
    BY <2>2, <2>3 DEF SleepInv
<1>c. CASE k = 3
  <2>1. UNCHANGED <<hif, aon, power, ucode, irq, asked>>
    <3>1. Head(todo).do = "frame"
      BY <1>2, <1>3, <1>c DEF Sleep!Do
    <3> QED
      BY <1>1, <3>1 DEF Sleep!Step
  <2>2. Phases'
    BY <1>1, <1>4, <1>5, <1>c, <2>1
  <2>3. SleepTypes' /\ Sleeping' /\ Armed' /\ Counted'
    BY <1>1, <1>5, <2>1 DEF SleepTypes, Sleeping, Armed, Counted, Reloads
  <2> QED
    BY <2>2, <2>3 DEF SleepInv
<1>d. CASE k = 4
  <2>1. /\ asked' = [asked EXCEPT !.listening = FALSE]
        /\ UNCHANGED <<hif, aon, power, ucode, irq>>
    <3>1. Head(todo).do = "cbRxOk"
      BY <1>2, <1>3, <1>d DEF Sleep!Do
    <3> QED
      BY <1>1, <3>1 DEF Sleep!Step
  <2>2. /\ asked' \in Wishes /\ asked'.count = asked.count /\ asked'.listening = FALSE
        /\ asked'.afterTx = asked.afterTx
    BY <1>1, <2>1 DEF SleepTypes, Wishes
  <2>3. /\ todo' = <<>> /\ ~irq
        /\ "ATXSLP" \in hif.ctrl1 <=> asked.afterTx
        /\ "ARXSLP" \notin hif.ctrl1 /\ "SNOZE" \notin hif.ctrl1
    BY <1>1, <1>3, <1>5, <1>d
  <2>4. Phases'
    BY <2>1, <2>2, <2>3 DEF Phases, Exactly
  <2>5. SleepTypes' /\ Sleeping' /\ Armed' /\ Counted'
    BY <1>1, <1>5, <2>1, <2>2, <2>3 DEF SleepTypes, Sleeping, Armed, Counted, Reloads
  <2> QED
    BY <2>4, <2>5 DEF SleepInv
<1> QED
  BY <1>a, <1>b, <1>c, <1>d

\* A step of a function of sleep keeps the invariant.
LEMMA StepKeeps ==
    ASSUME SleepInv, Sleep!Step
    PROVE  SleepInv'
<1>1. CASE Counts8
  BY <1>1, CountingStep DEF Counts8
<1>2. CASE ~Counts8
  <2>1. todo # <<>>
    BY DEF Sleep!Step
  <2>2. \/ \E k \in 1..4: Calibrating(k)
        \/ \E mode \in Sleep!Modes, wake \in Sleep!Wakes, k \in 1..2: Configuring(mode, wake, k)
        \/ \E on \in BOOLEAN, bits \in BitsSwitched: Switching(on, bits)
        \/ Entering
        \/ \E k \in 1..4: Serving(k)
    BY <1>2, <2>1 DEF SleepInv, Phases
  <2>3. CASE \E k \in 1..4: Calibrating(k)
    BY <2>3, CalibratingStep
  <2>4. CASE \E mode \in Sleep!Modes, wake \in Sleep!Wakes, k \in 1..2: Configuring(mode, wake, k)
    BY <1>2, <2>4, ConfiguringStep
  <2>5. CASE \E on \in BOOLEAN, bits \in BitsSwitched: Switching(on, bits)
    BY <1>2, <2>5, SwitchingStep
  <2>6. CASE Entering
    BY <1>2, <2>6, EnteringStep
  <2>7. CASE \E k \in 1..4: Serving(k)
    BY <1>2, <2>7, ServingStep
  <2> QED
    BY <2>2, <2>3, <2>4, <2>5, <2>6, <2>7
<1> QED
  BY <1>1, <1>2

-----------------------------------------------------------------------------
\* The calls of the client, which begin a list and change no more than what it asked for.
LEMMA CallKeeps ==
    ASSUME SleepInv, todo = <<>>, power = "on", ~irq,
           hif' = hif, aon' = aon, power' = power, ucode' = ucode, irq' = irq,
           sleep_mode' = sleep_mode,
           asked' \in Wishes,
           "WAKE_SLPCNT" \in hif.wake => asked'.count # 0,
           asked.listening => asked'.listening,
           asked'.listening => asked.listening \/ ("PRESRV_SLEEP" \in hif.wcfg /\ "CONFIG" \in hif.wcfg),
           Phases',
           asked'.count # 0 /\ asked'.count # asked.count => Counts8'
    PROVE  SleepInv'
<1>1. SleepTypes /\ Armed /\ Counted /\ Sleeping /\ ~Counts8
  BY NotCounting DEF SleepInv
<1>2. SleepTypes' /\ Sleeping' /\ Armed'
  BY <1>1 DEF SleepTypes, Sleeping, Armed, Reloads
<1>3. Counted'
  BY <1>1 DEF Counted
<1> QED
  BY <1>2, <1>3 DEF SleepInv

\* When nothing is to be done the register holds just what the client asked for.
LEMMA RestingExact ==
    ASSUME Phases, todo = <<>>
    PROVE  (irq => power = "on" /\ asked.listening) /\ Exactly(hif.ctrl1)
<1>1. ~Counts8
  BY NotCounting
<1>2. ASSUME NEW k \in 1..4, Calibrating(k) PROVE FALSE
  <2> DEFINE s == Sleep!CalibrateSleepCnt
  <2>1. todo = Rest(s, k) /\ IsList(s) /\ k \in 1..Len(s)
    BY <1>2, CalibrateSteps DEF Calibrating
  <2> HIDE DEF s
  <2> QED
    BY <2>1, RestOf
<1>3. ASSUME NEW mode \in Sleep!Modes, NEW wake \in Sleep!Wakes, NEW k \in 1..2,
             Configuring(mode, wake, k)
      PROVE  FALSE
  <2> DEFINE s == Sleep!ConfigureSleep(mode, wake)
  <2>1. todo = Rest(s, k) /\ IsList(s) /\ k \in 1..Len(s)
    BY <1>3, ConfigureSteps DEF Configuring
  <2> HIDE DEF s
  <2> QED
    BY <2>1, RestOf
<1>4. ASSUME NEW on \in BOOLEAN, NEW bits \in BitsSwitched, Switching(on, bits) PROVE FALSE
  BY <1>4 DEF Switching
<1>5. ASSUME NEW k \in 1..4, Serving(k) PROVE FALSE
  <2> DEFINE s == Sleep!LowPowerListenIsr
  <2>1. todo = Rest(s, k) /\ IsList(s) /\ k \in 1..Len(s)
    BY <1>5, ServeSteps DEF Serving
  <2> HIDE DEF s
  <2> QED
    BY <2>1, RestOf
<1>6. ~Entering
  BY DEF Entering
<1> QED
  BY <1>1, <1>2, <1>3, <1>4, <1>5, <1>6 DEF Phases

\* So does a call of one, and the interrupt that ends a sleep.
LEMMA CallsKeep ==
    ASSUME SleepInv,
           \/ Sleep!Calibrate
           \/ \E n \in SleepCounts: Sleep!SetCount(n)
           \/ \E mode \in Sleep!Modes, wake \in Sleep!Wakes: Sleep!Configure(mode, wake)
           \/ \E on \in BOOLEAN: Sleep!SleepAfterTx(on)
           \/ Sleep!Listen \/ Sleep!EnterSleep \/ Sleep!Interrupt
    PROVE  SleepInv'
<1>1. /\ asked \in Wishes /\ Armed /\ SleepTypes
      /\ hif.wake \in Sleep!Wakes
  BY DEF SleepInv, SleepTypes, Images
<1>0. ASSUME todo = <<>> PROVE Exactly(hif.ctrl1)
  BY <1>0, RestingExact DEF SleepInv
<1>2. CASE Sleep!Calibrate
  <2>1. /\ todo = <<>> /\ power = "on" /\ ~irq /\ "SLP_EN" \notin hif.wake
        /\ todo' = Sleep!CalibrateSleepCnt /\ asked' = [asked EXCEPT !.count = 0]
        /\ UNCHANGED <<hif, aon, power, ucode, sleep_mode, irq>>
    BY <1>2 DEF Sleep!Calibrate, Sleep!Running, Sleep!Call, Sleep!DWT_SLP_EN
  <2>2. hif.wake = {}
    BY <1>1, <2>1, WakeSets
  <2>3. /\ asked' \in Wishes /\ asked'.count = 0
        /\ asked'.listening = asked.listening /\ asked'.afterTx = asked.afterTx
    BY <1>1, <2>1 DEF Wishes
  <2>4. Sleep!CalibrateSleepCnt = Rest(Sleep!CalibrateSleepCnt, 1)
    BY CalibrateSteps, WholeList
  <2>5. Calibrating(1)'
    BY <1>0, <2>1, <2>2, <2>3, <2>4 DEF Calibrating, Exactly
  <2>6. Phases'
    BY <2>5 DEF Phases
  <2> QED
    BY <2>1, <2>2, <2>3, <2>6, CallKeeps
<1>3. ASSUME NEW n \in SleepCounts, Sleep!SetCount(n) PROVE SleepInv'
  <2>1. /\ todo = <<>> /\ power = "on" /\ ~irq /\ ~asked.listening
        /\ todo' = Sleep!ConfigureSleepCnt(n) /\ asked' = [asked EXCEPT !.count = n]
        /\ UNCHANGED <<hif, aon, power, ucode, sleep_mode, irq>>
    BY <1>3 DEF Sleep!SetCount, Sleep!Running, Sleep!Call
  <2>2. n \in Nat \ {0}
    BY ServicesAssumption DEF Sleep!SleepAssumption
  <2>3. /\ asked' \in Wishes /\ asked'.count = n
        /\ asked'.listening = asked.listening /\ asked'.afterTx = asked.afterTx
    BY <1>1, <2>1, <2>2 DEF Wishes
  <2>4. Sleep!ConfigureSleepCnt(n) = Rest(Sleep!ConfigureSleepCnt(n), 1)
    BY CountSteps, WholeList
  <2>5. Counting(n, 1)'
    BY <1>0, <2>1, <2>3, <2>4 DEF Counting, Exactly
  <2>6. Phases' /\ Counts8'
    BY <2>5 DEF Phases, Counts8
  <2> QED
    BY <2>1, <2>2, <2>3, <2>6, CallKeeps
<1>4. ASSUME NEW mode \in Sleep!Modes, NEW wake \in Sleep!Wakes, Sleep!Configure(mode, wake)
      PROVE  SleepInv'
  <2>1. /\ todo = <<>> /\ power = "on" /\ ~irq /\ ~asked.listening
        /\ "WAKE_SLPCNT" \in wake => asked.count # 0
        /\ todo' = Sleep!ConfigureSleep(mode, wake)
        /\ UNCHANGED <<hif, aon, power, ucode, sleep_mode, irq, asked>>
    BY <1>4 DEF Sleep!Configure, Sleep!Running, Sleep!Call, Sleep!DWT_WAKE_SLPCNT
  <2>2. Sleep!ConfigureSleep(mode, wake) = Rest(Sleep!ConfigureSleep(mode, wake), 1)
    BY ConfigureSteps, WholeList
  <2>3. Sleep!ConfigureSleep(mode, wake)' = Sleep!ConfigureSleep(mode, wake)
    BY <2>1 DEF Sleep!ConfigureSleep, Sleep!Write
  <2>4. todo' = Rest(Sleep!ConfigureSleep(mode, wake)', 1)
    BY <2>1, <2>2, <2>3
  <2>5. Configuring(mode, wake, 1)'
    BY <1>0, <2>1, <2>4 DEF Configuring, Exactly
  <2>6. Phases'
    BY <2>5 DEF Phases
  <2> QED
    BY <1>1, <2>1, <2>6, CallKeeps DEF Armed
<1>5. ASSUME NEW on \in BOOLEAN, Sleep!SleepAfterTx(on) PROVE SleepInv'
  <2>1. /\ todo = <<>> /\ power = "on" /\ ~irq /\ ~asked.listening
        /\ todo' = <<Sleep!Switch(on, {"ATXSLP"})>>
        /\ asked' = [asked EXCEPT !.afterTx = on]
        /\ UNCHANGED <<hif, aon, power, ucode, sleep_mode, irq>>
    BY <1>5 DEF Sleep!SleepAfterTx, Sleep!Running, Sleep!Call, Sleep!EnterSleepAfterTx
  <2>2. /\ asked' \in Wishes /\ asked'.count = asked.count
        /\ asked'.listening = asked.listening /\ asked'.afterTx = on
    BY <1>1, <2>1 DEF Wishes
  <2>3. Exactly(Switched(on, {"ATXSLP"}))'
    BY <1>0, <2>1, <2>2 DEF Exactly, Switched
  <2>4. Switching(on, {"ATXSLP"})' /\ {"ATXSLP"} \in BitsSwitched
    BY <1>1, <2>1, <2>3 DEF Switching, Armed, BitsSwitched
  <2>5. Phases'
    BY <2>4 DEF Phases
  <2> QED
    BY <1>1, <2>1, <2>2, <2>5, CallKeeps DEF Armed
<1>6. CASE Sleep!Listen
  <2> DEFINE bits == {"ARXSLP", "SNOZE"}
  <2>1. /\ todo = <<>> /\ power = "on" /\ ~irq /\ ~asked.listening
        /\ "PRESRV_SLEEP" \in hif.wcfg /\ "CONFIG" \in hif.wcfg
        /\ todo' = <<Sleep!Switch(TRUE, bits)>>
        /\ asked' = [asked EXCEPT !.listening = TRUE]
        /\ UNCHANGED <<hif, aon, power, ucode, sleep_mode, irq>>
    BY <1>6 DEF Sleep!Listen, Sleep!Running, Sleep!Call, Sleep!SetLowPowerListening,
                Sleep!DWT_PRESRV_SLEEP, Sleep!DWT_CONFIG
  <2>2. /\ asked' \in Wishes /\ asked'.count = asked.count
        /\ asked'.listening = TRUE /\ asked'.afterTx = asked.afterTx
    BY <1>1, <2>1 DEF Wishes
  <2>3. Exactly(Switched(TRUE, bits))'
    BY <1>0, <2>1, <2>2 DEF Exactly, Switched
  <2>4. Switching(TRUE, bits)' /\ bits \in BitsSwitched
    BY <1>1, <2>1, <2>3 DEF Switching, Armed, BitsSwitched
  <2>5. Phases'
    BY <2>4 DEF Phases
  <2> QED
    BY <1>1, <2>1, <2>2, <2>5, CallKeeps DEF Armed
<1>7. CASE Sleep!EnterSleep
  <2>1. /\ todo = <<>> /\ power = "on" /\ ~irq /\ todo' = <<Sleep!Do("upload")>>
        /\ UNCHANGED <<hif, aon, power, ucode, sleep_mode, irq, asked>>
    BY <1>7 DEF Sleep!EnterSleep, Sleep!Running, Sleep!Call
  <2>2. Phases'
    BY <1>0, <2>1 DEF Phases, Entering, Exactly
  <2> QED
    BY <1>1, <2>1, <2>2, CallKeeps DEF Armed
<1>8. CASE Sleep!Interrupt
  <2>1. /\ todo = <<>> /\ power = "on" /\ irq /\ todo' = Sleep!LowPowerListenIsr
        /\ UNCHANGED <<hif, aon, power, ucode, sleep_mode, irq, asked>>
    BY <1>8 DEF Sleep!Interrupt, Sleep!Running, Sleep!Call
  <2>2. Sleep!LowPowerListenIsr = Rest(Sleep!LowPowerListenIsr, 1)
    BY ServeSteps, WholeList
  <2>3. Serving(1)'
    BY <1>0, <2>1, <2>2 DEF Serving, Exactly
  <2>4. Phases' /\ ~Counts8
    BY <2>1, <2>3, NotCounting DEF Phases
  <2>5. SleepTypes' /\ Sleeping' /\ Armed' /\ Counted'
    BY <2>1, <2>4 DEF SleepInv, SleepTypes, Sleeping, Armed, Counted, Reloads
  <2> QED
    BY <2>4, <2>5 DEF SleepInv
<1> QED
  BY <1>2, <1>3, <1>4, <1>5, <1>6, <1>7, <1>8

\* What the chip does by itself.
LEMMA ChipKeeps ==
    ASSUME SleepInv, Sleep!FallAsleep \/ Sleep!WakeUp \/ Sleep!GoodFrame
    PROVE  SleepInv'
<1>1. SleepTypes /\ Armed /\ Counted /\ Sleeping /\ Phases
  BY DEF SleepInv
<1>2. CASE Sleep!FallAsleep
  <2>1. /\ power = "on" /\ ~irq /\ Sleep!Upload /\ "SLP_EN" \in hif.wake
        /\ todo = <<>> \/ "ARXSLP" \in hif.ctrl1
        /\ UNCHANGED <<hif, sleep_mode, todo, irq, asked>>
    BY <1>2 DEF Sleep!FallAsleep, Sleep!DWT_SLP_EN
  <2>2. ~Counts8
    <3>1. ASSUME NEW n \in SleepCounts, NEW k \in 1..8, Counting(n, k) PROVE FALSE
      <4>1. todo = <<>> => FALSE
        BY <3>1, NotCounting DEF Counts8
      <4>2. k < 2 /\ ~asked.listening
        BY <2>1, <3>1 DEF Counting
      <4> QED
        BY <1>1, <2>1, <4>1, <4>2 DEF Armed
    <3> QED
      BY <3>1 DEF Counts8
  <2>3. todo = <<>> \/ todo = <<Sleep!Do("upload")>>
    <3>1. CASE todo # <<>> /\ "ARXSLP" \in hif.ctrl1
      <4>1. asked.listening /\ hif.wake # {}
        BY <1>1, <2>1, <3>1 DEF Armed
      <4>2. ~\E k \in 1..4: Calibrating(k)
        BY <4>1 DEF Calibrating
      <4>3. ~\E mode \in Sleep!Modes, wake \in Sleep!Wakes, k \in 1..2: Configuring(mode, wake, k)
        BY <4>1 DEF Configuring
      <4>4. ~\E on \in BOOLEAN, bits \in BitsSwitched: Switching(on, bits)
        BY <3>1 DEF Switching
      <4>5. ~\E k \in 1..4: Serving(k)
        BY <2>1, <3>1 DEF Serving
      <4> QED
        BY <1>1, <2>2, <3>1, <4>2, <4>3, <4>4, <4>5 DEF Phases, Entering
    <3> QED
      BY <2>1, <3>1
  <2>4. Exactly(hif.ctrl1)
    <3>1. CASE todo = <<>>
      BY <1>1, <3>1, RestingExact
    <3>2. CASE todo # <<>>
      <4>1. todo = <<Sleep!Do("upload")>> /\ "ARXSLP" \in hif.ctrl1
        BY <2>1, <2>3, <3>2
      <4>2. asked.listening /\ hif.wake # {}
        BY <1>1, <2>1, <4>1 DEF Armed
      <4>3. ~\E k \in 1..4: Calibrating(k)
        BY <4>2 DEF Calibrating
      <4>4. ~\E mode \in Sleep!Modes, wake \in Sleep!Wakes, k \in 1..2: Configuring(mode, wake, k)
        BY <4>2 DEF Configuring
      <4>5. ~\E on \in BOOLEAN, bits \in BitsSwitched: Switching(on, bits)
        BY <4>1 DEF Switching
      <4>6. ~\E k \in 1..4: Serving(k)
        BY <2>1, <4>1 DEF Serving
      <4> QED
        BY <1>1, <2>2, <3>2, <4>3, <4>4, <4>5, <4>6 DEF Phases, Entering
    <3> QED
      BY <3>1, <3>2
  <2> QED
    BY <2>1, <2>2, <2>3, <2>4, FallsAsleep
<1>3. CASE Sleep!WakeUp
  <2>1. /\ power = "asleep" /\ todo = <<>> /\ power' = "on"
        /\ ucode' = ("ONW_LLDE" \in aon.wcfg)
        /\ hif' = IF "CONFIG" \notin aon.wcfg THEN Sleep!Reset
                  ELSE IF "PRESRV_SLEEP" \in aon.wcfg THEN hif ELSE [hif EXCEPT !.ctrl1 = {}]
        /\ asked' = [asked EXCEPT !.count = IF "CONFIG" \in aon.wcfg THEN @ ELSE 0,
                                  !.afterTx = @ /\ {"CONFIG", "PRESRV_SLEEP"} \subseteq aon.wcfg]
        /\ UNCHANGED <<aon, sleep_mode, todo, irq>>
    BY <1>3 DEF Sleep!WakeUp, Sleep!Woken, Sleep!AON_WCFG_ONW_LLDE, Sleep!DWT_CONFIG,
                Sleep!DWT_PRESRV_SLEEP
  <2>2. ~irq /\ ~Counts8 /\ Reloads(aon) /\ Exactly(hif.ctrl1)
    BY <1>1, <2>1, NotCounting, RestingExact DEF Sleeping
  <2>8. aon.wcfg = hif.wcfg
    BY <1>1, <2>1 DEF Sleeping
  <2>4. hif \in Images /\ asked \in Wishes
    BY <1>1 DEF SleepTypes
  <2>7. ucode' \in BOOLEAN /\ (ucode' <=> sleep_mode' # {})
    <3>1. sleep_mode' = sleep_mode
      BY <2>1
    <3>2. CASE "ONW_LLDE" \in aon.wcfg
      <4>1. ucode' = TRUE
        BY <2>1, <3>2
      <4> QED
        BY <2>2, <3>1, <3>2, <4>1 DEF Reloads
    <3>3. CASE "ONW_LLDE" \notin aon.wcfg
      <4>1. ucode' = FALSE
        <5>1. ucode' = ("ONW_LLDE" \in aon.wcfg)
          BY <2>1
        <5>2. ("ONW_LLDE" \in aon.wcfg) = FALSE
          BY <3>3
        <5> QED
          BY <5>1, <5>2
      <4> QED
        BY <2>2, <3>1, <3>3, <4>1 DEF Reloads
    <3> QED
      BY <3>2, <3>3
  <2>5. CASE "CONFIG" \notin aon.wcfg
    <3>1. /\ hif' \in Images /\ hif'.wake = {} /\ hif'.ctrl1 = {}
      <4>1. {} \in Sleep!Wakes /\ {} \in SleepModes /\ {} \in Controls
        BY WakeSets DEF SleepModes, Controls
      <4>2. hif' = [wcfg |-> {}, wake |-> {}, tim |-> 0, cen |-> FALSE, ctrl1 |-> {}]
        BY <2>1, <2>5 DEF Sleep!Reset
      <4> QED
        BY <4>1, <4>2 DEF Images
    <3>2. /\ asked' \in Wishes /\ asked'.count = 0 /\ asked'.listening = asked.listening
          /\ asked'.afterTx = FALSE
      <4>1. asked' = [asked EXCEPT !.count = 0, !.afterTx = FALSE]
        <5>1. (asked.afterTx /\ {"CONFIG", "PRESRV_SLEEP"} \subseteq aon.wcfg) = FALSE
          BY <2>5
        <5> QED
          BY <2>1, <2>5, <5>1
      <4> QED
        BY <2>4, <4>1 DEF Wishes
    <3>6. ~asked.listening
      BY <1>1, <2>5, <2>8 DEF Armed
    <3>7. Phases'
      BY <2>1, <2>2, <3>1, <3>2, <3>6 DEF Phases, Exactly
    <3>3. Armed' /\ Counted'
      BY <3>1, <3>2, <3>6 DEF Armed, Counted
    <3>4. SleepTypes'
      <4>1. UNCHANGED <<aon, sleep_mode, irq>> /\ power' = "on"
        BY <2>1
      <4> QED
        BY <1>1, <2>4, <2>7, <3>1, <3>2, <4>1 DEF SleepTypes
    <3>5. Sleeping'
      <4>1. power' = "on"
        BY <2>1
      <4> QED
        BY <2>7, <4>1 DEF Sleeping
    <3> QED
      BY <3>3, <3>4, <3>5, <3>7 DEF SleepInv
  <2>6. CASE "CONFIG" \in aon.wcfg
    <3>1. /\ hif' \in Images /\ hif'.wake = hif.wake /\ hif'.wcfg = hif.wcfg
          /\ hif'.tim = hif.tim /\ hif'.cen = hif.cen
          /\ hif'.ctrl1 = hif.ctrl1 \/ hif'.ctrl1 = {}
      <4>1. CASE "PRESRV_SLEEP" \in aon.wcfg
        BY <2>1, <2>4, <2>6, <4>1
      <4>2. CASE "PRESRV_SLEEP" \notin aon.wcfg
        <5>1. {} \in Controls /\ hif' = [hif EXCEPT !.ctrl1 = {}]
          BY <2>1, <2>6, <4>2 DEF Controls
        <5> QED
          BY <2>4, <5>1 DEF Images
      <4> QED
        BY <4>1, <4>2
    <3>2. /\ asked' \in Wishes /\ asked'.count = asked.count /\ asked'.listening = asked.listening
          /\ asked'.afterTx <=> asked.afterTx /\ "PRESRV_SLEEP" \in aon.wcfg
      <4> DEFINE afterTx == asked.afterTx /\ {"CONFIG", "PRESRV_SLEEP"} \subseteq aon.wcfg
      <4>1. asked' = [asked EXCEPT !.afterTx = afterTx]
        BY <2>1, <2>4, <2>6 DEF Wishes
      <4>2. afterTx \in BOOLEAN /\ (afterTx <=> asked.afterTx /\ "PRESRV_SLEEP" \in aon.wcfg)
        BY <2>4, <2>6 DEF Wishes
      <4> HIDE DEF afterTx
      <4>3. asked' \in Wishes /\ asked'.count = asked.count /\ asked'.listening = asked.listening
        BY <2>4, <4>1, <4>2 DEF Wishes
      <4>4. asked'.afterTx = afterTx
        BY <2>4, <4>1 DEF Wishes
      <4> QED
        BY <4>2, <4>3, <4>4
    <3>6. Exactly(hif.ctrl1)'
      <4>1. CASE "PRESRV_SLEEP" \in aon.wcfg
        <5>1. hif' = hif
          BY <2>1, <2>6, <4>1
        <5> QED
          BY <2>2, <3>2, <4>1, <5>1 DEF Exactly
      <4>2. CASE "PRESRV_SLEEP" \notin aon.wcfg
        <5>1. hif' = [hif EXCEPT !.ctrl1 = {}]
          BY <2>1, <2>6, <4>2
        <5>2. hif'.ctrl1 = {}
          BY <2>4, <5>1 DEF Images
        <5>3. ~asked.listening
          BY <1>1, <2>8, <4>2 DEF Armed
        <5>4. ~asked'.listening /\ ~asked'.afterTx
          BY <3>2, <4>2, <5>3
        <5> QED
          BY <5>2, <5>4 DEF Exactly
      <4> QED
        BY <4>1, <4>2
    <3>7. Phases'
      BY <2>1, <2>2, <3>6 DEF Phases
    <3>3. Armed' /\ Counted'
      BY <1>1, <2>1, <2>2, <3>1, <3>2 DEF Armed, Counted, Reloads
    <3>4. SleepTypes'
      <4>1. UNCHANGED <<aon, sleep_mode, irq>> /\ power' = "on"
        BY <2>1
      <4> QED
        BY <1>1, <2>4, <2>7, <3>1, <3>2, <4>1 DEF SleepTypes
    <3>5. Sleeping'
      <4>1. power' = "on"
        BY <2>1
      <4> QED
        BY <2>7, <4>1 DEF Sleeping
    <3> QED
      BY <3>3, <3>4, <3>5, <3>7 DEF SleepInv
  <2> QED
    BY <2>5, <2>6
<1>4. CASE Sleep!GoodFrame
  <2>1. /\ power = "on" /\ todo = <<>> /\ "ARXSLP" \in hif.ctrl1 /\ irq' = TRUE
        /\ UNCHANGED <<hif, aon, power, ucode, sleep_mode, todo, asked>>
    BY <1>4 DEF Sleep!GoodFrame
  <2>2. asked.listening /\ ~Counts8 /\ Exactly(hif.ctrl1)
    BY <1>1, <2>1, NotCounting, RestingExact DEF Armed
  <2>3. Phases' /\ SleepTypes' /\ Sleeping' /\ Armed' /\ Counted'
    BY <1>1, <2>1, <2>2 DEF Phases, SleepTypes, Sleeping, Armed, Counted, Reloads, Exactly
  <2> QED
    BY <2>3 DEF SleepInv
<1> QED
  BY <1>2, <1>3, <1>4

\* The chip starts awake, with nothing asked for.
LEMMA SleepStarts == Sleep!Init => SleepInv
<1> SUFFICES ASSUME Sleep!Init PROVE SleepInv
  OBVIOUS
<1>1. /\ hif = Sleep!Reset /\ aon = Sleep!Reset /\ power = "on" /\ ucode \in BOOLEAN
      /\ sleep_mode = IF ucode THEN {"ONW_LLDE"} ELSE {}
      /\ todo = <<>> /\ irq = FALSE /\ asked = [count |-> 0, listening |-> FALSE, afterTx |-> FALSE]
  BY DEF Sleep!Init, Sleep!AON_WCFG_ONW_LLDE
<1>2. /\ hif \in Images /\ aon \in Images /\ hif.wake = {} /\ hif.ctrl1 = {}
  <2>1. {} \in Sleep!Wakes /\ {} \in SleepModes /\ {} \in Controls
    BY WakeSets DEF SleepModes, Controls
  <2> QED
    BY <1>1, <2>1 DEF Images, Sleep!Reset
<1>3. SleepTypes
  BY <1>1, <1>2 DEF SleepTypes, Wishes
<1>4. Phases /\ Counted /\ Armed /\ Sleeping
  BY <1>1, <1>2 DEF Phases, Counted, Armed, Sleeping, Exactly
<1> QED
  BY <1>3, <1>4 DEF SleepInv

\* The invariant of sleep: a count that is set is in the chip, a chip is told to sleep only
\* with a source to wake by, and sleeps only where it reloads what it had.
THEOREM SleepInvariant == Sleep!Spec => []SleepInv
<1>1. SleepInv /\ [Sleep!Next]_(Sleep!vars) => SleepInv'
  <2> SUFFICES ASSUME SleepInv, [Sleep!Next]_(Sleep!vars) PROVE SleepInv'
    OBVIOUS
  <2>1. CASE Sleep!Next
    BY <2>1, CallsKeep, StepKeeps, ChipKeeps DEF Sleep!Next
  <2>2. CASE UNCHANGED Sleep!vars
    <3>1. UNCHANGED <<hif, aon, power, ucode, sleep_mode, todo, irq, asked>>
      BY <2>2 DEF Sleep!vars
    <3>2. SleepTypes' /\ Sleeping' /\ Armed'
      BY <3>1 DEF SleepInv, SleepTypes, Sleeping, Armed, Reloads, Entering, Exactly
    <3>3. Counts8' <=> Counts8
      <4>1. ASSUME NEW n \in SleepCounts, NEW k \in 1..8 PROVE Counting(n, k)' <=> Counting(n, k)
        BY <3>1 DEF Counting, Exactly
      <4> QED
        BY <4>1 DEF Counts8
    <3>4. Counted'
      BY <3>1, <3>3 DEF SleepInv, Counted
    <3>5. Phases'
      <4>1. ASSUME NEW k \in 1..4
            PROVE  (Calibrating(k)' <=> Calibrating(k)) /\ (Serving(k)' <=> Serving(k))
        BY <3>1 DEF Calibrating, Serving, Exactly
      <4>2. ASSUME NEW mode \in Sleep!Modes, NEW wake \in Sleep!Wakes, NEW k \in 1..2
            PROVE  Configuring(mode, wake, k)' <=> Configuring(mode, wake, k)
        <5>1. Sleep!ConfigureSleep(mode, wake)' = Sleep!ConfigureSleep(mode, wake)
          BY <3>1 DEF Sleep!ConfigureSleep, Sleep!Write
        <5> QED
          BY <3>1, <5>1 DEF Configuring, Reloads, Exactly
      <4>3. ASSUME NEW on \in BOOLEAN, NEW bits \in BitsSwitched
            PROVE  Switching(on, bits)' <=> Switching(on, bits)
        BY <3>1 DEF Switching, Exactly, Switched
      <4>4. /\ (Entering' <=> Entering) /\ (Exactly(hif.ctrl1)' <=> Exactly(hif.ctrl1))
            /\ todo' = todo /\ irq' = irq /\ power' = power /\ asked' = asked
        BY <3>1 DEF Entering, Exactly
      <4>5. Phases
        BY DEF SleepInv
      <4> QED
        BY <3>3, <4>1, <4>2, <4>3, <4>4, <4>5 DEF Phases
    <3> QED
      BY <3>2, <3>4, <3>5 DEF SleepInv
  <2> QED
    BY <2>1, <2>2
<1> QED
  BY <1>1, SleepStarts, PTL DEF Sleep!Spec

\* Whatever functions the client calls in whatever order, and however often the chip falls
\* asleep and wakes up, a sleeping chip can be woken by what the client asked for.
THEOREM SleeperWakes == ServicesSpec => []SleepWakes
<1>1. SleepInv => SleepWakes
  BY DEF SleepInv, Sleeping, SleepWakes, Sleep!SleepWakes, Sleep!DWT_WAKE_SLPCNT
<1> QED
  BY <1>1, SleepInvariant, SleepRuns, PTL

\* Whatever its history, a chip that is awake has the microcode the client had loaded; while
\* the routine of low-power listening reads the frame the chip cannot fall asleep for having
\* listened; and between the functions it sleeps by itself exactly when the client asked for
\* it, although the routine and two functions write the same register.
THEOREM ServedAwake == ServicesSpec => []AwakeComplete
<1>1. SleepInv => AwakeComplete
  <2> SUFFICES ASSUME SleepInv PROVE AwakeComplete
    OBVIOUS
  <2>1. power = "on" => (ucode <=> sleep_mode # {})
    BY DEF SleepInv, Sleeping
  <2>2. ASSUME todo # <<>>, Head(todo).do \in {"frame", "cbRxOk"}
        PROVE  power = "on" /\ hif.ctrl1 \cap {"ARXSLP", "SNOZE"} = {}
    <3>1. ASSUME NEW on, NEW bits
          PROVE  Sleep!Switch(on, bits).do = "switch" /\ Sleep!Do("upload").do = "upload"
      BY DEF Sleep!Switch, Sleep!Do
    <3>2. ASSUME NEW n \in SleepCounts, NEW k \in 1..8, Counting(n, k) PROVE FALSE
      <4> DEFINE s == Sleep!ConfigureSleepCnt(n)
      <4>1. IsList(s) /\ k \in 1..Len(s) /\ todo = Rest(s, k)
        BY <3>2, CountSteps DEF Counting
      <4>2. s[k].do \in {"write", "upload"}
        <5>1. k = 1 \/ k = 2 \/ k = 3 \/ k = 4 \/ k = 5 \/ k = 6 \/ k = 7 \/ k = 8
          OBVIOUS
        <5>2. /\ s[1] = Sleep!Write("wake", {}) /\ s[2] = Sleep!Write("tim", 0)
              /\ s[3] = Sleep!Write("cen", FALSE) /\ s[4] = Sleep!Do("upload")
              /\ s[5] = Sleep!Write("tim", n) /\ s[6] = Sleep!Do("upload")
              /\ s[7] = Sleep!Write("cen", TRUE) /\ s[8] = Sleep!Do("upload")
          BY CountSteps
        <5> HIDE DEF s
        <5>3. /\ s[1].do = "write" /\ s[2].do = "write" /\ s[3].do = "write" /\ s[5].do = "write"
              /\ s[7].do = "write" /\ s[4].do = "upload" /\ s[6].do = "upload" /\ s[8].do = "upload"
          BY <5>2 DEF Sleep!Write, Sleep!Do
        <5> QED
          BY <5>1, <5>3
      <4> HIDE DEF s
      <4>3. Head(todo) = s[k]
        BY <4>1, RestOf
      <4> QED
        BY <2>2, <4>2, <4>3
    <3>3. ASSUME NEW k \in 1..4, Calibrating(k) PROVE FALSE
      <4> DEFINE s == Sleep!CalibrateSleepCnt
      <4>1. IsList(s) /\ k \in 1..Len(s) /\ todo = Rest(s, k)
        BY <3>3, CalibrateSteps DEF Calibrating
      <4>2. s[k].do \in {"write", "upload"}
        <5>1. k = 1 \/ k = 2 \/ k = 3 \/ k = 4
          OBVIOUS
        <5> QED
          BY <5>1, CalibrateSteps DEF Sleep!Write, Sleep!Do
      <4> HIDE DEF s
      <4>3. Head(todo) = s[k]
        BY <4>1, RestOf
      <4> QED
        BY <2>2, <4>2, <4>3
    <3>4. ASSUME NEW mode \in Sleep!Modes, NEW wake \in Sleep!Wakes, NEW k \in 1..2,
                 Configuring(mode, wake, k)
          PROVE FALSE
      <4> DEFINE s == Sleep!ConfigureSleep(mode, wake)
      <4>1. IsList(s) /\ k \in 1..Len(s) /\ todo = Rest(s, k)
        BY <3>4, ConfigureSteps DEF Configuring
      <4>2. s[k].do \in {"write", "upload"}
        <5>1. k = 1 \/ k = 2
          OBVIOUS
        <5>2. s[1] = Sleep!Write("wcfg", mode \cup sleep_mode) /\ s[2] = Sleep!Write("wake", wake)
          BY ConfigureSteps
        <5> HIDE DEF s
        <5>3. s[1].do = "write" /\ s[2].do = "write"
          BY <5>2 DEF Sleep!Write
        <5> QED
          BY <5>1, <5>3
      <4> HIDE DEF s
      <4>3. Head(todo) = s[k]
        BY <4>1, RestOf
      <4> QED
        BY <2>2, <4>2, <4>3
    <3>5. ASSUME NEW on \in BOOLEAN, NEW bits \in BitsSwitched, Switching(on, bits) PROVE FALSE
      <4>1. Head(todo) = Sleep!Switch(on, bits)
        BY <3>5 DEF Switching
      <4> QED
        BY <2>2, <3>1, <4>1
    <3>6. ASSUME Entering PROVE FALSE
      <4>1. Head(todo) = Sleep!Do("upload")
        BY <3>6 DEF Entering
      <4> QED
        BY <2>2, <3>1, <4>1
    <3>7. ASSUME NEW k \in 1..4, Serving(k)
          PROVE  power = "on" /\ hif.ctrl1 \cap {"ARXSLP", "SNOZE"} = {}
      <4> DEFINE s == Sleep!LowPowerListenIsr
      <4>1. /\ IsList(s) /\ k \in 1..Len(s) /\ todo = Rest(s, k)
            /\ power = "on" /\ (k >= 2 => "ARXSLP" \notin hif.ctrl1 /\ "SNOZE" \notin hif.ctrl1)
        BY <3>7, ServeSteps DEF Serving
      <4>2. k = 1 => s[k].do = "switch"
        BY <3>1, ServeSteps
      <4> HIDE DEF s
      <4>3. Head(todo) = s[k]
        BY <4>1, RestOf
      <4> QED
        BY <2>2, <4>1, <4>2, <4>3
    <3>8. Phases
      BY DEF SleepInv
    <3> QED
      BY <2>2, <3>2, <3>3, <3>4, <3>5, <3>6, <3>7, <3>8 DEF Phases, Counts8
  <2>3. ASSUME todo = <<>> PROVE Exactly(hif.ctrl1)
    BY <2>3, RestingExact DEF SleepInv
  <2> QED
    BY <2>1, <2>2, <2>3 DEF AwakeComplete, Sleep!AwakeComplete, Exactly
<1> QED
  BY <1>1, SleepInvariant, SleepRuns, PTL

-----------------------------------------------------------------------------
(* The clocks.                                                             *)

\* The clocks that the services of the thread switch, and those of the routine.
Driven == {"SYS_XTI", "SYS_PLL", "TX_XTI", "TX_PLL", "LDE", "OTP", "TX_TEST",
           "GPCE", "GPRN", "GPDCE", "KHZCLEN"}
Receiving == {"RX_XTI", "RX_PLL", "FACE", "ACC"}

Crystal == {"SYS_XTI"}
Synthesizer == {"SYS_PLL", "TX_PLL"}

\* Those that may be on when a service begins, and those that are.
Lasting == {"SYS_XTI", "OTP", "GPCE", "GPRN", "GPDCE", "KHZCLEN"}
Bases == SUBSET Lasting
StaysOn == steady \cap Driven

\* What is on when a service comes to its k-th step, base having been on before.
On(service, k, base) ==
    CASE service = "otpread" ->
           IF k <= 2 THEN base ELSE IF k <= 6 THEN base \cup Crystal ELSE base \ Crystal
      [] service = "loadopsettabfromotp" ->
           IF k <= 2 THEN base ELSE IF k = 3 THEN base \cup Crystal
           ELSE IF k <= 6 THEN base \cup {"SYS_XTI", "LDE", "OTP"}
           ELSE IF k = 7 THEN (base \ Crystal) \cup {"LDE", "OTP"}
           ELSE (base \ Crystal) \cup {"OTP"}
      [] service = "readtempvbat_slow" ->
           IF k <= 3 THEN base ELSE IF k <= 7 THEN base \cup Crystal ELSE base \ Crystal
      [] service = "calcbandwidthtempadj" ->
           IF k \in 5..7 THEN base \cup Crystal
           ELSE IF k \in 8..10 THEN (base \ Crystal) \cup Synthesizer ELSE base
      [] service = "configcwmode" ->
           IF k <= 2 THEN base ELSE IF k <= 6 THEN base \cup Crystal
           ELSE IF k = 7 THEN (base \ Crystal) \cup Synthesizer
           ELSE (base \ Crystal) \cup {"SYS_PLL", "TX_PLL", "LDE", "OTP", "TX_TEST"}
      [] service = "configcontinuousframemode" ->
           IF k <= 2 THEN base ELSE IF k <= 7 THEN base \cup Crystal
           ELSE IF k <= 10 THEN (base \ Crystal) \cup {"SYS_PLL"}
           ELSE (base \ Crystal) \cup Synthesizer
      [] service = "otpwriteandverify" -> IF k <= 2 THEN base ELSE base \cup Crystal
      [] service = "enablegpioclocks" -> IF k <= 2 THEN base ELSE base \cup {"GPCE", "GPRN"}
      [] service = "setleds" -> IF k <= 2 THEN base ELSE base \cup {"GPDCE", "KHZCLEN"}
      [] service = "softreset" -> {}
      [] OTHER -> base

InSequence(service, k) ==
    CASE service = "calcbandwidthtempadj" -> k \notin 6..11
      [] service = "configcwmode" -> k <= 4
      [] service = "configcontinuousframemode" -> k <= 4
      [] OTHER -> TRUE

Forces(service, k) ==
    CASE service = "calcbandwidthtempadj" -> k \in 7..12
      [] service = "configcwmode" -> k >= 6
      [] service = "configcontinuousframemode" -> k >= 6
      [] OTHER -> FALSE

\* What is known of the chip there; dwt_softreset begins with any clocks.
Clocked(service, k) ==
    \/ service = "softreset" /\ k <= 5
    \/ /\ service # "softreset" => StaysOn \in Bases
       /\ pmsc.CTRL0 \cap Driven = On(service, k, StaysOn)
       /\ pmsc.CTRL1 <=> InSequence(service, k)
       /\ pmsc.RF_CONF <=> Forces(service, k)

\* What a step relies on having been read.
Agrees(reg, bits) == reg \cap bits = pmsc.CTRL0 \cap bits

HighBits == {"LDE", "OTP", "TX_TEST"}

Informed(do, reg) ==
    /\ do \in {"low", "set", "clear"} => Agrees(reg, Driven)
    /\ do = "high" => Agrees(reg, HighBits)
    /\ do \in {"set", "clear"} => steady \cap Clocks!Fourth \subseteq reg

\* The attempts to program a word of the OTP.
Attempts(service, k) ==
    IF service = "otpwriteandverify"
    THEN /\ k <= 4 => otp = Clocks!BlankWord
         /\ k \in 5..7 => otp.mode = 1
         /\ k \in 8..9 => otp.mode = 4
         /\ k <= 8 => otp.result = "none"
         /\ k = 5 => otp.tries \in 0..Tries - 1
         /\ k >= 6 => otp.tries \in 1..Tries
         /\ k >= 9 => (otp.result = "success" => otp.word = "value")
         /\ k = 10 => otp.mode = 0
    ELSE otp = Clocks!BlankWord

\* The thread comes to the k-th step of its service.
ThreadAt(service, k) ==
    LET job == jobs["thread"]
    IN  /\ job.service = service
        /\ job.steps = Rest(Clocks!Steps(service), k)
        /\ Clocked(service, k)
        /\ Informed(Clocks!Steps(service)[k].do, job.reg)
        /\ service = "calcbandwidthtempadj" /\ k > 1 =>
             job.saved.CTRL0 \cap Clocks!Low = StaysOn \cap Clocks!Low
        /\ Attempts(service, k)

\* Or it runs none: what is on is what the services so far leave on.
Resting ==
    LET service == jobs["thread"].service
    IN  /\ jobs["thread"].steps = <<>>
        /\ pmsc.CTRL0 \cap Driven = StaysOn
        /\ pmsc.CTRL1 <=> service \notin Clocks!TestModes
        /\ pmsc.RF_CONF <=> service \in Clocks!TestModes
        /\ service \notin Clocks!TestModes => StaysOn \in Bases
        /\ Attempts(service, 10)

ThreadRuns ==
    \/ Resting
    \/ \E service \in Clocks!Services:
          \E k \in 1..Len(Clocks!Steps(service)): ThreadAt(service, k)

\* The clocks of the routine, and what it has read.
Received(k) ==
    /\ pmsc.CTRL0 \cap Receiving = CASE k = 3 -> {"FACE", "RX_PLL"}
                                     [] k \in 4..6 -> {"FACE", "RX_PLL", "ACC"}
                                     [] k = 7 -> {"ACC"}
                                     [] OTHER -> {}
    /\ k \in {2, 6} => jobs["routine"].reg = pmsc.CTRL0
    /\ k \in {3, 7} => Agrees(jobs["routine"].reg, Clocks!High)

\* What SNIFF mode switched on is on, but in the middle of a reset of the chip.
SniffOn ==
    \/ jobs["thread"].service = "softreset" /\ jobs["thread"].steps # <<>>
    \/ steady \cap Clocks!Fourth \subseteq pmsc.CTRL0

RoutineRuns ==
    \/ jobs["routine"].steps = <<>> /\ pmsc.CTRL0 \cap Receiving = {} /\ SniffOn
    \/ /\ jobs["routine"].service = "readaccdata" /\ SniffOn
       /\ \E k \in 1..7: jobs["routine"].steps = Rest(Clocks!ReadAccData, k) /\ Received(k)
    \/ /\ jobs["routine"].service = "rxreset"
       /\ \E k \in 1..2: jobs["routine"].steps = Rest(Clocks!RxReset, k)
       /\ pmsc.CTRL0 \cap Receiving = {}

ClockTypes ==
    /\ DOMAIN pmsc = {"CTRL0", "CTRL1", "RF_CONF"}
    /\ pmsc.CTRL1 \in BOOLEAN /\ pmsc.RF_CONF \in BOOLEAN
    /\ DOMAIN otp = {"word", "mode", "tries", "result"}
    /\ DOMAIN jobs = {"thread", "routine"}
    /\ \A who \in {"thread", "routine"}:
          /\ DOMAIN jobs[who] = {"service", "steps", "reg", "saved"}
          /\ DOMAIN jobs[who].saved = {"CTRL0", "CTRL1", "RF_CONF"}
    /\ LET job == jobs["thread"]
       IN  /\ job.reg \cap Receiving = {}
           /\ job.saved.CTRL1 = TRUE /\ job.saved.RF_CONF = FALSE

SteadyBits == steady \subseteq Driven \cup Clocks!Fourth

ClocksInv == ClockTypes /\ SteadyBits /\ ThreadRuns /\ RoutineRuns

\* _dwt_readtempvbat by a slow SPI.
ReadTempSlow ==
    Clocks!Use("bias") \o Clocks!Enable("FORCE_SYS_XTI") \o Clocks!Use("sar") \o Clocks!Enable("ENABLE_ALL_SEQ")

\* The programs of the services, step by step.
LEMMA OtpReadSteps ==
    LET s == Clocks!OtpRead
    IN  /\ IsList(s) /\ Len(s) = 7 /\ s[1] = Clocks!Step("get", "CTRL0")
        /\ s[2] = Clocks!Step("low", "FORCE_SYS_XTI")
        /\ s[3] = Clocks!Step("high", "FORCE_SYS_XTI") /\ s[4] = Clocks!Step("use", "otp")
        /\ s[5] = Clocks!Step("get", "CTRL0") /\ s[6] = Clocks!Step("low", "ENABLE_ALL_SEQ")
        /\ s[7] = Clocks!Step("high", "ENABLE_ALL_SEQ")
<1>1. Clocks!OtpRead \in Seq({Clocks!Step("get", "CTRL0"),
            Clocks!Step("low", "FORCE_SYS_XTI"),
            Clocks!Step("high", "FORCE_SYS_XTI"),
            Clocks!Step("use", "otp"),
            Clocks!Step("low", "ENABLE_ALL_SEQ"),
            Clocks!Step("high", "ENABLE_ALL_SEQ")})
  BY DEF Clocks!OtpRead, Clocks!Enable, Clocks!Use
<1>2. IsList(Clocks!OtpRead)
  BY <1>1 DEF IsList
<1>3. Len(Clocks!OtpRead) = 7
  BY DEF Clocks!OtpRead, Clocks!Enable, Clocks!Use
<1>4. /\ Clocks!OtpRead[1] = Clocks!Step("get", "CTRL0")
      /\ Clocks!OtpRead[2] = Clocks!Step("low", "FORCE_SYS_XTI")
      /\ Clocks!OtpRead[3] = Clocks!Step("high", "FORCE_SYS_XTI")
      /\ Clocks!OtpRead[4] = Clocks!Step("use", "otp")
      /\ Clocks!OtpRead[5] = Clocks!Step("get", "CTRL0")
      /\ Clocks!OtpRead[6] = Clocks!Step("low", "ENABLE_ALL_SEQ")
      /\ Clocks!OtpRead[7] = Clocks!Step("high", "ENABLE_ALL_SEQ")
  BY DEF Clocks!OtpRead, Clocks!Enable, Clocks!Use
<1> QED
  BY <1>2, <1>3, <1>4

\* dwt_loadopsettabfromotp, on the clock of the LDE.
LEMMA LoadOpsetSteps ==
    LET s == Clocks!LoadOpsetTab
    IN  /\ IsList(s) /\ Len(s) = 7 /\ s[1] = Clocks!Step("get", "CTRL0")
        /\ s[2] = Clocks!Step("low", "FORCE_LDE") /\ s[3] = Clocks!Step("high", "FORCE_LDE")
        /\ s[4] = Clocks!Step("use", "ops") /\ s[5] = Clocks!Step("get", "CTRL0")
        /\ s[6] = Clocks!Step("low", "ENABLE_ALL_SEQ")
        /\ s[7] = Clocks!Step("high", "ENABLE_ALL_SEQ")
<1>1. Clocks!LoadOpsetTab \in Seq({Clocks!Step("get", "CTRL0"),
            Clocks!Step("low", "FORCE_LDE"),
            Clocks!Step("high", "FORCE_LDE"),
            Clocks!Step("use", "ops"),
            Clocks!Step("low", "ENABLE_ALL_SEQ"),
            Clocks!Step("high", "ENABLE_ALL_SEQ")})
  BY DEF Clocks!LoadOpsetTab, Clocks!Enable, Clocks!Use
<1>2. IsList(Clocks!LoadOpsetTab)
  BY <1>1 DEF IsList
<1>3. Len(Clocks!LoadOpsetTab) = 7
  BY DEF Clocks!LoadOpsetTab, Clocks!Enable, Clocks!Use
<1>4. /\ Clocks!LoadOpsetTab[1] = Clocks!Step("get", "CTRL0")
      /\ Clocks!LoadOpsetTab[2] = Clocks!Step("low", "FORCE_LDE")
      /\ Clocks!LoadOpsetTab[3] = Clocks!Step("high", "FORCE_LDE")
      /\ Clocks!LoadOpsetTab[4] = Clocks!Step("use", "ops")
      /\ Clocks!LoadOpsetTab[5] = Clocks!Step("get", "CTRL0")
      /\ Clocks!LoadOpsetTab[6] = Clocks!Step("low", "ENABLE_ALL_SEQ")
      /\ Clocks!LoadOpsetTab[7] = Clocks!Step("high", "ENABLE_ALL_SEQ")
  BY DEF Clocks!LoadOpsetTab, Clocks!Enable, Clocks!Use
<1> QED
  BY <1>2, <1>3, <1>4

\* _dwt_readtempvbat by a slow SPI.
LEMMA ReadTempSlowSteps ==
    LET s == ReadTempSlow
    IN  /\ IsList(s) /\ Len(s) = 8 /\ s[1] = Clocks!Step("use", "bias")
        /\ s[2] = Clocks!Step("get", "CTRL0") /\ s[3] = Clocks!Step("low", "FORCE_SYS_XTI")
        /\ s[4] = Clocks!Step("high", "FORCE_SYS_XTI") /\ s[5] = Clocks!Step("use", "sar")
        /\ s[6] = Clocks!Step("get", "CTRL0") /\ s[7] = Clocks!Step("low", "ENABLE_ALL_SEQ")
        /\ s[8] = Clocks!Step("high", "ENABLE_ALL_SEQ")
<1>1. ReadTempSlow \in Seq({Clocks!Step("use", "bias"),
            Clocks!Step("get", "CTRL0"),
            Clocks!Step("low", "FORCE_SYS_XTI"),
            Clocks!Step("high", "FORCE_SYS_XTI"),
            Clocks!Step("use", "sar"),
            Clocks!Step("low", "ENABLE_ALL_SEQ"),
            Clocks!Step("high", "ENABLE_ALL_SEQ")})
  BY DEF ReadTempSlow, Clocks!Enable, Clocks!Use
<1>2. IsList(ReadTempSlow)
  BY <1>1 DEF IsList
<1>3. Len(ReadTempSlow) = 8
  BY DEF ReadTempSlow, Clocks!Enable, Clocks!Use
<1>4. /\ ReadTempSlow[1] = Clocks!Step("use", "bias")
      /\ ReadTempSlow[2] = Clocks!Step("get", "CTRL0")
      /\ ReadTempSlow[3] = Clocks!Step("low", "FORCE_SYS_XTI")
      /\ ReadTempSlow[4] = Clocks!Step("high", "FORCE_SYS_XTI")
      /\ ReadTempSlow[5] = Clocks!Step("use", "sar")
      /\ ReadTempSlow[6] = Clocks!Step("get", "CTRL0")
      /\ ReadTempSlow[7] = Clocks!Step("low", "ENABLE_ALL_SEQ")
      /\ ReadTempSlow[8] = Clocks!Step("high", "ENABLE_ALL_SEQ")
  BY DEF ReadTempSlow, Clocks!Enable, Clocks!Use
<1> QED
  BY <1>2, <1>3, <1>4

\* And by a fast one.
LEMMA ReadTempFastSteps ==
    LET s == Clocks!Use("bias")
    IN  /\ IsList(s) /\ Len(s) = 1 /\ s[1] = Clocks!Step("use", "bias")
<1>1. Clocks!Use("bias") \in Seq({Clocks!Step("use", "bias")})
  BY DEF Clocks!Use
<1>2. IsList(Clocks!Use("bias"))
  BY <1>1 DEF IsList
<1>3. Len(Clocks!Use("bias")) = 1
  BY DEF Clocks!Use
<1>4. /\ Clocks!Use("bias")[1] = Clocks!Step("use", "bias")
  BY DEF Clocks!Use
<1> QED
  BY <1>2, <1>3, <1>4

\* The calibration of the pulse generator.
LEMMA CountPulsesSteps ==
    LET s == Clocks!CountPulses
    IN  /\ IsList(s) /\ Len(s) = 12 /\ s[1] = Clocks!Step("save", "CTRL0")
        /\ s[2] = Clocks!Step("save", "CTRL1") /\ s[3] = Clocks!Step("save", "RF_CONF")
        /\ s[4] = Clocks!Step("lowbyte", {"SYS_XTI"}) /\ s[5].do = "ctrl1"
        /\ s[5].arg = FALSE /\ s[6].do = "rf" /\ s[6].arg = TRUE
        /\ s[7] = Clocks!Step("lowbyte", {"SYS_PLL", "TX_PLL"})
        /\ s[8] = Clocks!Step("use", "pg") /\ s[9] = Clocks!Step("use", "pg")
        /\ s[10] = Clocks!Step("restore", "CTRL0") /\ s[11] = Clocks!Step("restore", "CTRL1")
        /\ s[12] = Clocks!Step("restore", "RF_CONF")
<1>1. Clocks!CountPulses \in Seq({Clocks!Step("save", "CTRL0"),
            Clocks!Step("save", "CTRL1"),
            Clocks!Step("save", "RF_CONF"),
            Clocks!Step("lowbyte", {"SYS_XTI"}),
            Clocks!Step("ctrl1", FALSE),
            Clocks!Step("rf", TRUE),
            Clocks!Step("lowbyte", {"SYS_PLL", "TX_PLL"}),
            Clocks!Step("use", "pg"),
            Clocks!Step("restore", "CTRL0"),
            Clocks!Step("restore", "CTRL1"),
            Clocks!Step("restore", "RF_CONF")})
  BY DEF Clocks!CountPulses, Clocks!LowByte, Clocks!Use, Clocks!Sequencing, Clocks!Blocks
<1>2. IsList(Clocks!CountPulses)
  BY <1>1 DEF IsList
<1>3. Len(Clocks!CountPulses) = 12
  BY DEF Clocks!CountPulses, Clocks!LowByte, Clocks!Use, Clocks!Sequencing, Clocks!Blocks
<1>4. /\ Clocks!CountPulses[1] = Clocks!Step("save", "CTRL0")
      /\ Clocks!CountPulses[2] = Clocks!Step("save", "CTRL1")
      /\ Clocks!CountPulses[3] = Clocks!Step("save", "RF_CONF")
      /\ Clocks!CountPulses[4] = Clocks!Step("lowbyte", {"SYS_XTI"})
      /\ Clocks!CountPulses[7] = Clocks!Step("lowbyte", {"SYS_PLL", "TX_PLL"})
      /\ Clocks!CountPulses[8] = Clocks!Step("use", "pg")
      /\ Clocks!CountPulses[9] = Clocks!Step("use", "pg")
      /\ Clocks!CountPulses[10] = Clocks!Step("restore", "CTRL0")
      /\ Clocks!CountPulses[11] = Clocks!Step("restore", "CTRL1")
      /\ Clocks!CountPulses[12] = Clocks!Step("restore", "RF_CONF")
  BY DEF Clocks!CountPulses, Clocks!LowByte, Clocks!Use, Clocks!Sequencing, Clocks!Blocks
<1>5. /\ Clocks!CountPulses[5].do = "ctrl1" /\ Clocks!CountPulses[5].arg = FALSE
      /\ Clocks!CountPulses[6].do = "rf" /\ Clocks!CountPulses[6].arg = TRUE
  BY DEF Clocks!CountPulses, Clocks!LowByte, Clocks!Use, Clocks!Sequencing, Clocks!Blocks,
         Clocks!Step
<1> QED
  BY <1>2, <1>3, <1>4, <1>5

\* The clocks of the pins.
LEMMA GpioClocksSteps ==
    LET s == Clocks!EnableGpioClocks
    IN  /\ IsList(s) /\ Len(s) = 2 /\ s[1] = Clocks!Step("get", "CTRL0")
        /\ s[2] = Clocks!Step("set", {"GPCE", "GPRN"})
<1>1. Clocks!EnableGpioClocks \in Seq({Clocks!Step("get", "CTRL0"),
            Clocks!Step("set", {"GPCE", "GPRN"})})
  BY DEF Clocks!EnableGpioClocks, Clocks!Set
<1>2. IsList(Clocks!EnableGpioClocks)
  BY <1>1 DEF IsList
<1>3. Len(Clocks!EnableGpioClocks) = 2
  BY DEF Clocks!EnableGpioClocks, Clocks!Set
<1>4. /\ Clocks!EnableGpioClocks[1] = Clocks!Step("get", "CTRL0")
      /\ Clocks!EnableGpioClocks[2] = Clocks!Step("set", {"GPCE", "GPRN"})
  BY DEF Clocks!EnableGpioClocks, Clocks!Set
<1> QED
  BY <1>2, <1>3, <1>4

\* The clocks of the LEDs.
LEMMA LedsSteps ==
    LET s == Clocks!SetLeds
    IN  /\ IsList(s) /\ Len(s) = 2 /\ s[1] = Clocks!Step("get", "CTRL0")
        /\ s[2] = Clocks!Step("set", {"GPDCE", "KHZCLEN"})
<1>1. Clocks!SetLeds \in Seq({Clocks!Step("get", "CTRL0"),
            Clocks!Step("set", {"GPDCE", "KHZCLEN"})})
  BY DEF Clocks!SetLeds, Clocks!Set
<1>2. IsList(Clocks!SetLeds)
  BY <1>1 DEF IsList
<1>3. Len(Clocks!SetLeds) = 2
  BY DEF Clocks!SetLeds, Clocks!Set
<1>4. /\ Clocks!SetLeds[1] = Clocks!Step("get", "CTRL0")
      /\ Clocks!SetLeds[2] = Clocks!Step("set", {"GPDCE", "KHZCLEN"})
  BY DEF Clocks!SetLeds, Clocks!Set
<1> QED
  BY <1>2, <1>3, <1>4

\* SNIFF on.
LEMMA SniffOnSteps ==
    LET s == Clocks!Set({"PLL2_SEQ_EN"})
    IN  /\ IsList(s) /\ Len(s) = 2 /\ s[1] = Clocks!Step("get", "CTRL0")
        /\ s[2] = Clocks!Step("set", {"PLL2_SEQ_EN"})
<1>1. Clocks!Set({"PLL2_SEQ_EN"}) \in Seq({Clocks!Step("get", "CTRL0"),
            Clocks!Step("set", {"PLL2_SEQ_EN"})})
  BY DEF Clocks!Set
<1>2. IsList(Clocks!Set({"PLL2_SEQ_EN"}))
  BY <1>1 DEF IsList
<1>3. Len(Clocks!Set({"PLL2_SEQ_EN"})) = 2
  BY DEF Clocks!Set
<1>4. /\ Clocks!Set({"PLL2_SEQ_EN"})[1] = Clocks!Step("get", "CTRL0")
      /\ Clocks!Set({"PLL2_SEQ_EN"})[2] = Clocks!Step("set", {"PLL2_SEQ_EN"})
  BY DEF Clocks!Set
<1> QED
  BY <1>2, <1>3, <1>4

\* SNIFF off.
LEMMA SniffOffSteps ==
    LET s == Clocks!Clear({"PLL2_SEQ_EN"})
    IN  /\ IsList(s) /\ Len(s) = 2 /\ s[1] = Clocks!Step("get", "CTRL0")
        /\ s[2] = Clocks!Step("clear", {"PLL2_SEQ_EN"})
<1>1. Clocks!Clear({"PLL2_SEQ_EN"}) \in Seq({Clocks!Step("get", "CTRL0"),
            Clocks!Step("clear", {"PLL2_SEQ_EN"})})
  BY DEF Clocks!Clear
<1>2. IsList(Clocks!Clear({"PLL2_SEQ_EN"}))
  BY <1>1 DEF IsList
<1>3. Len(Clocks!Clear({"PLL2_SEQ_EN"})) = 2
  BY DEF Clocks!Clear
<1>4. /\ Clocks!Clear({"PLL2_SEQ_EN"})[1] = Clocks!Step("get", "CTRL0")
      /\ Clocks!Clear({"PLL2_SEQ_EN"})[2] = Clocks!Step("clear", {"PLL2_SEQ_EN"})
  BY DEF Clocks!Clear
<1> QED
  BY <1>2, <1>3, <1>4

\* dwt_softreset.
LEMMA SoftResetSteps ==
    LET s == Clocks!SoftReset
    IN  /\ IsList(s) /\ Len(s) = 6 /\ s[1] = Clocks!Step("get", "CTRL0")
        /\ s[2] = Clocks!Step("low", "FORCE_SYS_XTI")
        /\ s[3] = Clocks!Step("high", "FORCE_SYS_XTI") /\ s[4].do = "ctrl1"
        /\ s[4].arg = FALSE /\ s[5] = Clocks!Step("softreset", "ALL")
        /\ s[6] = Clocks!Step("softreset", "CLEAR")
<1>1. Clocks!SoftReset \in Seq({Clocks!Step("get", "CTRL0"),
            Clocks!Step("low", "FORCE_SYS_XTI"),
            Clocks!Step("high", "FORCE_SYS_XTI"),
            Clocks!Step("ctrl1", FALSE),
            Clocks!Step("softreset", "ALL"),
            Clocks!Step("softreset", "CLEAR")})
  BY DEF Clocks!SoftReset, Clocks!DisableSequencing, Clocks!Enable, Clocks!Sequencing
<1>2. IsList(Clocks!SoftReset)
  BY <1>1 DEF IsList
<1>3. Len(Clocks!SoftReset) = 6
  BY DEF Clocks!SoftReset, Clocks!DisableSequencing, Clocks!Enable, Clocks!Sequencing
<1>4. /\ Clocks!SoftReset[1] = Clocks!Step("get", "CTRL0")
      /\ Clocks!SoftReset[2] = Clocks!Step("low", "FORCE_SYS_XTI")
      /\ Clocks!SoftReset[3] = Clocks!Step("high", "FORCE_SYS_XTI")
      /\ Clocks!SoftReset[5] = Clocks!Step("softreset", "ALL")
      /\ Clocks!SoftReset[6] = Clocks!Step("softreset", "CLEAR")
  BY DEF Clocks!SoftReset, Clocks!DisableSequencing, Clocks!Enable, Clocks!Sequencing
<1>5. /\ Clocks!SoftReset[4].do = "ctrl1" /\ Clocks!SoftReset[4].arg = FALSE
  BY DEF Clocks!SoftReset, Clocks!DisableSequencing, Clocks!Enable, Clocks!Sequencing, Clocks!Step
<1> QED
  BY <1>2, <1>3, <1>4, <1>5

\* dwt_configcwmode.
LEMMA CwModeSteps ==
    LET s == Clocks!ConfigCwMode
    IN  /\ IsList(s) /\ Len(s) = 8 /\ s[1] = Clocks!Step("get", "CTRL0")
        /\ s[2] = Clocks!Step("low", "FORCE_SYS_XTI")
        /\ s[3] = Clocks!Step("high", "FORCE_SYS_XTI") /\ s[4].do = "ctrl1"
        /\ s[4].arg = FALSE /\ s[5].do = "rf" /\ s[5].arg = TRUE
        /\ s[6] = Clocks!Step("lowbyte", {"SYS_PLL", "TX_PLL"})
        /\ s[7] = Clocks!Step("highbyte", {"LDE", "OTP", "TX_TEST"})
        /\ s[8] = Clocks!Step("use", "tx")
<1>1. Clocks!ConfigCwMode \in Seq({Clocks!Step("get", "CTRL0"),
            Clocks!Step("low", "FORCE_SYS_XTI"),
            Clocks!Step("high", "FORCE_SYS_XTI"),
            Clocks!Step("ctrl1", FALSE),
            Clocks!Step("rf", TRUE),
            Clocks!Step("lowbyte", {"SYS_PLL", "TX_PLL"}),
            Clocks!Step("highbyte", {"LDE", "OTP", "TX_TEST"}),
            Clocks!Step("use", "tx")})
  BY DEF Clocks!ConfigCwMode, Clocks!DisableSequencing, Clocks!Enable, Clocks!Sequencing,
         Clocks!Blocks, Clocks!LowByte, Clocks!HighByte, Clocks!Use
<1>2. IsList(Clocks!ConfigCwMode)
  BY <1>1 DEF IsList
<1>3. Len(Clocks!ConfigCwMode) = 8
  BY DEF Clocks!ConfigCwMode, Clocks!DisableSequencing, Clocks!Enable, Clocks!Sequencing,
         Clocks!Blocks, Clocks!LowByte, Clocks!HighByte, Clocks!Use
<1>4. /\ Clocks!ConfigCwMode[1] = Clocks!Step("get", "CTRL0")
      /\ Clocks!ConfigCwMode[2] = Clocks!Step("low", "FORCE_SYS_XTI")
      /\ Clocks!ConfigCwMode[3] = Clocks!Step("high", "FORCE_SYS_XTI")
      /\ Clocks!ConfigCwMode[6] = Clocks!Step("lowbyte", {"SYS_PLL", "TX_PLL"})
      /\ Clocks!ConfigCwMode[7] = Clocks!Step("highbyte", {"LDE", "OTP", "TX_TEST"})
      /\ Clocks!ConfigCwMode[8] = Clocks!Step("use", "tx")
  BY DEF Clocks!ConfigCwMode, Clocks!DisableSequencing, Clocks!Enable, Clocks!Sequencing,
         Clocks!Blocks, Clocks!LowByte, Clocks!HighByte, Clocks!Use
<1>5. /\ Clocks!ConfigCwMode[4].do = "ctrl1" /\ Clocks!ConfigCwMode[4].arg = FALSE
      /\ Clocks!ConfigCwMode[5].do = "rf" /\ Clocks!ConfigCwMode[5].arg = TRUE
  BY DEF Clocks!ConfigCwMode, Clocks!DisableSequencing, Clocks!Enable, Clocks!Sequencing,
         Clocks!Blocks, Clocks!LowByte, Clocks!HighByte, Clocks!Use, Clocks!Step
<1> QED
  BY <1>2, <1>3, <1>4, <1>5

\* dwt_configcontinuousframemode.
LEMMA FrameModeSteps ==
    LET s == Clocks!ConfigContinuousFrameMode
    IN  /\ IsList(s) /\ Len(s) = 12 /\ s[1] = Clocks!Step("get", "CTRL0")
        /\ s[2] = Clocks!Step("low", "FORCE_SYS_XTI")
        /\ s[3] = Clocks!Step("high", "FORCE_SYS_XTI") /\ s[4].do = "ctrl1"
        /\ s[4].arg = FALSE /\ s[5].do = "rf" /\ s[5].arg = TRUE
        /\ s[6] = Clocks!Step("get", "CTRL0") /\ s[7] = Clocks!Step("low", "FORCE_SYS_PLL")
        /\ s[8] = Clocks!Step("high", "FORCE_SYS_PLL") /\ s[9] = Clocks!Step("get", "CTRL0")
        /\ s[10] = Clocks!Step("low", "FORCE_TX_PLL")
        /\ s[11] = Clocks!Step("high", "FORCE_TX_PLL") /\ s[12] = Clocks!Step("use", "tx")
<1>1. Clocks!ConfigContinuousFrameMode \in Seq({Clocks!Step("get", "CTRL0"),
            Clocks!Step("low", "FORCE_SYS_XTI"),
            Clocks!Step("high", "FORCE_SYS_XTI"),
            Clocks!Step("ctrl1", FALSE),
            Clocks!Step("rf", TRUE),
            Clocks!Step("low", "FORCE_SYS_PLL"),
            Clocks!Step("high", "FORCE_SYS_PLL"),
            Clocks!Step("low", "FORCE_TX_PLL"),
            Clocks!Step("high", "FORCE_TX_PLL"),
            Clocks!Step("use", "tx")})
  BY DEF Clocks!ConfigContinuousFrameMode, Clocks!DisableSequencing, Clocks!Enable,
         Clocks!Sequencing, Clocks!Blocks, Clocks!Use
<1>2. IsList(Clocks!ConfigContinuousFrameMode)
  BY <1>1 DEF IsList
<1>3. Len(Clocks!ConfigContinuousFrameMode) = 12
  BY DEF Clocks!ConfigContinuousFrameMode, Clocks!DisableSequencing, Clocks!Enable,
         Clocks!Sequencing, Clocks!Blocks, Clocks!Use
<1>4. /\ Clocks!ConfigContinuousFrameMode[1] = Clocks!Step("get", "CTRL0")
      /\ Clocks!ConfigContinuousFrameMode[2] = Clocks!Step("low", "FORCE_SYS_XTI")
      /\ Clocks!ConfigContinuousFrameMode[3] = Clocks!Step("high", "FORCE_SYS_XTI")
      /\ Clocks!ConfigContinuousFrameMode[6] = Clocks!Step("get", "CTRL0")
      /\ Clocks!ConfigContinuousFrameMode[7] = Clocks!Step("low", "FORCE_SYS_PLL")
      /\ Clocks!ConfigContinuousFrameMode[8] = Clocks!Step("high", "FORCE_SYS_PLL")
      /\ Clocks!ConfigContinuousFrameMode[9] = Clocks!Step("get", "CTRL0")
      /\ Clocks!ConfigContinuousFrameMode[10] = Clocks!Step("low", "FORCE_TX_PLL")
      /\ Clocks!ConfigContinuousFrameMode[11] = Clocks!Step("high", "FORCE_TX_PLL")
      /\ Clocks!ConfigContinuousFrameMode[12] = Clocks!Step("use", "tx")
  BY DEF Clocks!ConfigContinuousFrameMode, Clocks!DisableSequencing, Clocks!Enable,
         Clocks!Sequencing, Clocks!Blocks, Clocks!Use
<1>5. /\ Clocks!ConfigContinuousFrameMode[4].do = "ctrl1"
      /\ Clocks!ConfigContinuousFrameMode[4].arg = FALSE
      /\ Clocks!ConfigContinuousFrameMode[5].do = "rf"
      /\ Clocks!ConfigContinuousFrameMode[5].arg = TRUE
  BY DEF Clocks!ConfigContinuousFrameMode, Clocks!DisableSequencing, Clocks!Enable,
         Clocks!Sequencing, Clocks!Blocks, Clocks!Use, Clocks!Step
<1> QED
  BY <1>2, <1>3, <1>4, <1>5

\* dwt_otpwriteandverify.
LEMMA OtpWriteSteps ==
    LET s == Clocks!OtpWriteAndVerify
    IN  /\ IsList(s) /\ Len(s) = 9 /\ s[1] = Clocks!Step("get", "CTRL0")
        /\ s[2] = Clocks!Step("low", "FORCE_SYS_XTI")
        /\ s[3] = Clocks!Step("high", "FORCE_SYS_XTI") /\ s[4] = Clocks!Step("mode", 1)
        /\ s[5] = Clocks!Step("program", 1) /\ s[6] = Clocks!Step("check", 1)
        /\ s[7] = Clocks!Step("mode", 4) /\ s[8] = Clocks!Step("verify", 4)
        /\ s[9] = Clocks!Step("mode", 0)
<1>1. Clocks!OtpWriteAndVerify \in Seq({Clocks!Step("get", "CTRL0"),
            Clocks!Step("low", "FORCE_SYS_XTI"),
            Clocks!Step("high", "FORCE_SYS_XTI"),
            Clocks!Step("mode", 1),
            Clocks!Step("program", 1),
            Clocks!Step("check", 1),
            Clocks!Step("mode", 4),
            Clocks!Step("verify", 4),
            Clocks!Step("mode", 0)})
  BY DEF Clocks!OtpWriteAndVerify, Clocks!Enable
<1>2. IsList(Clocks!OtpWriteAndVerify)
  BY <1>1 DEF IsList
<1>3. Len(Clocks!OtpWriteAndVerify) = 9
  BY DEF Clocks!OtpWriteAndVerify, Clocks!Enable
<1>4. /\ Clocks!OtpWriteAndVerify[1] = Clocks!Step("get", "CTRL0")
      /\ Clocks!OtpWriteAndVerify[2] = Clocks!Step("low", "FORCE_SYS_XTI")
      /\ Clocks!OtpWriteAndVerify[3] = Clocks!Step("high", "FORCE_SYS_XTI")
      /\ Clocks!OtpWriteAndVerify[4] = Clocks!Step("mode", 1)
      /\ Clocks!OtpWriteAndVerify[5] = Clocks!Step("program", 1)
      /\ Clocks!OtpWriteAndVerify[6] = Clocks!Step("check", 1)
      /\ Clocks!OtpWriteAndVerify[7] = Clocks!Step("mode", 4)
      /\ Clocks!OtpWriteAndVerify[8] = Clocks!Step("verify", 4)
      /\ Clocks!OtpWriteAndVerify[9] = Clocks!Step("mode", 0)
  BY DEF Clocks!OtpWriteAndVerify, Clocks!Enable
<1> QED
  BY <1>2, <1>3, <1>4

\* dwt_readaccdata, which the routine's callback calls.
LEMMA ReadAccSteps ==
    LET s == Clocks!ReadAccData
    IN  /\ IsList(s) /\ Len(s) = 7 /\ s[1] = Clocks!Step("get", "CTRL0")
        /\ s[2] = Clocks!Step("low", "READ_ACC_ON")
        /\ s[3] = Clocks!Step("high", "READ_ACC_ON") /\ s[4] = Clocks!Step("use", "acc")
        /\ s[5] = Clocks!Step("get", "CTRL0") /\ s[6] = Clocks!Step("low", "READ_ACC_OFF")
        /\ s[7] = Clocks!Step("high", "READ_ACC_OFF")
<1>1. Clocks!ReadAccData \in Seq({Clocks!Step("get", "CTRL0"),
            Clocks!Step("low", "READ_ACC_ON"),
            Clocks!Step("high", "READ_ACC_ON"),
            Clocks!Step("use", "acc"),
            Clocks!Step("low", "READ_ACC_OFF"),
            Clocks!Step("high", "READ_ACC_OFF")})
  BY DEF Clocks!ReadAccData, Clocks!Enable, Clocks!Use
<1>2. IsList(Clocks!ReadAccData)
  BY <1>1 DEF IsList
<1>3. Len(Clocks!ReadAccData) = 7
  BY DEF Clocks!ReadAccData, Clocks!Enable, Clocks!Use
<1>4. /\ Clocks!ReadAccData[1] = Clocks!Step("get", "CTRL0")
      /\ Clocks!ReadAccData[2] = Clocks!Step("low", "READ_ACC_ON")
      /\ Clocks!ReadAccData[3] = Clocks!Step("high", "READ_ACC_ON")
      /\ Clocks!ReadAccData[4] = Clocks!Step("use", "acc")
      /\ Clocks!ReadAccData[5] = Clocks!Step("get", "CTRL0")
      /\ Clocks!ReadAccData[6] = Clocks!Step("low", "READ_ACC_OFF")
      /\ Clocks!ReadAccData[7] = Clocks!Step("high", "READ_ACC_OFF")
  BY DEF Clocks!ReadAccData, Clocks!Enable, Clocks!Use
<1> QED
  BY <1>2, <1>3, <1>4

\* dwt_rxreset, of the routine itself.
LEMMA RxResetSteps ==
    LET s == Clocks!RxReset
    IN  /\ IsList(s) /\ Len(s) = 2 /\ s[1] = Clocks!Step("rxreset", "RX")
        /\ s[2] = Clocks!Step("rxreset", "CLEAR")
<1>1. Clocks!RxReset \in Seq({Clocks!Step("rxreset", "RX"),
            Clocks!Step("rxreset", "CLEAR")})
  BY DEF Clocks!RxReset
<1>2. IsList(Clocks!RxReset)
  BY <1>1 DEF IsList
<1>3. Len(Clocks!RxReset) = 2
  BY DEF Clocks!RxReset
<1>4. /\ Clocks!RxReset[1] = Clocks!Step("rxreset", "RX")
      /\ Clocks!RxReset[2] = Clocks!Step("rxreset", "CLEAR")
  BY DEF Clocks!RxReset
<1> QED
  BY <1>2, <1>3, <1>4

-----------------------------------------------------------------------------
\* What a step makes of the clocks that the services of the thread switch.
OnAfter(s, on, base) ==
    CASE s.do = "low" -> (on \ Clocks!Low) \cup (Clocks!NewLow(s.arg, on) \cap Driven)
      [] s.do = "high" -> (on \ Clocks!High) \cup (Clocks!NewHigh(s.arg, on) \cap Driven)
      [] s.do = "set" -> on \cup (s.arg \cap Driven)
      [] s.do = "lowbyte" -> (on \ Clocks!Low) \cup s.arg
      [] s.do = "highbyte" -> (on \ Clocks!High) \cup (s.arg \cap Driven)
      [] s.do = "restore" ->
           IF s.arg = "CTRL0" THEN (on \ Clocks!Low) \cup (base \cap Clocks!Low) ELSE on
      [] s.do = "softreset" -> {}
      [] OTHER -> on

\* The steps are those the tables above are about.
Takes(service, k) ==
    LET s == Clocks!Steps(service)[k]
    IN  \/ service = "softreset" /\ k <= 4
        \/ /\ \A base \in Bases: OnAfter(s, On(service, k, base), base) = On(service, k + 1, base)
           /\ InSequence(service, k + 1) <=>
                IF s.do = "ctrl1" THEN s.arg
                ELSE \/ InSequence(service, k) \/ s.do = "softreset"
                     \/ s.do = "restore" /\ s.arg = "CTRL1"
           /\ Forces(service, k + 1) <=>
                IF s.do = "rf" THEN s.arg
                ELSE /\ Forces(service, k) /\ s.do # "softreset"
                     /\ ~(s.do = "restore" /\ s.arg = "RF_CONF")

\* A byte is written only as it was read just before, and none of the receiver is forced.
ThreadClocks == {"ENABLE_ALL_SEQ", "FORCE_SYS_XTI", "FORCE_SYS_PLL", "FORCE_TX_PLL", "FORCE_LDE"}

InOrder(service, k) ==
    LET s == Clocks!Steps(service)[k]
        before == Clocks!Steps(service)[k - 1].do
    IN  /\ s.do \in {"get", "low", "high", "set", "clear", "lowbyte", "highbyte", "ctrl1", "rf",
                     "save", "restore", "use", "mode", "program", "check", "verify", "softreset"}
        /\ s.do \in {"low", "set", "clear"} => k > 1 /\ before = "get"
        /\ s.do = "high" => k > 1 /\ before = "low"
        /\ s.do \in {"low", "high"} => s.arg \in ThreadClocks
        /\ s.do = "set" => s.arg \subseteq Clocks!Third \cup Clocks!Fourth
        /\ s.do = "clear" => s.arg \subseteq Clocks!Fourth /\ service = "sniff_off" /\ k = 2
        /\ s.do = "lowbyte" => s.arg \subseteq Driven \cap Clocks!Low
        /\ s.do = "highbyte" => s.arg \subseteq Clocks!High \ {"ACC"}
        /\ s.do \in {"ctrl1", "rf"} => s.arg \in BOOLEAN
        /\ s.do \in {"save", "restore"} => s.arg \in {"CTRL0", "CTRL1", "RF_CONF"}
        /\ s.do = "save" => service = "calcbandwidthtempadj" /\ k <= 3
        /\ s.do = "save" /\ k = 1 => s.arg = "CTRL0"
        /\ s.do = "save" /\ k > 1 => s.arg # "CTRL0"
        /\ s.do = "restore" => service = "calcbandwidthtempadj" /\ k > 3
        /\ service = "calcbandwidthtempadj" /\ k = 1 => s.do = "save"
        /\ s.do = "softreset" => service = "softreset"
        /\ s.do \in {"mode", "program", "check", "verify"} => service = "otpwriteandverify"

\* A unit is accessed only on the clocks it needs.
Serves(service, k) ==
    LET s == Clocks!Steps(service)[k]
    IN  /\ s.do = "use" =>
             /\ s.arg \in DOMAIN Clocks!Needs
             /\ \A base \in Bases: Clocks!Needs[s.arg] \subseteq On(service, k, base)
             /\ s.arg \in {"pg", "tx"} => ~InSequence(service, k) /\ Forces(service, k)
             /\ service # "softreset"
        /\ s.do \in {"program", "check", "verify"} =>
             \A base \in Bases: Crystal \subseteq On(service, k, base)

Fitting(service, k) == Takes(service, k) /\ InOrder(service, k) /\ Serves(service, k)

\* What forcing the clocks makes of those that are on.
LEMMA Forcing ==
    ASSUME NEW base \in Bases, NEW s
    PROVE  /\ s.do = "low" /\ s.arg \in {"FORCE_SYS_XTI", "FORCE_LDE"} =>
                OnAfter(s, base, base) = base \cup Crystal
           /\ s.do = "high" /\ s.arg = "FORCE_SYS_XTI" =>
                OnAfter(s, base \cup Crystal, base) = base \cup Crystal
           /\ s.do = "high" /\ s.arg = "FORCE_LDE" =>
                OnAfter(s, base \cup Crystal, base) = base \cup {"SYS_XTI", "LDE", "OTP"}
           /\ s.do = "low" /\ s.arg = "FORCE_SYS_PLL" =>
                OnAfter(s, base \cup Crystal, base) = (base \ Crystal) \cup {"SYS_PLL"}
           /\ s.do = "high" /\ s.arg = "FORCE_SYS_PLL" =>
                OnAfter(s, (base \ Crystal) \cup {"SYS_PLL"}, base) = (base \ Crystal) \cup {"SYS_PLL"}
           /\ s.do = "low" /\ s.arg = "FORCE_TX_PLL" =>
                OnAfter(s, (base \ Crystal) \cup {"SYS_PLL"}, base) = (base \ Crystal) \cup Synthesizer
           /\ s.do = "high" /\ s.arg = "FORCE_TX_PLL" =>
                OnAfter(s, (base \ Crystal) \cup Synthesizer, base) = (base \ Crystal) \cup Synthesizer
<1> DEFINE on == OnAfter(s, base, base)
           onCrystal == OnAfter(s, base \cup Crystal, base)
           onPll == OnAfter(s, (base \ Crystal) \cup {"SYS_PLL"}, base)
           onSynth == OnAfter(s, (base \ Crystal) \cup Synthesizer, base)
<1>1. base \subseteq Lasting
  BY DEF Bases
<1>2. ASSUME s.do = "low", s.arg \in {"FORCE_SYS_XTI", "FORCE_LDE"} PROVE on = base \cup Crystal
  BY <1>1, <1>2 DEF OnAfter, Lasting, Crystal, Driven, Clocks!NewLow, Clocks!Low, Clocks!SysClks,
                    Clocks!RxClks, Clocks!TxClks
<1>3. ASSUME s.do = "high", s.arg = "FORCE_SYS_XTI" PROVE onCrystal = base \cup Crystal
  BY <1>1, <1>3 DEF OnAfter, Lasting, Crystal, Driven, Clocks!NewHigh, Clocks!High
<1>4. ASSUME s.do = "high", s.arg = "FORCE_LDE" PROVE onCrystal = base \cup {"SYS_XTI", "LDE", "OTP"}
  BY <1>1, <1>4 DEF OnAfter, Lasting, Crystal, Driven, Clocks!NewHigh, Clocks!High
<1>5. ASSUME s.do = "low", s.arg = "FORCE_SYS_PLL" PROVE onCrystal = (base \ Crystal) \cup {"SYS_PLL"}
  BY <1>1, <1>5 DEF OnAfter, Lasting, Crystal, Driven, Clocks!NewLow, Clocks!Low, Clocks!SysClks,
                    Clocks!RxClks, Clocks!TxClks
<1>6. ASSUME s.do = "high", s.arg = "FORCE_SYS_PLL" PROVE onPll = (base \ Crystal) \cup {"SYS_PLL"}
  BY <1>1, <1>6 DEF OnAfter, Lasting, Crystal, Driven, Clocks!NewHigh, Clocks!High
<1>7. ASSUME s.do = "low", s.arg = "FORCE_TX_PLL" PROVE onPll = (base \ Crystal) \cup Synthesizer
  BY <1>1, <1>7 DEF OnAfter, Lasting, Crystal, Synthesizer, Driven, Clocks!NewLow, Clocks!Low,
                    Clocks!SysClks, Clocks!RxClks, Clocks!TxClks
<1>8. ASSUME s.do = "high", s.arg = "FORCE_TX_PLL" PROVE onSynth = (base \ Crystal) \cup Synthesizer
  BY <1>1, <1>8 DEF OnAfter, Lasting, Crystal, Synthesizer, Driven, Clocks!NewHigh, Clocks!High
<1> HIDE DEF on, onCrystal, onPll, onSynth
<1> QED
  BY <1>2, <1>3, <1>4, <1>5, <1>6, <1>7, <1>8 DEF on, onCrystal, onPll, onSynth

\* What giving them back makes of them.
LEMMA GivingBack ==
    ASSUME NEW base \in Bases, NEW s
    PROVE  /\ s.do = "low" /\ s.arg = "ENABLE_ALL_SEQ" =>
                /\ OnAfter(s, base \cup Crystal, base) = base \ Crystal
                /\ OnAfter(s, base \cup {"SYS_XTI", "LDE", "OTP"}, base) = (base \ Crystal) \cup {"LDE", "OTP"}
           /\ s.do = "high" /\ s.arg = "ENABLE_ALL_SEQ" =>
                /\ OnAfter(s, base \ Crystal, base) = base \ Crystal
                /\ OnAfter(s, (base \ Crystal) \cup {"LDE", "OTP"}, base) = (base \ Crystal) \cup {"OTP"}
<1> DEFINE on == OnAfter(s, base \cup Crystal, base)
           onLde == OnAfter(s, base \cup {"SYS_XTI", "LDE", "OTP"}, base)
           off == OnAfter(s, base \ Crystal, base)
           offLde == OnAfter(s, (base \ Crystal) \cup {"LDE", "OTP"}, base)
<1>1. base \subseteq Lasting
  BY DEF Bases
<1>2. ASSUME s.do = "low", s.arg = "ENABLE_ALL_SEQ" PROVE on = base \ Crystal
  BY <1>1, <1>2 DEF OnAfter, Lasting, Crystal, Driven, Clocks!NewLow, Clocks!Low, Clocks!SysClks,
                    Clocks!RxClks, Clocks!TxClks
<1>3. ASSUME s.do = "low", s.arg = "ENABLE_ALL_SEQ" PROVE onLde = (base \ Crystal) \cup {"LDE", "OTP"}
  BY <1>1, <1>3 DEF OnAfter, Lasting, Crystal, Driven, Clocks!NewLow, Clocks!Low, Clocks!SysClks,
                    Clocks!RxClks, Clocks!TxClks
<1>4. ASSUME s.do = "high", s.arg = "ENABLE_ALL_SEQ" PROVE off = base \ Crystal
  BY <1>1, <1>4 DEF OnAfter, Lasting, Crystal, Driven, Clocks!NewHigh, Clocks!High
<1>5. ASSUME s.do = "high", s.arg = "ENABLE_ALL_SEQ" PROVE offLde = (base \ Crystal) \cup {"OTP"}
  BY <1>1, <1>5 DEF OnAfter, Lasting, Crystal, Driven, Clocks!NewHigh, Clocks!High
<1> HIDE DEF on, onLde, off, offLde
<1> QED
  BY <1>2, <1>3, <1>4, <1>5 DEF on, onLde, off, offLde

\* And what writing a byte as given makes of them.
LEMMA Overwriting ==
    ASSUME NEW base \in Bases, NEW s
    PROVE  /\ s.do = "lowbyte" /\ s.arg = {"SYS_XTI"} => OnAfter(s, base, base) = base \cup Crystal
           /\ s.do = "lowbyte" /\ s.arg = {"SYS_PLL", "TX_PLL"} =>
                OnAfter(s, base \cup Crystal, base) = (base \ Crystal) \cup Synthesizer
           /\ s.do = "highbyte" /\ s.arg = {"LDE", "OTP", "TX_TEST"} =>
                OnAfter(s, (base \ Crystal) \cup Synthesizer, base)
                  = (base \ Crystal) \cup {"SYS_PLL", "TX_PLL", "LDE", "OTP", "TX_TEST"}
           /\ s.do = "restore" /\ s.arg = "CTRL0" =>
                OnAfter(s, (base \ Crystal) \cup Synthesizer, base) = base
<1> DEFINE on == OnAfter(s, base, base)
           onCrystal == OnAfter(s, base \cup Crystal, base)
           onSynth == OnAfter(s, (base \ Crystal) \cup Synthesizer, base)
<1>1. base \subseteq Lasting
  BY DEF Bases
<1>2. ASSUME s.do = "lowbyte", s.arg = {"SYS_XTI"} PROVE on = base \cup Crystal
  BY <1>1, <1>2 DEF OnAfter, Lasting, Crystal, Clocks!Low, Clocks!SysClks, Clocks!RxClks, Clocks!TxClks
<1>3. ASSUME s.do = "lowbyte", s.arg = {"SYS_PLL", "TX_PLL"}
      PROVE  onCrystal = (base \ Crystal) \cup Synthesizer
  BY <1>1, <1>3 DEF OnAfter, Lasting, Crystal, Synthesizer, Clocks!Low, Clocks!SysClks, Clocks!RxClks,
                    Clocks!TxClks
<1>4. ASSUME s.do = "highbyte", s.arg = {"LDE", "OTP", "TX_TEST"}
      PROVE  onSynth = (base \ Crystal) \cup {"SYS_PLL", "TX_PLL", "LDE", "OTP", "TX_TEST"}
  BY <1>1, <1>4 DEF OnAfter, Lasting, Crystal, Synthesizer, Driven, Clocks!High
<1>5. ASSUME s.do = "restore", s.arg = "CTRL0" PROVE onSynth = base
  BY <1>1, <1>5 DEF OnAfter, Lasting, Crystal, Synthesizer, Clocks!Low, Clocks!SysClks, Clocks!RxClks,
                    Clocks!TxClks
<1> HIDE DEF on, onCrystal, onSynth
<1> QED
  BY <1>2, <1>3, <1>4, <1>5 DEF on, onCrystal, onSynth

\* What is on before and after each step of a service, and that a unit is
\* used only on the clocks it needs: the OTP.
LEMMA OtpReadFits ==
    LET s == Clocks!Steps("otpread")
    IN  /\ IsList(s) /\ Len(s) = 7
        /\ \A k \in 1..7: Fitting("otpread", k)
<1> DEFINE s == Clocks!Steps("otpread")
<1>1. s = Clocks!OtpRead
  BY DEF Clocks!Steps
<1> HIDE DEF s
<1>2. /\ s[1].do = "get" /\ s[2].do = "low" /\ s[2].arg = "FORCE_SYS_XTI" /\ s[3].do = "high"
      /\ s[3].arg = "FORCE_SYS_XTI" /\ s[4].do = "use" /\ s[4].arg = "otp" /\ s[5].do = "get"
      /\ s[6].do = "low" /\ s[6].arg = "ENABLE_ALL_SEQ" /\ s[7].do = "high"
      /\ s[7].arg = "ENABLE_ALL_SEQ"
  BY <1>1, OtpReadSteps DEF Clocks!Step
<1>3. ASSUME NEW base
      PROVE  /\ On("otpread", 1, base) = base /\ On("otpread", 2, base) = base
             /\ On("otpread", 3, base) = base \cup Crystal
             /\ On("otpread", 4, base) = base \cup Crystal
             /\ On("otpread", 5, base) = base \cup Crystal
             /\ On("otpread", 6, base) = base \cup Crystal /\ On("otpread", 7, base) = base \ Crystal
             /\ On("otpread", 8, base) = base \ Crystal
  BY DEF On
<1>4. \A k \in 1..8: InSequence("otpread", k) /\ ~Forces("otpread", k)
  BY DEF InSequence, Forces
<1>5. ASSUME NEW k \in 1..7 PROVE Fitting("otpread", k)
  <2>1. k = 1 \/ k = 2 \/ k = 3 \/ k = 4 \/ k = 5 \/ k = 6 \/ k = 7
    OBVIOUS
  <2>2. InOrder("otpread", k)
    BY <1>2, <2>1 DEF InOrder, s, ThreadClocks
  <2>3. Serves("otpread", k)
    BY <1>2, <1>3, <1>4, <2>1 DEF Serves, s, Clocks!Needs, Crystal, Synthesizer
  <2>4. ASSUME NEW base \in Bases
        PROVE  OnAfter(s[k], On("otpread", k, base), base) = On("otpread", k + 1, base)
    <3>1. CASE k = 1 \/ k = 4 \/ k = 5
      <4>1. OnAfter(s[k], On("otpread", k, base), base) = On("otpread", k, base)
        BY <1>2, <3>1 DEF OnAfter
      <4>2. /\ On("otpread", 1, base) = On("otpread", 2, base)
            /\ On("otpread", 4, base) = On("otpread", 5, base)
            /\ On("otpread", 5, base) = On("otpread", 6, base)
        BY <1>3
      <4>3. On("otpread", k, base) = On("otpread", k + 1, base)
        BY <3>1, <4>2
      <4> QED
        BY <4>1, <4>3
    <3>2. CASE k = 2
      <4>1. s[2].do = "low" /\ s[2].arg = "FORCE_SYS_XTI"
        BY <1>2
      <4>2. OnAfter(s[2], base, base) = base \cup Crystal
        BY <4>1, Forcing
      <4>3. /\ On("otpread", 2, base) = base
            /\ On("otpread", 3, base) = base \cup Crystal
        BY <1>3
      <4>4. k + 1 = 3
        BY <3>2
      <4> QED
        BY <3>2, <4>2, <4>3, <4>4, Zenon
    <3>3. CASE k = 3
      <4>1. s[3].do = "high" /\ s[3].arg = "FORCE_SYS_XTI"
        BY <1>2
      <4>2. OnAfter(s[3], base \cup Crystal, base) = base \cup Crystal
        BY <4>1, Forcing
      <4>3. /\ On("otpread", 3, base) = base \cup Crystal
            /\ On("otpread", 4, base) = base \cup Crystal
        BY <1>3
      <4>4. k + 1 = 4
        BY <3>3
      <4> QED
        BY <3>3, <4>2, <4>3, <4>4, Zenon
    <3>4. CASE k = 6
      <4>1. s[6].do = "low" /\ s[6].arg = "ENABLE_ALL_SEQ"
        BY <1>2
      <4>2. OnAfter(s[6], base \cup Crystal, base) = base \ Crystal
        BY <4>1, GivingBack
      <4>3. /\ On("otpread", 6, base) = base \cup Crystal
            /\ On("otpread", 7, base) = base \ Crystal
        BY <1>3
      <4>4. k + 1 = 7
        BY <3>4
      <4> QED
        BY <3>4, <4>2, <4>3, <4>4, Zenon
    <3>5. CASE k = 7
      <4>1. s[7].do = "high" /\ s[7].arg = "ENABLE_ALL_SEQ"
        BY <1>2
      <4>2. OnAfter(s[7], base \ Crystal, base) = base \ Crystal
        BY <4>1, GivingBack
      <4>3. /\ On("otpread", 7, base) = base \ Crystal
            /\ On("otpread", 8, base) = base \ Crystal
        BY <1>3
      <4>4. k + 1 = 8
        BY <3>5
      <4> QED
        BY <3>5, <4>2, <4>3, <4>4, Zenon
    <3> QED
      BY <2>1, <3>1, <3>2, <3>3, <3>4, <3>5
  <2>5. Takes("otpread", k)
    BY <1>2, <1>4, <2>1, <2>4 DEF Takes, s
  <2> QED
    BY <2>2, <2>3, <2>5 DEF Fitting
<1> QED
  BY <1>1, <1>5, OtpReadSteps DEF s

\* The operating parameter set of the receiver.
LEMMA LoadOpsetFits ==
    LET s == Clocks!Steps("loadopsettabfromotp")
    IN  /\ IsList(s) /\ Len(s) = 7
        /\ \A k \in 1..7: Fitting("loadopsettabfromotp", k)
<1> DEFINE s == Clocks!Steps("loadopsettabfromotp")
<1>1. s = Clocks!LoadOpsetTab
  BY DEF Clocks!Steps
<1> HIDE DEF s
<1>2. /\ s[1].do = "get" /\ s[2].do = "low" /\ s[2].arg = "FORCE_LDE" /\ s[3].do = "high"
      /\ s[3].arg = "FORCE_LDE" /\ s[4].do = "use" /\ s[4].arg = "ops" /\ s[5].do = "get"
      /\ s[6].do = "low" /\ s[6].arg = "ENABLE_ALL_SEQ" /\ s[7].do = "high"
      /\ s[7].arg = "ENABLE_ALL_SEQ"
  BY <1>1, LoadOpsetSteps DEF Clocks!Step
<1>3. ASSUME NEW base
      PROVE  /\ On("loadopsettabfromotp", 1, base) = base /\ On("loadopsettabfromotp", 2, base) = base
             /\ On("loadopsettabfromotp", 3, base) = base \cup Crystal
             /\ On("loadopsettabfromotp", 4, base) = base \cup {"SYS_XTI", "LDE", "OTP"}
             /\ On("loadopsettabfromotp", 5, base) = base \cup {"SYS_XTI", "LDE", "OTP"}
             /\ On("loadopsettabfromotp", 6, base) = base \cup {"SYS_XTI", "LDE", "OTP"}
             /\ On("loadopsettabfromotp", 7, base) = (base \ Crystal) \cup {"LDE", "OTP"}
             /\ On("loadopsettabfromotp", 8, base) = (base \ Crystal) \cup {"OTP"}
  BY DEF On
<1>4. \A k \in 1..8: InSequence("loadopsettabfromotp", k) /\ ~Forces("loadopsettabfromotp", k)
  BY DEF InSequence, Forces
<1>5. ASSUME NEW k \in 1..7 PROVE Fitting("loadopsettabfromotp", k)
  <2>1. k = 1 \/ k = 2 \/ k = 3 \/ k = 4 \/ k = 5 \/ k = 6 \/ k = 7
    OBVIOUS
  <2>2. InOrder("loadopsettabfromotp", k)
    BY <1>2, <2>1 DEF InOrder, s, ThreadClocks
  <2>3. Serves("loadopsettabfromotp", k)
    BY <1>2, <1>3, <1>4, <2>1 DEF Serves, s, Clocks!Needs, Crystal, Synthesizer
  <2>4. ASSUME NEW base \in Bases
        PROVE  OnAfter(s[k], On("loadopsettabfromotp", k, base), base) = On("loadopsettabfromotp", k + 1, base)
    <3>1. CASE k = 1 \/ k = 4 \/ k = 5
      <4>1. OnAfter(s[k], On("loadopsettabfromotp", k, base), base) = On("loadopsettabfromotp", k, base)
        BY <1>2, <3>1 DEF OnAfter
      <4>2. /\ On("loadopsettabfromotp", 1, base) = On("loadopsettabfromotp", 2, base)
            /\ On("loadopsettabfromotp", 4, base) = On("loadopsettabfromotp", 5, base)
            /\ On("loadopsettabfromotp", 5, base) = On("loadopsettabfromotp", 6, base)
        BY <1>3
      <4>3. On("loadopsettabfromotp", k, base) = On("loadopsettabfromotp", k + 1, base)
        BY <3>1, <4>2
      <4> QED
        BY <4>1, <4>3
    <3>2. CASE k = 2
      <4>1. s[2].do = "low" /\ s[2].arg = "FORCE_LDE"
        BY <1>2
      <4>2. OnAfter(s[2], base, base) = base \cup Crystal
        BY <4>1, Forcing
      <4>3. /\ On("loadopsettabfromotp", 2, base) = base
            /\ On("loadopsettabfromotp", 3, base) = base \cup Crystal
        BY <1>3
      <4>4. k + 1 = 3
        BY <3>2
      <4> QED
        BY <3>2, <4>2, <4>3, <4>4, Zenon
    <3>3. CASE k = 3
      <4>1. s[3].do = "high" /\ s[3].arg = "FORCE_LDE"
        BY <1>2
      <4>2. OnAfter(s[3], base \cup Crystal, base) = base \cup {"SYS_XTI", "LDE", "OTP"}
        BY <4>1, Forcing
      <4>3. /\ On("loadopsettabfromotp", 3, base) = base \cup Crystal
            /\ On("loadopsettabfromotp", 4, base) = base \cup {"SYS_XTI", "LDE", "OTP"}
        BY <1>3
      <4>4. k + 1 = 4
        BY <3>3
      <4> QED
        BY <3>3, <4>2, <4>3, <4>4, Zenon
    <3>4. CASE k = 6
      <4>1. s[6].do = "low" /\ s[6].arg = "ENABLE_ALL_SEQ"
        BY <1>2
      <4>2. OnAfter(s[6], base \cup {"SYS_XTI", "LDE", "OTP"}, base) = (base \ Crystal) \cup {"LDE", "OTP"}
        BY <4>1, GivingBack
      <4>3. /\ On("loadopsettabfromotp", 6, base) = base \cup {"SYS_XTI", "LDE", "OTP"}
            /\ On("loadopsettabfromotp", 7, base) = (base \ Crystal) \cup {"LDE", "OTP"}
        BY <1>3
      <4>4. k + 1 = 7
        BY <3>4
      <4> QED
        BY <3>4, <4>2, <4>3, <4>4, Zenon
    <3>5. CASE k = 7
      <4>1. s[7].do = "high" /\ s[7].arg = "ENABLE_ALL_SEQ"
        BY <1>2
      <4>2. OnAfter(s[7], (base \ Crystal) \cup {"LDE", "OTP"}, base) = (base \ Crystal) \cup {"OTP"}
        BY <4>1, GivingBack
      <4>3. /\ On("loadopsettabfromotp", 7, base) = (base \ Crystal) \cup {"LDE", "OTP"}
            /\ On("loadopsettabfromotp", 8, base) = (base \ Crystal) \cup {"OTP"}
        BY <1>3
      <4>4. k + 1 = 8
        BY <3>5
      <4> QED
        BY <3>5, <4>2, <4>3, <4>4, Zenon
    <3> QED
      BY <2>1, <3>1, <3>2, <3>3, <3>4, <3>5
  <2>5. Takes("loadopsettabfromotp", k)
    BY <1>2, <1>4, <2>1, <2>4 DEF Takes, s
  <2> QED
    BY <2>2, <2>3, <2>5 DEF Fitting
<1> QED
  BY <1>1, <1>5, LoadOpsetSteps DEF s

\* Temperature and voltage by a slow SPI.
LEMMA ReadTempSlowFits ==
    LET s == Clocks!Steps("readtempvbat_slow")
    IN  /\ IsList(s) /\ Len(s) = 8
        /\ \A k \in 1..8: Fitting("readtempvbat_slow", k)
<1> DEFINE s == Clocks!Steps("readtempvbat_slow")
<1>1. s = ReadTempSlow
  BY DEF Clocks!Steps, Clocks!ReadTempVbat, ReadTempSlow
<1> HIDE DEF s
<1>2. /\ s[1].do = "use" /\ s[1].arg = "bias" /\ s[2].do = "get" /\ s[3].do = "low"
      /\ s[3].arg = "FORCE_SYS_XTI" /\ s[4].do = "high" /\ s[4].arg = "FORCE_SYS_XTI"
      /\ s[5].do = "use" /\ s[5].arg = "sar" /\ s[6].do = "get" /\ s[7].do = "low"
      /\ s[7].arg = "ENABLE_ALL_SEQ" /\ s[8].do = "high" /\ s[8].arg = "ENABLE_ALL_SEQ"
  BY <1>1, ReadTempSlowSteps DEF Clocks!Step
<1>3. ASSUME NEW base
      PROVE  /\ On("readtempvbat_slow", 1, base) = base /\ On("readtempvbat_slow", 2, base) = base
             /\ On("readtempvbat_slow", 3, base) = base
             /\ On("readtempvbat_slow", 4, base) = base \cup Crystal
             /\ On("readtempvbat_slow", 5, base) = base \cup Crystal
             /\ On("readtempvbat_slow", 6, base) = base \cup Crystal
             /\ On("readtempvbat_slow", 7, base) = base \cup Crystal
             /\ On("readtempvbat_slow", 8, base) = base \ Crystal
             /\ On("readtempvbat_slow", 9, base) = base \ Crystal
  BY DEF On
<1>4. \A k \in 1..9: InSequence("readtempvbat_slow", k) /\ ~Forces("readtempvbat_slow", k)
  BY DEF InSequence, Forces
<1>5. ASSUME NEW k \in 1..8 PROVE Fitting("readtempvbat_slow", k)
  <2>1. k = 1 \/ k = 2 \/ k = 3 \/ k = 4 \/ k = 5 \/ k = 6 \/ k = 7 \/ k = 8
    OBVIOUS
  <2>2. InOrder("readtempvbat_slow", k)
    BY <1>2, <2>1 DEF InOrder, s, ThreadClocks
  <2>3. Serves("readtempvbat_slow", k)
    BY <1>2, <1>3, <1>4, <2>1 DEF Serves, s, Clocks!Needs, Crystal, Synthesizer
  <2>4. ASSUME NEW base \in Bases
        PROVE  OnAfter(s[k], On("readtempvbat_slow", k, base), base) = On("readtempvbat_slow", k + 1, base)
    <3>1. CASE k = 1 \/ k = 2 \/ k = 5 \/ k = 6
      <4>1. OnAfter(s[k], On("readtempvbat_slow", k, base), base) = On("readtempvbat_slow", k, base)
        BY <1>2, <3>1 DEF OnAfter
      <4>2. /\ On("readtempvbat_slow", 1, base) = On("readtempvbat_slow", 2, base)
            /\ On("readtempvbat_slow", 2, base) = On("readtempvbat_slow", 3, base)
            /\ On("readtempvbat_slow", 5, base) = On("readtempvbat_slow", 6, base)
            /\ On("readtempvbat_slow", 6, base) = On("readtempvbat_slow", 7, base)
        BY <1>3
      <4>3. On("readtempvbat_slow", k, base) = On("readtempvbat_slow", k + 1, base)
        BY <3>1, <4>2
      <4> QED
        BY <4>1, <4>3
    <3>2. CASE k = 3
      <4>1. s[3].do = "low" /\ s[3].arg = "FORCE_SYS_XTI"
        BY <1>2
      <4>2. OnAfter(s[3], base, base) = base \cup Crystal
        BY <4>1, Forcing
      <4>3. /\ On("readtempvbat_slow", 3, base) = base
            /\ On("readtempvbat_slow", 4, base) = base \cup Crystal
        BY <1>3
      <4>4. k + 1 = 4
        BY <3>2
      <4> QED
        BY <3>2, <4>2, <4>3, <4>4, Zenon
    <3>3. CASE k = 4
      <4>1. s[4].do = "high" /\ s[4].arg = "FORCE_SYS_XTI"
        BY <1>2
      <4>2. OnAfter(s[4], base \cup Crystal, base) = base \cup Crystal
        BY <4>1, Forcing
      <4>3. /\ On("readtempvbat_slow", 4, base) = base \cup Crystal
            /\ On("readtempvbat_slow", 5, base) = base \cup Crystal
        BY <1>3
      <4>4. k + 1 = 5
        BY <3>3
      <4> QED
        BY <3>3, <4>2, <4>3, <4>4, Zenon
    <3>4. CASE k = 7
      <4>1. s[7].do = "low" /\ s[7].arg = "ENABLE_ALL_SEQ"
        BY <1>2
      <4>2. OnAfter(s[7], base \cup Crystal, base) = base \ Crystal
        BY <4>1, GivingBack
      <4>3. /\ On("readtempvbat_slow", 7, base) = base \cup Crystal
            /\ On("readtempvbat_slow", 8, base) = base \ Crystal
        BY <1>3
      <4>4. k + 1 = 8
        BY <3>4
      <4> QED
        BY <3>4, <4>2, <4>3, <4>4, Zenon
    <3>5. CASE k = 8
      <4>1. s[8].do = "high" /\ s[8].arg = "ENABLE_ALL_SEQ"
        BY <1>2
      <4>2. OnAfter(s[8], base \ Crystal, base) = base \ Crystal
        BY <4>1, GivingBack
      <4>3. /\ On("readtempvbat_slow", 8, base) = base \ Crystal
            /\ On("readtempvbat_slow", 9, base) = base \ Crystal
        BY <1>3
      <4>4. k + 1 = 9
        BY <3>5
      <4> QED
        BY <3>5, <4>2, <4>3, <4>4, Zenon
    <3> QED
      BY <2>1, <3>1, <3>2, <3>3, <3>4, <3>5
  <2>5. Takes("readtempvbat_slow", k)
    BY <1>2, <1>4, <2>1, <2>4 DEF Takes, s
  <2> QED
    BY <2>2, <2>3, <2>5 DEF Fitting
<1> QED
  BY <1>1, <1>5, ReadTempSlowSteps DEF s

\* And by a fast one, which forces nothing.
LEMMA ReadTempFastFits ==
    LET s == Clocks!Steps("readtempvbat_fast")
    IN  /\ IsList(s) /\ Len(s) = 1
        /\ \A k \in 1..1: Fitting("readtempvbat_fast", k)
<1> DEFINE s == Clocks!Steps("readtempvbat_fast")
<1>1. s = Clocks!Use("bias")
  BY DEF Clocks!Steps, Clocks!ReadTempVbat
<1> HIDE DEF s
<1>2. /\ s[1].do = "use" /\ s[1].arg = "bias"
  BY <1>1, ReadTempFastSteps DEF Clocks!Step
<1>3. ASSUME NEW base
      PROVE  /\ On("readtempvbat_fast", 1, base) = base /\ On("readtempvbat_fast", 2, base) = base
  BY DEF On
<1>4. \A k \in 1..2: InSequence("readtempvbat_fast", k) /\ ~Forces("readtempvbat_fast", k)
  BY DEF InSequence, Forces
<1>5. ASSUME NEW k \in 1..1 PROVE Fitting("readtempvbat_fast", k)
  <2>1. k = 1
    OBVIOUS
  <2>2. InOrder("readtempvbat_fast", k)
    BY <1>2, <2>1 DEF InOrder, s, ThreadClocks
  <2>3. Serves("readtempvbat_fast", k)
    BY <1>2, <1>3, <1>4, <2>1 DEF Serves, s, Clocks!Needs, Crystal, Synthesizer
  <2>4. ASSUME NEW base \in Bases
        PROVE  OnAfter(s[k], On("readtempvbat_fast", k, base), base) = On("readtempvbat_fast", k + 1, base)
    <3>1. CASE k = 1
      <4>1. OnAfter(s[k], On("readtempvbat_fast", k, base), base) = On("readtempvbat_fast", k, base)
        BY <1>2, <3>1 DEF OnAfter
      <4>2. /\ On("readtempvbat_fast", 1, base) = On("readtempvbat_fast", 2, base)
        BY <1>3
      <4>3. On("readtempvbat_fast", k, base) = On("readtempvbat_fast", k + 1, base)
        BY <3>1, <4>2
      <4> QED
        BY <4>1, <4>3
    <3> QED
      BY <2>1, <3>1
  <2>5. Takes("readtempvbat_fast", k)
    BY <1>2, <1>4, <2>1, <2>4 DEF Takes, s
  <2> QED
    BY <2>2, <2>3, <2>5 DEF Fitting
<1> QED
  BY <1>1, <1>5, ReadTempFastSteps DEF s

\* The calibration of the pulse generator.
LEMMA CountPulsesFits ==
    LET s == Clocks!Steps("calcbandwidthtempadj")
    IN  /\ IsList(s) /\ Len(s) = 12
        /\ \A k \in 1..12: Fitting("calcbandwidthtempadj", k)
<1> DEFINE s == Clocks!Steps("calcbandwidthtempadj")
<1>1. s = Clocks!CountPulses
  BY DEF Clocks!Steps
<1> HIDE DEF s
<1>2. /\ s[1].do = "save" /\ s[1].arg = "CTRL0" /\ s[2].do = "save" /\ s[2].arg = "CTRL1"
      /\ s[3].do = "save" /\ s[3].arg = "RF_CONF" /\ s[4].do = "lowbyte"
      /\ s[4].arg = {"SYS_XTI"} /\ s[5].do = "ctrl1" /\ s[5].arg = FALSE /\ s[6].do = "rf"
      /\ s[6].arg = TRUE /\ s[7].do = "lowbyte" /\ s[7].arg = {"SYS_PLL", "TX_PLL"}
      /\ s[8].do = "use" /\ s[8].arg = "pg" /\ s[9].do = "use" /\ s[9].arg = "pg"
      /\ s[10].do = "restore" /\ s[10].arg = "CTRL0" /\ s[11].do = "restore"
      /\ s[11].arg = "CTRL1" /\ s[12].do = "restore" /\ s[12].arg = "RF_CONF"
  BY <1>1, CountPulsesSteps DEF Clocks!Step
<1>3. ASSUME NEW base
      PROVE  /\ On("calcbandwidthtempadj", 1, base) = base
             /\ On("calcbandwidthtempadj", 2, base) = base
             /\ On("calcbandwidthtempadj", 3, base) = base
             /\ On("calcbandwidthtempadj", 4, base) = base
             /\ On("calcbandwidthtempadj", 5, base) = base \cup Crystal
             /\ On("calcbandwidthtempadj", 6, base) = base \cup Crystal
             /\ On("calcbandwidthtempadj", 7, base) = base \cup Crystal
             /\ On("calcbandwidthtempadj", 8, base) = (base \ Crystal) \cup Synthesizer
             /\ On("calcbandwidthtempadj", 9, base) = (base \ Crystal) \cup Synthesizer
             /\ On("calcbandwidthtempadj", 10, base) = (base \ Crystal) \cup Synthesizer
             /\ On("calcbandwidthtempadj", 11, base) = base
             /\ On("calcbandwidthtempadj", 12, base) = base
             /\ On("calcbandwidthtempadj", 13, base) = base
  BY DEF On
<1>4. \A k \in 1..13: /\ InSequence("calcbandwidthtempadj", k) <=> k \notin 6..11
                      /\ Forces("calcbandwidthtempadj", k) <=> k \in 7..12
  BY DEF InSequence, Forces
<1>5. ASSUME NEW k \in 1..12 PROVE Fitting("calcbandwidthtempadj", k)
  <2>1. k = 1 \/ k = 2 \/ k = 3 \/ k = 4 \/ k = 5 \/ k = 6 \/ k = 7 \/ k = 8 \/ k = 9 \/ k = 10 \/ k = 11 \/ k = 12
    OBVIOUS
  <2>2. InOrder("calcbandwidthtempadj", k)
    <3>1. CASE k \notin {4, 5, 6, 7}
      BY <1>2, <2>1, <3>1 DEF InOrder, s, ThreadClocks
    <3>2. CASE k = 4
      BY <1>2, <3>2 DEF InOrder, s, Driven, Clocks!Low, Clocks!SysClks, Clocks!RxClks, Clocks!TxClks
    <3>3. CASE k = 5
      <4>1. s[5].arg \in BOOLEAN
        BY <1>2
      <4> QED
        BY <1>2, <3>3, <4>1 DEF InOrder, s
    <3>4. CASE k = 6
      <4>1. s[6].arg \in BOOLEAN
        BY <1>2
      <4> QED
        BY <1>2, <3>4, <4>1 DEF InOrder, s
    <3>5. CASE k = 7
      BY <1>2, <3>5 DEF InOrder, s, Driven, Clocks!Low, Clocks!SysClks, Clocks!RxClks, Clocks!TxClks
    <3> QED
      BY <3>1, <3>2, <3>3, <3>4, <3>5
  <2>3. Serves("calcbandwidthtempadj", k)
    BY <1>2, <1>3, <1>4, <2>1 DEF Serves, s, Clocks!Needs, Crystal, Synthesizer
  <2>4. ASSUME NEW base \in Bases
        PROVE  OnAfter(s[k], On("calcbandwidthtempadj", k, base), base) = On("calcbandwidthtempadj", k + 1, base)
    <3>1. CASE k = 1 \/ k = 2 \/ k = 3 \/ k = 5 \/ k = 6 \/ k = 8 \/ k = 9 \/ k = 11 \/ k = 12
      <4>1. OnAfter(s[k], On("calcbandwidthtempadj", k, base), base) = On("calcbandwidthtempadj", k, base)
        BY <1>2, <3>1 DEF OnAfter
      <4>2. On("calcbandwidthtempadj", 1, base) = On("calcbandwidthtempadj", 2, base)
        BY DEF On
      <4>3. On("calcbandwidthtempadj", 2, base) = On("calcbandwidthtempadj", 3, base)
        BY DEF On
      <4>4. On("calcbandwidthtempadj", 3, base) = On("calcbandwidthtempadj", 4, base)
        BY DEF On
      <4>5. On("calcbandwidthtempadj", 5, base) = On("calcbandwidthtempadj", 6, base)
        BY DEF On
      <4>6. On("calcbandwidthtempadj", 6, base) = On("calcbandwidthtempadj", 7, base)
        BY DEF On
      <4>7. On("calcbandwidthtempadj", 8, base) = On("calcbandwidthtempadj", 9, base)
        BY DEF On
      <4>8. On("calcbandwidthtempadj", 9, base) = On("calcbandwidthtempadj", 10, base)
        BY DEF On
      <4>9. On("calcbandwidthtempadj", 11, base) = On("calcbandwidthtempadj", 12, base)
        BY DEF On
      <4>10. On("calcbandwidthtempadj", 12, base) = On("calcbandwidthtempadj", 13, base)
        BY DEF On
      <4>11. On("calcbandwidthtempadj", k, base) = On("calcbandwidthtempadj", k + 1, base)
        BY <3>1, <4>2, <4>3, <4>4, <4>5, <4>6, <4>7, <4>8, <4>9, <4>10
      <4> QED
        BY <4>1, <4>11
    <3>2. CASE k = 4
      <4>1. s[4].do = "lowbyte" /\ s[4].arg = {"SYS_XTI"}
        BY <1>2
      <4>2. OnAfter(s[4], base, base) = base \cup Crystal
        BY <4>1, Overwriting
      <4>3. /\ On("calcbandwidthtempadj", 4, base) = base
            /\ On("calcbandwidthtempadj", 5, base) = base \cup Crystal
        BY <1>3
      <4>4. k + 1 = 5
        BY <3>2
      <4> QED
        BY <3>2, <4>2, <4>3, <4>4, Zenon
    <3>3. CASE k = 7
      <4>1. s[7].do = "lowbyte" /\ s[7].arg = {"SYS_PLL", "TX_PLL"}
        BY <1>2
      <4>2. OnAfter(s[7], base \cup Crystal, base) = (base \ Crystal) \cup Synthesizer
        BY <4>1, Overwriting
      <4>3. /\ On("calcbandwidthtempadj", 7, base) = base \cup Crystal
            /\ On("calcbandwidthtempadj", 8, base) = (base \ Crystal) \cup Synthesizer
        BY <1>3
      <4>4. k + 1 = 8
        BY <3>3
      <4> QED
        BY <3>3, <4>2, <4>3, <4>4, Zenon
    <3>4. CASE k = 10
      <4>1. s[10].do = "restore" /\ s[10].arg = "CTRL0"
        BY <1>2
      <4>2. OnAfter(s[10], (base \ Crystal) \cup Synthesizer, base) = base
        BY <4>1, Overwriting
      <4>3. /\ On("calcbandwidthtempadj", 10, base) = (base \ Crystal) \cup Synthesizer
            /\ On("calcbandwidthtempadj", 11, base) = base
        BY <1>3
      <4>4. k + 1 = 11
        BY <3>4
      <4> QED
        BY <3>4, <4>2, <4>3, <4>4, Zenon
    <3> QED
      BY <2>1, <3>1, <3>2, <3>3, <3>4
  <2>5. Takes("calcbandwidthtempadj", k)
    BY <1>2, <1>4, <2>1, <2>4 DEF Takes, s
  <2> QED
    BY <2>2, <2>3, <2>5 DEF Fitting
<1> QED
  BY <1>1, <1>5, CountPulsesSteps DEF s

\* The clocks of the pins.
LEMMA GpioClocksFits ==
    LET s == Clocks!Steps("enablegpioclocks")
    IN  /\ IsList(s) /\ Len(s) = 2
        /\ \A k \in 1..2: Fitting("enablegpioclocks", k)
<1> DEFINE s == Clocks!Steps("enablegpioclocks")
<1>1. s = Clocks!EnableGpioClocks
  BY DEF Clocks!Steps
<1> HIDE DEF s
<1>2. /\ s[1].do = "get" /\ s[2].do = "set" /\ s[2].arg = {"GPCE", "GPRN"}
  BY <1>1, GpioClocksSteps DEF Clocks!Step
<1>3. ASSUME NEW base
      PROVE  /\ On("enablegpioclocks", 1, base) = base /\ On("enablegpioclocks", 2, base) = base
             /\ On("enablegpioclocks", 3, base) = base \cup {"GPCE", "GPRN"}
  BY DEF On
<1>4. \A k \in 1..3: InSequence("enablegpioclocks", k) /\ ~Forces("enablegpioclocks", k)
  BY DEF InSequence, Forces
<1>5. ASSUME NEW k \in 1..2 PROVE Fitting("enablegpioclocks", k)
  <2>1. k = 1 \/ k = 2
    OBVIOUS
  <2>2. InOrder("enablegpioclocks", k)
    BY <1>2, <2>1 DEF InOrder, s, ThreadClocks, Clocks!Third, Clocks!Fourth
  <2>3. Serves("enablegpioclocks", k)
    BY <1>2, <1>3, <1>4, <2>1 DEF Serves, s, Clocks!Needs, Crystal, Synthesizer
  <2>4. ASSUME NEW base \in Bases
        PROVE  OnAfter(s[k], On("enablegpioclocks", k, base), base) = On("enablegpioclocks", k + 1, base)
    <3>1. CASE k = 1
      <4>1. OnAfter(s[k], On("enablegpioclocks", k, base), base) = On("enablegpioclocks", k, base)
        BY <1>2, <3>1 DEF OnAfter
      <4>2. /\ On("enablegpioclocks", 1, base) = On("enablegpioclocks", 2, base)
        BY <1>3
      <4>3. On("enablegpioclocks", k, base) = On("enablegpioclocks", k + 1, base)
        BY <3>1, <4>2
      <4> QED
        BY <4>1, <4>3
    <3>2. CASE k = 2
      BY <1>2, <1>3, <3>2 DEF OnAfter, Driven
    <3> QED
      BY <2>1, <3>1, <3>2
  <2>5. Takes("enablegpioclocks", k)
    BY <1>2, <1>4, <2>1, <2>4 DEF Takes, s
  <2> QED
    BY <2>2, <2>3, <2>5 DEF Fitting
<1> QED
  BY <1>1, <1>5, GpioClocksSteps DEF s

\* The clocks of the LEDs.
LEMMA LedsFits ==
    LET s == Clocks!Steps("setleds")
    IN  /\ IsList(s) /\ Len(s) = 2
        /\ \A k \in 1..2: Fitting("setleds", k)
<1> DEFINE s == Clocks!Steps("setleds")
<1>1. s = Clocks!SetLeds
  BY DEF Clocks!Steps
<1> HIDE DEF s
<1>2. /\ s[1].do = "get" /\ s[2].do = "set" /\ s[2].arg = {"GPDCE", "KHZCLEN"}
  BY <1>1, LedsSteps DEF Clocks!Step
<1>3. ASSUME NEW base
      PROVE  /\ On("setleds", 1, base) = base /\ On("setleds", 2, base) = base
             /\ On("setleds", 3, base) = base \cup {"GPDCE", "KHZCLEN"}
  BY DEF On
<1>4. \A k \in 1..3: InSequence("setleds", k) /\ ~Forces("setleds", k)
  BY DEF InSequence, Forces
<1>5. ASSUME NEW k \in 1..2 PROVE Fitting("setleds", k)
  <2>1. k = 1 \/ k = 2
    OBVIOUS
  <2>2. InOrder("setleds", k)
    BY <1>2, <2>1 DEF InOrder, s, ThreadClocks, Clocks!Third, Clocks!Fourth
  <2>3. Serves("setleds", k)
    BY <1>2, <1>3, <1>4, <2>1 DEF Serves, s, Clocks!Needs, Crystal, Synthesizer
  <2>4. ASSUME NEW base \in Bases
        PROVE  OnAfter(s[k], On("setleds", k, base), base) = On("setleds", k + 1, base)
    <3>1. CASE k = 1
      <4>1. OnAfter(s[k], On("setleds", k, base), base) = On("setleds", k, base)
        BY <1>2, <3>1 DEF OnAfter
      <4>2. /\ On("setleds", 1, base) = On("setleds", 2, base)
        BY <1>3
      <4>3. On("setleds", k, base) = On("setleds", k + 1, base)
        BY <3>1, <4>2
      <4> QED
        BY <4>1, <4>3
    <3>2. CASE k = 2
      BY <1>2, <1>3, <3>2 DEF OnAfter, Driven
    <3> QED
      BY <2>1, <3>1, <3>2
  <2>5. Takes("setleds", k)
    BY <1>2, <1>4, <2>1, <2>4 DEF Takes, s
  <2> QED
    BY <2>2, <2>3, <2>5 DEF Fitting
<1> QED
  BY <1>1, <1>5, LedsSteps DEF s

\* SNIFF on.
LEMMA SniffOnFits ==
    LET s == Clocks!Steps("sniff_on")
    IN  /\ IsList(s) /\ Len(s) = 2
        /\ \A k \in 1..2: Fitting("sniff_on", k)
<1> DEFINE s == Clocks!Steps("sniff_on")
<1>1. s = Clocks!Set({"PLL2_SEQ_EN"})
  BY DEF Clocks!Steps
<1> HIDE DEF s
<1>2. /\ s[1].do = "get" /\ s[2].do = "set" /\ s[2].arg = {"PLL2_SEQ_EN"}
  BY <1>1, SniffOnSteps DEF Clocks!Step
<1>3. ASSUME NEW base
      PROVE  /\ On("sniff_on", 1, base) = base /\ On("sniff_on", 2, base) = base
             /\ On("sniff_on", 3, base) = base
  BY DEF On
<1>4. \A k \in 1..3: InSequence("sniff_on", k) /\ ~Forces("sniff_on", k)
  BY DEF InSequence, Forces
<1>5. ASSUME NEW k \in 1..2 PROVE Fitting("sniff_on", k)
  <2>1. k = 1 \/ k = 2
    OBVIOUS
  <2>2. InOrder("sniff_on", k)
    BY <1>2, <2>1 DEF InOrder, s, ThreadClocks, Clocks!Third, Clocks!Fourth
  <2>3. Serves("sniff_on", k)
    BY <1>2, <1>3, <1>4, <2>1 DEF Serves, s, Clocks!Needs, Crystal, Synthesizer
  <2>4. ASSUME NEW base \in Bases
        PROVE  OnAfter(s[k], On("sniff_on", k, base), base) = On("sniff_on", k + 1, base)
    <3>1. CASE k = 1
      <4>1. OnAfter(s[k], On("sniff_on", k, base), base) = On("sniff_on", k, base)
        BY <1>2, <3>1 DEF OnAfter
      <4>2. /\ On("sniff_on", 1, base) = On("sniff_on", 2, base)
        BY <1>3
      <4>3. On("sniff_on", k, base) = On("sniff_on", k + 1, base)
        BY <3>1, <4>2
      <4> QED
        BY <4>1, <4>3
    <3>2. CASE k = 2
      BY <1>2, <1>3, <3>2 DEF OnAfter, Driven
    <3> QED
      BY <2>1, <3>1, <3>2
  <2>5. Takes("sniff_on", k)
    BY <1>2, <1>4, <2>1, <2>4 DEF Takes, s
  <2> QED
    BY <2>2, <2>3, <2>5 DEF Fitting
<1> QED
  BY <1>1, <1>5, SniffOnSteps DEF s

\* SNIFF off.
LEMMA SniffOffFits ==
    LET s == Clocks!Steps("sniff_off")
    IN  /\ IsList(s) /\ Len(s) = 2
        /\ \A k \in 1..2: Fitting("sniff_off", k)
<1> DEFINE s == Clocks!Steps("sniff_off")
<1>1. s = Clocks!Clear({"PLL2_SEQ_EN"})
  BY DEF Clocks!Steps
<1> HIDE DEF s
<1>2. /\ s[1].do = "get" /\ s[2].do = "clear" /\ s[2].arg = {"PLL2_SEQ_EN"}
  BY <1>1, SniffOffSteps DEF Clocks!Step
<1>3. ASSUME NEW base
      PROVE  /\ On("sniff_off", 1, base) = base /\ On("sniff_off", 2, base) = base
             /\ On("sniff_off", 3, base) = base
  BY DEF On
<1>4. \A k \in 1..3: InSequence("sniff_off", k) /\ ~Forces("sniff_off", k)
  BY DEF InSequence, Forces
<1>5. ASSUME NEW k \in 1..2 PROVE Fitting("sniff_off", k)
  <2>1. k = 1 \/ k = 2
    OBVIOUS
  <2>2. InOrder("sniff_off", k)
    BY <1>2, <2>1 DEF InOrder, s, ThreadClocks, Clocks!Third, Clocks!Fourth
  <2>3. Serves("sniff_off", k)
    BY <1>2, <1>3, <1>4, <2>1 DEF Serves, s, Clocks!Needs, Crystal, Synthesizer
  <2>4. ASSUME NEW base \in Bases
        PROVE  OnAfter(s[k], On("sniff_off", k, base), base) = On("sniff_off", k + 1, base)
    <3>1. CASE k = 1 \/ k = 2
      <4>1. OnAfter(s[k], On("sniff_off", k, base), base) = On("sniff_off", k, base)
        BY <1>2, <3>1 DEF OnAfter
      <4>2. /\ On("sniff_off", 1, base) = On("sniff_off", 2, base)
            /\ On("sniff_off", 2, base) = On("sniff_off", 3, base)
        BY <1>3
      <4>3. On("sniff_off", k, base) = On("sniff_off", k + 1, base)
        BY <3>1, <4>2
      <4> QED
        BY <4>1, <4>3
    <3> QED
      BY <2>1, <3>1
  <2>5. Takes("sniff_off", k)
    BY <1>2, <1>4, <2>1, <2>4 DEF Takes, s
  <2> QED
    BY <2>2, <2>3, <2>5 DEF Fitting
<1> QED
  BY <1>1, <1>5, SniffOffSteps DEF s

\* The reset, which ends with what a chip starts with.
LEMMA SoftResetFits ==
    LET s == Clocks!Steps("softreset")
    IN  /\ IsList(s) /\ Len(s) = 6
        /\ \A k \in 1..6: Fitting("softreset", k)
<1> DEFINE s == Clocks!Steps("softreset")
<1>1. s = Clocks!SoftReset
  BY DEF Clocks!Steps
<1> HIDE DEF s
<1>2. /\ s[1].do = "get" /\ s[2].do = "low" /\ s[2].arg = "FORCE_SYS_XTI" /\ s[3].do = "high"
      /\ s[3].arg = "FORCE_SYS_XTI" /\ s[4].do = "ctrl1" /\ s[4].arg = FALSE
      /\ s[5].do = "softreset" /\ s[6].do = "softreset"
  BY <1>1, SoftResetSteps DEF Clocks!Step
<1>3. ASSUME NEW base
      PROVE  /\ On("softreset", 1, base) = {} /\ On("softreset", 2, base) = {}
             /\ On("softreset", 3, base) = {} /\ On("softreset", 4, base) = {}
             /\ On("softreset", 5, base) = {} /\ On("softreset", 6, base) = {}
             /\ On("softreset", 7, base) = {}
  BY DEF On
<1>4. \A k \in 1..7: InSequence("softreset", k) /\ ~Forces("softreset", k)
  BY DEF InSequence, Forces
<1>5. ASSUME NEW k \in 1..6 PROVE Fitting("softreset", k)
  <2>1. k = 1 \/ k = 2 \/ k = 3 \/ k = 4 \/ k = 5 \/ k = 6
    OBVIOUS
  <2>2. InOrder("softreset", k)
    <3>1. CASE k \notin {4}
      BY <1>2, <2>1, <3>1 DEF InOrder, s, ThreadClocks
    <3>2. CASE k = 4
      <4>1. s[4].arg \in BOOLEAN
        BY <1>2
      <4> QED
        BY <1>2, <3>2, <4>1 DEF InOrder, s
    <3> QED
      BY <3>1, <3>2
  <2>3. Serves("softreset", k)
    BY <1>2, <1>3, <1>4, <2>1 DEF Serves, s, Clocks!Needs, Crystal, Synthesizer
  <2>4. k >= 5 => \A base \in Bases: OnAfter(s[k], On("softreset", k, base), base) = On("softreset", k + 1, base)
    BY <1>2, <1>3, <2>1 DEF OnAfter
  <2>5. Takes("softreset", k)
    BY <1>2, <1>4, <2>1, <2>4 DEF Takes, s
  <2> QED
    BY <2>2, <2>3, <2>5 DEF Fitting
<1> QED
  BY <1>1, <1>5, SoftResetSteps DEF s

\* The continuous wave, which stays on.
LEMMA CwModeFits ==
    LET s == Clocks!Steps("configcwmode")
    IN  /\ IsList(s) /\ Len(s) = 8
        /\ \A k \in 1..8: Fitting("configcwmode", k)
<1> DEFINE s == Clocks!Steps("configcwmode")
<1>1. s = Clocks!ConfigCwMode
  BY DEF Clocks!Steps
<1> HIDE DEF s
<1>2. /\ s[1].do = "get" /\ s[2].do = "low" /\ s[2].arg = "FORCE_SYS_XTI" /\ s[3].do = "high"
      /\ s[3].arg = "FORCE_SYS_XTI" /\ s[4].do = "ctrl1" /\ s[4].arg = FALSE
      /\ s[5].do = "rf" /\ s[5].arg = TRUE /\ s[6].do = "lowbyte"
      /\ s[6].arg = {"SYS_PLL", "TX_PLL"} /\ s[7].do = "highbyte"
      /\ s[7].arg = {"LDE", "OTP", "TX_TEST"} /\ s[8].do = "use" /\ s[8].arg = "tx"
  BY <1>1, CwModeSteps DEF Clocks!Step
<1>3. ASSUME NEW base
      PROVE  /\ On("configcwmode", 1, base) = base /\ On("configcwmode", 2, base) = base
             /\ On("configcwmode", 3, base) = base \cup Crystal
             /\ On("configcwmode", 4, base) = base \cup Crystal
             /\ On("configcwmode", 5, base) = base \cup Crystal
             /\ On("configcwmode", 6, base) = base \cup Crystal
             /\ On("configcwmode", 7, base) = (base \ Crystal) \cup Synthesizer
             /\ On("configcwmode", 8, base) = (base \ Crystal) \cup {"SYS_PLL", "TX_PLL", "LDE", "OTP", "TX_TEST"}
             /\ On("configcwmode", 9, base) = (base \ Crystal) \cup {"SYS_PLL", "TX_PLL", "LDE", "OTP", "TX_TEST"}
  BY DEF On
<1>4. ASSUME NEW k \in 1..9
      PROVE  (InSequence("configcwmode", k) <=> k <= 4) /\ (Forces("configcwmode", k) <=> k >= 6)
  <2>1. InSequence("configcwmode", k) <=> k <= 4
    BY DEF InSequence
  <2>2. Forces("configcwmode", k) <=> k >= 6
    BY DEF Forces
  <2> QED
    BY <2>1, <2>2
<1>5. ASSUME NEW k \in 1..8 PROVE Fitting("configcwmode", k)
  <2>1. k = 1 \/ k = 2 \/ k = 3 \/ k = 4 \/ k = 5 \/ k = 6 \/ k = 7 \/ k = 8
    OBVIOUS
  <2>2. InOrder("configcwmode", k)
    <3>1. CASE k \notin {4, 5, 6, 7}
      BY <1>2, <2>1, <3>1 DEF InOrder, s, ThreadClocks
    <3>2. CASE k = 4
      <4>1. s[4].arg \in BOOLEAN
        BY <1>2
      <4> QED
        BY <1>2, <3>2, <4>1 DEF InOrder, s
    <3>3. CASE k = 5
      <4>1. s[5].arg \in BOOLEAN
        BY <1>2
      <4> QED
        BY <1>2, <3>3, <4>1 DEF InOrder, s
    <3>4. CASE k = 6
      BY <1>2, <3>4 DEF InOrder, s, Driven, Clocks!Low, Clocks!SysClks, Clocks!RxClks, Clocks!TxClks
    <3>5. CASE k = 7
      BY <1>2, <3>5 DEF InOrder, s, Clocks!High
    <3> QED
      BY <3>1, <3>2, <3>3, <3>4, <3>5
  <2>3. Serves("configcwmode", k)
    BY <1>2, <1>3, <1>4, <2>1 DEF Serves, s, Clocks!Needs, Crystal, Synthesizer
  <2>4. ASSUME NEW base \in Bases
        PROVE  OnAfter(s[k], On("configcwmode", k, base), base) = On("configcwmode", k + 1, base)
    <3>1. CASE k = 1 \/ k = 4 \/ k = 5 \/ k = 8
      <4>1. OnAfter(s[k], On("configcwmode", k, base), base) = On("configcwmode", k, base)
        BY <1>2, <3>1 DEF OnAfter
      <4>2. /\ On("configcwmode", 1, base) = On("configcwmode", 2, base)
            /\ On("configcwmode", 4, base) = On("configcwmode", 5, base)
            /\ On("configcwmode", 5, base) = On("configcwmode", 6, base)
            /\ On("configcwmode", 8, base) = On("configcwmode", 9, base)
        BY <1>3
      <4>3. On("configcwmode", k, base) = On("configcwmode", k + 1, base)
        BY <3>1, <4>2
      <4> QED
        BY <4>1, <4>3
    <3>2. CASE k = 2
      <4>1. s[2].do = "low" /\ s[2].arg = "FORCE_SYS_XTI"
        BY <1>2
      <4>2. OnAfter(s[2], base, base) = base \cup Crystal
        BY <4>1, Forcing
      <4>3. /\ On("configcwmode", 2, base) = base
            /\ On("configcwmode", 3, base) = base \cup Crystal
        BY <1>3
      <4>4. k + 1 = 3
        BY <3>2
      <4> QED
        BY <3>2, <4>2, <4>3, <4>4, Zenon
    <3>3. CASE k = 3
      <4>1. s[3].do = "high" /\ s[3].arg = "FORCE_SYS_XTI"
        BY <1>2
      <4>2. OnAfter(s[3], base \cup Crystal, base) = base \cup Crystal
        BY <4>1, Forcing
      <4>3. /\ On("configcwmode", 3, base) = base \cup Crystal
            /\ On("configcwmode", 4, base) = base \cup Crystal
        BY <1>3
      <4>4. k + 1 = 4
        BY <3>3
      <4> QED
        BY <3>3, <4>2, <4>3, <4>4, Zenon
    <3>4. CASE k = 6
      <4>1. s[6].do = "lowbyte" /\ s[6].arg = {"SYS_PLL", "TX_PLL"}
        BY <1>2
      <4>2. OnAfter(s[6], base \cup Crystal, base) = (base \ Crystal) \cup Synthesizer
        BY <4>1, Overwriting
      <4>3. /\ On("configcwmode", 6, base) = base \cup Crystal
            /\ On("configcwmode", 7, base) = (base \ Crystal) \cup Synthesizer
        BY <1>3
      <4>4. k + 1 = 7
        BY <3>4
      <4> QED
        BY <3>4, <4>2, <4>3, <4>4, Zenon
    <3>5. CASE k = 7
      <4>1. s[7].do = "highbyte" /\ s[7].arg = {"LDE", "OTP", "TX_TEST"}
        BY <1>2
      <4>2. OnAfter(s[7], (base \ Crystal) \cup Synthesizer, base) = (base \ Crystal) \cup {"SYS_PLL", "TX_PLL", "LDE", "OTP", "TX_TEST"}
        BY <4>1, Overwriting
      <4>3. /\ On("configcwmode", 7, base) = (base \ Crystal) \cup Synthesizer
            /\ On("configcwmode", 8, base) = (base \ Crystal) \cup {"SYS_PLL", "TX_PLL", "LDE", "OTP", "TX_TEST"}
        BY <1>3
      <4>4. k + 1 = 8
        BY <3>5
      <4> QED
        BY <3>5, <4>2, <4>3, <4>4, Zenon
    <3> QED
      BY <2>1, <3>1, <3>2, <3>3, <3>4, <3>5
  <2>5. Takes("configcwmode", k)
    BY <1>2, <1>4, <2>1, <2>4 DEF Takes, s
  <2> QED
    BY <2>2, <2>3, <2>5 DEF Fitting
<1> QED
  BY <1>1, <1>5, CwModeSteps DEF s

\* The continuous frames, which stay on.
LEMMA FrameModeFits ==
    LET s == Clocks!Steps("configcontinuousframemode")
    IN  /\ IsList(s) /\ Len(s) = 12
        /\ \A k \in 1..12: Fitting("configcontinuousframemode", k)
<1> DEFINE s == Clocks!Steps("configcontinuousframemode")
<1>1. s = Clocks!ConfigContinuousFrameMode
  BY DEF Clocks!Steps
<1> HIDE DEF s
<1>2. /\ s[1].do = "get" /\ s[2].do = "low" /\ s[2].arg = "FORCE_SYS_XTI" /\ s[3].do = "high"
      /\ s[3].arg = "FORCE_SYS_XTI" /\ s[4].do = "ctrl1" /\ s[4].arg = FALSE
      /\ s[5].do = "rf" /\ s[5].arg = TRUE /\ s[6].do = "get" /\ s[7].do = "low"
      /\ s[7].arg = "FORCE_SYS_PLL" /\ s[8].do = "high" /\ s[8].arg = "FORCE_SYS_PLL"
      /\ s[9].do = "get" /\ s[10].do = "low" /\ s[10].arg = "FORCE_TX_PLL"
      /\ s[11].do = "high" /\ s[11].arg = "FORCE_TX_PLL" /\ s[12].do = "use"
      /\ s[12].arg = "tx"
  BY <1>1, FrameModeSteps DEF Clocks!Step
<1>3. ASSUME NEW base
      PROVE  /\ On("configcontinuousframemode", 1, base) = base
             /\ On("configcontinuousframemode", 2, base) = base
             /\ On("configcontinuousframemode", 3, base) = base \cup Crystal
             /\ On("configcontinuousframemode", 4, base) = base \cup Crystal
             /\ On("configcontinuousframemode", 5, base) = base \cup Crystal
             /\ On("configcontinuousframemode", 6, base) = base \cup Crystal
             /\ On("configcontinuousframemode", 7, base) = base \cup Crystal
             /\ On("configcontinuousframemode", 8, base) = (base \ Crystal) \cup {"SYS_PLL"}
             /\ On("configcontinuousframemode", 9, base) = (base \ Crystal) \cup {"SYS_PLL"}
             /\ On("configcontinuousframemode", 10, base) = (base \ Crystal) \cup {"SYS_PLL"}
             /\ On("configcontinuousframemode", 11, base) = (base \ Crystal) \cup Synthesizer
             /\ On("configcontinuousframemode", 12, base) = (base \ Crystal) \cup Synthesizer
             /\ On("configcontinuousframemode", 13, base) = (base \ Crystal) \cup Synthesizer
  BY DEF On
<1>4. ASSUME NEW k \in 1..13
      PROVE  (InSequence("configcontinuousframemode", k) <=> k <= 4) /\ (Forces("configcontinuousframemode", k) <=> k >= 6)
  <2>1. InSequence("configcontinuousframemode", k) <=> k <= 4
    BY DEF InSequence
  <2>2. Forces("configcontinuousframemode", k) <=> k >= 6
    BY DEF Forces
  <2> QED
    BY <2>1, <2>2
<1>5. ASSUME NEW k \in 1..12 PROVE Fitting("configcontinuousframemode", k)
  <2>1. k = 1 \/ k = 2 \/ k = 3 \/ k = 4 \/ k = 5 \/ k = 6 \/ k = 7 \/ k = 8 \/ k = 9 \/ k = 10 \/ k = 11 \/ k = 12
    OBVIOUS
  <2>2. InOrder("configcontinuousframemode", k)
    <3>1. CASE k \notin {4, 5}
      BY <1>2, <2>1, <3>1 DEF InOrder, s, ThreadClocks
    <3>2. CASE k = 4
      <4>1. s[4].arg \in BOOLEAN
        BY <1>2
      <4> QED
        BY <1>2, <3>2, <4>1 DEF InOrder, s
    <3>3. CASE k = 5
      <4>1. s[5].arg \in BOOLEAN
        BY <1>2
      <4> QED
        BY <1>2, <3>3, <4>1 DEF InOrder, s
    <3> QED
      BY <3>1, <3>2, <3>3
  <2>3. Serves("configcontinuousframemode", k)
    BY <1>2, <1>3, <1>4, <2>1 DEF Serves, s, Clocks!Needs, Crystal, Synthesizer
  <2>4. ASSUME NEW base \in Bases
        PROVE  OnAfter(s[k], On("configcontinuousframemode", k, base), base) = On("configcontinuousframemode", k + 1, base)
    <3>1. CASE k = 1 \/ k = 4 \/ k = 5 \/ k = 6 \/ k = 9 \/ k = 12
      <4>1. OnAfter(s[k], On("configcontinuousframemode", k, base), base) = On("configcontinuousframemode", k, base)
        BY <1>2, <3>1 DEF OnAfter
      <4>2. On("configcontinuousframemode", 1, base) = On("configcontinuousframemode", 2, base)
        BY DEF On
      <4>3. On("configcontinuousframemode", 4, base) = On("configcontinuousframemode", 5, base)
        BY DEF On
      <4>4. On("configcontinuousframemode", 5, base) = On("configcontinuousframemode", 6, base)
        BY DEF On
      <4>5. On("configcontinuousframemode", 6, base) = On("configcontinuousframemode", 7, base)
        BY DEF On
      <4>6. On("configcontinuousframemode", 9, base) = On("configcontinuousframemode", 10, base)
        BY DEF On
      <4>7. On("configcontinuousframemode", 12, base) = On("configcontinuousframemode", 13, base)
        BY DEF On
      <4>8. On("configcontinuousframemode", k, base) = On("configcontinuousframemode", k + 1, base)
        BY <3>1, <4>2, <4>3, <4>4, <4>5, <4>6, <4>7
      <4> QED
        BY <4>1, <4>8
    <3>2. CASE k = 2
      <4>1. s[2].do = "low" /\ s[2].arg = "FORCE_SYS_XTI"
        BY <1>2
      <4>2. OnAfter(s[2], base, base) = base \cup Crystal
        BY <4>1, Forcing
      <4>3. /\ On("configcontinuousframemode", 2, base) = base
            /\ On("configcontinuousframemode", 3, base) = base \cup Crystal
        BY <1>3
      <4>4. k + 1 = 3
        BY <3>2
      <4> QED
        BY <3>2, <4>2, <4>3, <4>4, Zenon
    <3>3. CASE k = 3
      <4>1. s[3].do = "high" /\ s[3].arg = "FORCE_SYS_XTI"
        BY <1>2
      <4>2. OnAfter(s[3], base \cup Crystal, base) = base \cup Crystal
        BY <4>1, Forcing
      <4>3. /\ On("configcontinuousframemode", 3, base) = base \cup Crystal
            /\ On("configcontinuousframemode", 4, base) = base \cup Crystal
        BY <1>3
      <4>4. k + 1 = 4
        BY <3>3
      <4> QED
        BY <3>3, <4>2, <4>3, <4>4, Zenon
    <3>4. CASE k = 7
      <4>1. s[7].do = "low" /\ s[7].arg = "FORCE_SYS_PLL"
        BY <1>2
      <4>2. OnAfter(s[7], base \cup Crystal, base) = (base \ Crystal) \cup {"SYS_PLL"}
        BY <4>1, Forcing
      <4>3. /\ On("configcontinuousframemode", 7, base) = base \cup Crystal
            /\ On("configcontinuousframemode", 8, base) = (base \ Crystal) \cup {"SYS_PLL"}
        BY <1>3
      <4>4. k + 1 = 8
        BY <3>4
      <4> QED
        BY <3>4, <4>2, <4>3, <4>4, Zenon
    <3>5. CASE k = 8
      <4>1. s[8].do = "high" /\ s[8].arg = "FORCE_SYS_PLL"
        BY <1>2
      <4>2. OnAfter(s[8], (base \ Crystal) \cup {"SYS_PLL"}, base) = (base \ Crystal) \cup {"SYS_PLL"}
        BY <4>1, Forcing
      <4>3. /\ On("configcontinuousframemode", 8, base) = (base \ Crystal) \cup {"SYS_PLL"}
            /\ On("configcontinuousframemode", 9, base) = (base \ Crystal) \cup {"SYS_PLL"}
        BY <1>3
      <4>4. k + 1 = 9
        BY <3>5
      <4> QED
        BY <3>5, <4>2, <4>3, <4>4, Zenon
    <3>6. CASE k = 10
      <4>1. s[10].do = "low" /\ s[10].arg = "FORCE_TX_PLL"
        BY <1>2
      <4>2. OnAfter(s[10], (base \ Crystal) \cup {"SYS_PLL"}, base) = (base \ Crystal) \cup Synthesizer
        BY <4>1, Forcing
      <4>3. /\ On("configcontinuousframemode", 10, base) = (base \ Crystal) \cup {"SYS_PLL"}
            /\ On("configcontinuousframemode", 11, base) = (base \ Crystal) \cup Synthesizer
        BY <1>3
      <4>4. k + 1 = 11
        BY <3>6
      <4> QED
        BY <3>6, <4>2, <4>3, <4>4, Zenon
    <3>7. CASE k = 11
      <4>1. s[11].do = "high" /\ s[11].arg = "FORCE_TX_PLL"
        BY <1>2
      <4>2. OnAfter(s[11], (base \ Crystal) \cup Synthesizer, base) = (base \ Crystal) \cup Synthesizer
        BY <4>1, Forcing
      <4>3. /\ On("configcontinuousframemode", 11, base) = (base \ Crystal) \cup Synthesizer
            /\ On("configcontinuousframemode", 12, base) = (base \ Crystal) \cup Synthesizer
        BY <1>3
      <4>4. k + 1 = 12
        BY <3>7
      <4> QED
        BY <3>7, <4>2, <4>3, <4>4, Zenon
    <3> QED
      BY <2>1, <3>1, <3>2, <3>3, <3>4, <3>5, <3>6, <3>7
  <2>5. Takes("configcontinuousframemode", k)
    BY <1>2, <1>4, <2>1, <2>4 DEF Takes, s
  <2> QED
    BY <2>2, <2>3, <2>5 DEF Fitting
<1> QED
  BY <1>1, <1>5, FrameModeSteps DEF s

\* The programming of the OTP, all of it on the crystal.
LEMMA OtpWriteFits ==
    LET s == Clocks!Steps("otpwriteandverify")
    IN  /\ IsList(s) /\ Len(s) = 9
        /\ \A k \in 1..9: Fitting("otpwriteandverify", k)
<1> DEFINE s == Clocks!Steps("otpwriteandverify")
<1>1. s = Clocks!OtpWriteAndVerify
  BY DEF Clocks!Steps
<1> HIDE DEF s
<1>2. /\ s[1].do = "get" /\ s[2].do = "low" /\ s[2].arg = "FORCE_SYS_XTI" /\ s[3].do = "high"
      /\ s[3].arg = "FORCE_SYS_XTI" /\ s[4].do = "mode" /\ s[5].do = "program"
      /\ s[6].do = "check" /\ s[7].do = "mode" /\ s[8].do = "verify" /\ s[9].do = "mode"
  BY <1>1, OtpWriteSteps DEF Clocks!Step
<1>3. ASSUME NEW base
      PROVE  /\ On("otpwriteandverify", 1, base) = base /\ On("otpwriteandverify", 2, base) = base
             /\ On("otpwriteandverify", 3, base) = base \cup Crystal
             /\ On("otpwriteandverify", 4, base) = base \cup Crystal
             /\ On("otpwriteandverify", 5, base) = base \cup Crystal
             /\ On("otpwriteandverify", 6, base) = base \cup Crystal
             /\ On("otpwriteandverify", 7, base) = base \cup Crystal
             /\ On("otpwriteandverify", 8, base) = base \cup Crystal
             /\ On("otpwriteandverify", 9, base) = base \cup Crystal
             /\ On("otpwriteandverify", 10, base) = base \cup Crystal
  BY DEF On
<1>4. \A k \in 1..10: InSequence("otpwriteandverify", k) /\ ~Forces("otpwriteandverify", k)
  BY DEF InSequence, Forces
<1>5. ASSUME NEW k \in 1..9 PROVE Fitting("otpwriteandverify", k)
  <2>1. k = 1 \/ k = 2 \/ k = 3 \/ k = 4 \/ k = 5 \/ k = 6 \/ k = 7 \/ k = 8 \/ k = 9
    OBVIOUS
  <2>2. InOrder("otpwriteandverify", k)
    BY <1>2, <2>1 DEF InOrder, s, ThreadClocks
  <2>3. Serves("otpwriteandverify", k)
    BY <1>2, <1>3, <1>4, <2>1 DEF Serves, s, Clocks!Needs, Crystal, Synthesizer
  <2>4. ASSUME NEW base \in Bases
        PROVE  OnAfter(s[k], On("otpwriteandverify", k, base), base) = On("otpwriteandverify", k + 1, base)
    <3>1. CASE k = 1 \/ k = 4 \/ k = 5 \/ k = 6 \/ k = 7 \/ k = 8 \/ k = 9
      <4>1. OnAfter(s[k], On("otpwriteandverify", k, base), base) = On("otpwriteandverify", k, base)
        BY <1>2, <3>1 DEF OnAfter
      <4>2. /\ On("otpwriteandverify", 1, base) = On("otpwriteandverify", 2, base)
            /\ On("otpwriteandverify", 4, base) = On("otpwriteandverify", 5, base)
            /\ On("otpwriteandverify", 5, base) = On("otpwriteandverify", 6, base)
            /\ On("otpwriteandverify", 6, base) = On("otpwriteandverify", 7, base)
            /\ On("otpwriteandverify", 7, base) = On("otpwriteandverify", 8, base)
            /\ On("otpwriteandverify", 8, base) = On("otpwriteandverify", 9, base)
            /\ On("otpwriteandverify", 9, base) = On("otpwriteandverify", 10, base)
        BY <1>3
      <4>3. On("otpwriteandverify", k, base) = On("otpwriteandverify", k + 1, base)
        BY <3>1, <4>2
      <4> QED
        BY <4>1, <4>3
    <3>2. CASE k = 2
      <4>1. s[2].do = "low" /\ s[2].arg = "FORCE_SYS_XTI"
        BY <1>2
      <4>2. OnAfter(s[2], base, base) = base \cup Crystal
        BY <4>1, Forcing
      <4>3. /\ On("otpwriteandverify", 2, base) = base
            /\ On("otpwriteandverify", 3, base) = base \cup Crystal
        BY <1>3
      <4>4. k + 1 = 3
        BY <3>2
      <4> QED
        BY <3>2, <4>2, <4>3, <4>4, Zenon
    <3>3. CASE k = 3
      <4>1. s[3].do = "high" /\ s[3].arg = "FORCE_SYS_XTI"
        BY <1>2
      <4>2. OnAfter(s[3], base \cup Crystal, base) = base \cup Crystal
        BY <4>1, Forcing
      <4>3. /\ On("otpwriteandverify", 3, base) = base \cup Crystal
            /\ On("otpwriteandverify", 4, base) = base \cup Crystal
        BY <1>3
      <4>4. k + 1 = 4
        BY <3>3
      <4> QED
        BY <3>3, <4>2, <4>3, <4>4, Zenon
    <3> QED
      BY <2>1, <3>1, <3>2, <3>3
  <2>5. Takes("otpwriteandverify", k)
    BY <1>2, <1>4, <2>1, <2>4 DEF Takes, s
  <2> QED
    BY <2>2, <2>3, <2>5 DEF Fitting
<1> QED
  BY <1>1, <1>5, OtpWriteSteps DEF s

-----------------------------------------------------------------------------
\* A transfer changes the job that does it, and what its step says of the chip.
LEMMA Advances ==
    ASSUME ClockTypes, NEW who \in {"thread", "routine"}, Clocks!Advance(who)
    PROVE  LET job == jobs[who]
               s == Head(job.steps)
           IN  /\ job.steps # <<>>
               /\ who = "thread" => jobs["routine"].steps = <<>>
               /\ DOMAIN jobs' = {"thread", "routine"}
               /\ \A other \in {"thread", "routine"} \ {who}: jobs'[other] = jobs[other]
               /\ DOMAIN jobs'[who] = {"service", "steps", "reg", "saved"}
               /\ jobs'[who].service = job.service
               /\ jobs'[who].steps = Clocks!StepsAfter(s, Tail(job.steps))
               /\ jobs'[who].reg = IF s.do = "get" THEN pmsc.CTRL0 ELSE job.reg
               /\ jobs'[who].saved = IF s.do = "save" THEN [job.saved EXCEPT ![s.arg] = pmsc[s.arg]]
                                                      ELSE job.saved
               /\ pmsc' = Clocks!ChipAfter(s, job)
               /\ otp' \in Clocks!OtpAfter(s)
               /\ steady' = IF jobs'[who].steps = <<>> THEN Clocks!Leaves(job.service, steady) ELSE steady
<1> DEFINE job == jobs[who]
           s == Head(job.steps)
           after == Clocks!JobAfter(s, job)
<1>a. job.steps # <<>> /\ (who = "thread" => jobs["routine"].steps = <<>>)
  BY DEF Clocks!Advance, Clocks!Busy
<1>b. jobs' = [jobs EXCEPT ![who] = [after EXCEPT !.steps = Clocks!StepsAfter(s, Tail(job.steps))]]
  BY DEF Clocks!Advance
<1>c. /\ pmsc' = Clocks!ChipAfter(s, job) /\ otp' \in Clocks!OtpAfter(s)
      /\ steady' = IF Clocks!StepsAfter(s, Tail(job.steps)) = <<>>
                   THEN Clocks!Leaves(job.service, steady) ELSE steady
  BY DEF Clocks!Advance
<1>2. DOMAIN jobs = {"thread", "routine"} /\ DOMAIN job = {"service", "steps", "reg", "saved"}
  BY DEF ClockTypes
<1>3. /\ DOMAIN after = {"service", "steps", "reg", "saved"}
      /\ after.service = job.service /\ after.steps = job.steps
      /\ after.reg = IF s.do = "get" THEN pmsc.CTRL0 ELSE job.reg
      /\ after.saved = IF s.do = "save" THEN [job.saved EXCEPT ![s.arg] = pmsc[s.arg]] ELSE job.saved
  <2> HIDE DEF job, s
  <2>1. CASE s.do = "get"
    <3>1. after = [job EXCEPT !.reg = pmsc.CTRL0]
      BY <2>1 DEF Clocks!JobAfter
    <3> QED
      BY <1>2, <2>1, <3>1
  <2>2. CASE s.do = "save"
    <3>1. after = [job EXCEPT !.saved = [job.saved EXCEPT ![s.arg] = pmsc[s.arg]]]
      BY <2>2 DEF Clocks!JobAfter
    <3> QED
      BY <1>2, <2>2, <3>1
  <2>3. CASE s.do \notin {"get", "save"}
    <3>1. after = job
      BY <2>3 DEF Clocks!JobAfter
    <3> QED
      BY <1>2, <2>3, <3>1
  <2> QED
    BY <2>1, <2>2, <2>3
<1> HIDE DEF after
<1>4. /\ DOMAIN jobs' = {"thread", "routine"}
      /\ \A other \in {"thread", "routine"} \ {who}: jobs'[other] = jobs[other]
      /\ jobs'[who] = [after EXCEPT !.steps = Clocks!StepsAfter(s, Tail(job.steps))]
  BY <1>b, <1>2
<1>5. /\ DOMAIN jobs'[who] = DOMAIN after
      /\ jobs'[who].service = after.service
      /\ jobs'[who].steps = Clocks!StepsAfter(s, Tail(job.steps))
      /\ jobs'[who].reg = after.reg
      /\ jobs'[who].saved = after.saved
  BY <1>3, <1>4
<1> QED
  BY <1>a, <1>c, <1>3, <1>4, <1>5

-----------------------------------------------------------------------------
\* The bytes of PMSC_CTRL0, as sets.
LowDone(c, reg, setting, base) ==
    LET d == (c \ Clocks!Low) \cup Clocks!NewLow(setting, reg)
    IN  /\ d \cap Driven = OnAfter(Clocks!Step("low", setting), c \cap Driven, base)
        /\ d \cap Receiving = {}
        /\ d \cap Clocks!Fourth = c \cap Clocks!Fourth
        /\ d \cap HighBits = c \cap HighBits

HighDone(c, reg, setting, base) ==
    LET d == (c \ Clocks!High) \cup Clocks!NewHigh(setting, reg)
    IN  /\ d \cap Driven = OnAfter(Clocks!Step("high", setting), c \cap Driven, base)
        /\ d \cap Receiving = {}
        /\ d \cap Clocks!Fourth = c \cap Clocks!Fourth

\* The low byte as a service of the thread writes it.
LEMMA LowWritten ==
    ASSUME NEW c, NEW reg, NEW base, NEW setting \in ThreadClocks,
           reg \cap Receiving = {}, c \cap Receiving = {}, reg \cap Driven = c \cap Driven
    PROVE  LowDone(c, reg, setting, base)
<1> DEFINE d == (c \ Clocks!Low) \cup Clocks!NewLow(setting, reg)
           on == c \cap Driven
<1>1. Clocks!Low = {"SYS_XTI", "SYS_PLL", "TX_XTI", "TX_PLL"} \cup {"RX_XTI", "RX_PLL", "FACE"}
  BY DEF Clocks!Low, Clocks!SysClks, Clocks!RxClks, Clocks!TxClks
<1>2. reg \cap Clocks!Low = on \cap Clocks!Low
  BY <1>1 DEF Driven, Receiving
<1>3. Clocks!NewLow(setting, reg) = Clocks!NewLow(setting, on)
  BY <1>2 DEF Clocks!NewLow, ThreadClocks
<1>4. Clocks!NewLow(setting, on) \subseteq {"SYS_XTI", "SYS_PLL", "TX_XTI", "TX_PLL"}
  <2>1. on \cap Clocks!Low \subseteq {"SYS_XTI", "SYS_PLL", "TX_XTI", "TX_PLL"}
    BY <1>1 DEF Driven
  <2> HIDE DEF on
  <2> QED
    BY <2>1 DEF Clocks!NewLow, ThreadClocks
<1>5. OnAfter(Clocks!Step("low", setting), on, base)
        = (on \ Clocks!Low) \cup (Clocks!NewLow(setting, on) \cap Driven)
  BY DEF OnAfter, Clocks!Step
<1> DEFINE new == Clocks!NewLow(setting, on)
<1>6. d = (c \ Clocks!Low) \cup new
  BY <1>3
<1> HIDE DEF new, d
<1>7. d \cap Driven = OnAfter(Clocks!Step("low", setting), on, base)
  <2>1. OnAfter(Clocks!Step("low", setting), on, base) = (on \ Clocks!Low) \cup (new \cap Driven)
    BY <1>5 DEF new
  <2> QED
    BY <1>6, <2>1
<1>8. new \subseteq {"SYS_XTI", "SYS_PLL", "TX_XTI", "TX_PLL"}
  BY <1>4 DEF new
<1>9. /\ d \cap Receiving = {}
      /\ d \cap Clocks!Fourth = c \cap Clocks!Fourth
      /\ d \cap HighBits = c \cap HighBits
  BY <1>1, <1>6, <1>8 DEF Receiving, HighBits, Clocks!Fourth
<1> QED
  BY <1>7, <1>9 DEF LowDone, d

\* And the high byte.
LEMMA HighWritten ==
    ASSUME NEW c, NEW reg, NEW base, NEW setting \in ThreadClocks,
           reg \cap Receiving = {}, c \cap Receiving = {}, reg \cap HighBits = c \cap HighBits
    PROVE  HighDone(c, reg, setting, base)
<1> DEFINE d == (c \ Clocks!High) \cup Clocks!NewHigh(setting, reg)
           on == c \cap Driven
           new == Clocks!NewHigh(setting, reg)
           old == Clocks!NewHigh(setting, on)
<1>1. /\ new \cap Driven = old \cap Driven
      /\ new \subseteq Clocks!High \ {"ACC"}
  <2>1. /\ (reg \cap Clocks!High) \cap Driven = (on \cap Clocks!High) \cap Driven
        /\ reg \cap Clocks!High \subseteq Clocks!High \ {"ACC"}
    BY DEF Clocks!High, Driven, Receiving, HighBits
  <2>2. CASE setting = "ENABLE_ALL_SEQ"
    BY <2>1, <2>2 DEF Clocks!NewHigh
  <2>3. CASE setting = "FORCE_LDE"
    BY <2>3 DEF Clocks!NewHigh, Clocks!High
  <2>4. CASE setting \in {"FORCE_SYS_XTI", "FORCE_SYS_PLL", "FORCE_TX_PLL"}
    BY <2>1, <2>4 DEF Clocks!NewHigh
  <2> QED
    BY <2>2, <2>3, <2>4 DEF ThreadClocks
<1>2. OnAfter(Clocks!Step("high", setting), on, base) = (on \ Clocks!High) \cup (old \cap Driven)
  BY DEF OnAfter, Clocks!Step
<1> HIDE DEF new, old
<1>3. d = (c \ Clocks!High) \cup new
  BY DEF new
<1> HIDE DEF d
<1>4. d \cap Driven = OnAfter(Clocks!Step("high", setting), on, base)
  BY <1>1, <1>2, <1>3
<1>5. d \cap Receiving = {} /\ d \cap Clocks!Fourth = c \cap Clocks!Fourth
  BY <1>1, <1>3 DEF Receiving, Clocks!High, Clocks!Fourth
<1> QED
  BY <1>4, <1>5 DEF HighDone, d

\* What a step of the thread does to the chip, the routine being idle.
LEMMA ThreadWrites ==
    ASSUME NEW s, NEW job, NEW base, pmsc' = Clocks!ChipAfter(s, job),
           DOMAIN pmsc = {"CTRL0", "CTRL1", "RF_CONF"},
           pmsc.CTRL1 \in BOOLEAN, pmsc.RF_CONF \in BOOLEAN,
           pmsc.CTRL0 \cap Receiving = {},
           job.reg \cap Receiving = {}, base \subseteq Driven,
           s.do = "restore" => job.saved.CTRL0 \cap Clocks!Low = base \cap Clocks!Low,
           job.saved.CTRL1 = TRUE, job.saved.RF_CONF = FALSE,
           Informed(s.do, job.reg),
           s.do \in {"get", "low", "high", "set", "clear", "lowbyte", "highbyte", "ctrl1", "rf",
                     "save", "restore", "use", "mode", "program", "check", "verify", "softreset"},
           s.do \in {"low", "high"} => s.arg \in ThreadClocks,
           s.do = "set" => s.arg \subseteq Clocks!Third \cup Clocks!Fourth,
           s.do = "clear" => s.arg \subseteq Clocks!Fourth,
           s.do = "lowbyte" => s.arg \subseteq Driven \cap Clocks!Low,
           s.do = "highbyte" => s.arg \subseteq Clocks!High \ {"ACC"},
           s.do \in {"ctrl1", "rf"} => s.arg \in BOOLEAN,
           s.do = "restore" => s.arg \in {"CTRL0", "CTRL1", "RF_CONF"}
    PROVE  /\ DOMAIN pmsc' = {"CTRL0", "CTRL1", "RF_CONF"}
           /\ pmsc'.CTRL1 \in BOOLEAN /\ pmsc'.RF_CONF \in BOOLEAN
           /\ pmsc'.CTRL0 \cap Driven = OnAfter(s, pmsc.CTRL0 \cap Driven, base)
           /\ pmsc'.CTRL0 \cap Receiving = {}
           /\ s.do \notin {"set", "clear", "softreset"} =>
                pmsc'.CTRL0 \cap Clocks!Fourth = pmsc.CTRL0 \cap Clocks!Fourth
           /\ s.do = "set" => job.reg \cup s.arg \subseteq pmsc'.CTRL0
           /\ s.do = "low" => pmsc'.CTRL0 \cap HighBits = pmsc.CTRL0 \cap HighBits
           /\ s.do = "get" => pmsc'.CTRL0 = pmsc.CTRL0
           /\ pmsc'.CTRL1 <=> IF s.do = "ctrl1" THEN s.arg
                              ELSE \/ pmsc.CTRL1 \/ s.do = "softreset"
                                   \/ s.do = "restore" /\ s.arg = "CTRL1"
           /\ pmsc'.RF_CONF <=> IF s.do = "rf" THEN s.arg
                                ELSE /\ pmsc.RF_CONF /\ s.do # "softreset"
                                     /\ ~(s.do = "restore" /\ s.arg = "RF_CONF")
<1> DEFINE c == pmsc.CTRL0
           d == Clocks!Ctrl0After(s, job)
\* The steps that write PMSC_CTRL0, or nothing.
<1>1. ASSUME s.do \notin {"ctrl1", "rf", "restore", "softreset"}
      PROVE  /\ DOMAIN pmsc' = {"CTRL0", "CTRL1", "RF_CONF"}
             /\ pmsc'.CTRL0 = d /\ pmsc'.CTRL1 = pmsc.CTRL1 /\ pmsc'.RF_CONF = pmsc.RF_CONF
  <2>1. pmsc' = [pmsc EXCEPT !.CTRL0 = d]
    BY <1>1 DEF Clocks!ChipAfter
  <2> HIDE DEF d
  <2> QED
    BY <2>1
<1>2. ASSUME s.do \notin {"ctrl1", "rf", "restore", "softreset"},
             d \cap Driven = OnAfter(s, c \cap Driven, base), d \cap Receiving = {},
             s.do \notin {"set", "clear"} => d \cap Clocks!Fourth = c \cap Clocks!Fourth,
             s.do = "set" => job.reg \cup s.arg \subseteq d,
             s.do = "low" => d \cap HighBits = c \cap HighBits,
             s.do = "get" => d = c
      PROVE  /\ DOMAIN pmsc' = {"CTRL0", "CTRL1", "RF_CONF"}
             /\ pmsc'.CTRL1 = pmsc.CTRL1 /\ pmsc'.RF_CONF = pmsc.RF_CONF
             /\ pmsc'.CTRL0 \cap Driven = OnAfter(s, pmsc.CTRL0 \cap Driven, base)
             /\ pmsc'.CTRL0 \cap Receiving = {}
             /\ s.do \notin {"set", "clear"} =>
                  pmsc'.CTRL0 \cap Clocks!Fourth = pmsc.CTRL0 \cap Clocks!Fourth
             /\ s.do = "set" => job.reg \cup s.arg \subseteq pmsc'.CTRL0
             /\ s.do = "low" => pmsc'.CTRL0 \cap HighBits = pmsc.CTRL0 \cap HighBits
             /\ s.do = "get" => pmsc'.CTRL0 = pmsc.CTRL0
  <2> HIDE DEF d
  <2>1. /\ DOMAIN pmsc' = {"CTRL0", "CTRL1", "RF_CONF"}
        /\ pmsc'.CTRL0 = d /\ pmsc'.CTRL1 = pmsc.CTRL1 /\ pmsc'.RF_CONF = pmsc.RF_CONF
    BY <1>1, <1>2
  <2> QED
    BY <1>2, <2>1
<1>a. CASE s.do = "low"
  <2> DEFINE r == job.reg
             setting == s.arg
  <2>1. d = (c \ Clocks!Low) \cup Clocks!NewLow(setting, r)
    BY <1>a DEF Clocks!Ctrl0After
  <2>2. OnAfter(s, c \cap Driven, base) = OnAfter(Clocks!Step("low", setting), c \cap Driven, base)
    BY <1>a DEF OnAfter, Clocks!Step
  <2>3. /\ setting \in ThreadClocks /\ r \cap Receiving = {} /\ c \cap Receiving = {}
        /\ r \cap Driven = c \cap Driven
    BY <1>a DEF Informed, Agrees
  <2> HIDE DEF c, d, r, setting
  <2>4. LowDone(c, r, setting, base)
    BY <2>3, LowWritten
  <2>5. /\ d \cap Driven = OnAfter(s, c \cap Driven, base) /\ d \cap Receiving = {}
        /\ d \cap Clocks!Fourth = c \cap Clocks!Fourth
        /\ d \cap HighBits = c \cap HighBits
    BY <2>1, <2>2, <2>4 DEF LowDone
  <2> QED
    BY <1>2, <1>a, <2>5
<1>b. CASE s.do = "high"
  <2> DEFINE r == job.reg
             setting == s.arg
  <2>1. d = (c \ Clocks!High) \cup Clocks!NewHigh(setting, r)
    BY <1>b DEF Clocks!Ctrl0After
  <2>2. OnAfter(s, c \cap Driven, base) = OnAfter(Clocks!Step("high", setting), c \cap Driven, base)
    BY <1>b DEF OnAfter, Clocks!Step
  <2>3. /\ setting \in ThreadClocks /\ r \cap Receiving = {} /\ c \cap Receiving = {}
        /\ r \cap HighBits = c \cap HighBits
    BY <1>b DEF Informed, Agrees
  <2> HIDE DEF c, d, r, setting
  <2>4. HighDone(c, r, setting, base)
    BY <2>3, HighWritten
  <2>5. /\ d \cap Driven = OnAfter(s, c \cap Driven, base) /\ d \cap Receiving = {}
        /\ d \cap Clocks!Fourth = c \cap Clocks!Fourth
    BY <2>1, <2>2, <2>4 DEF HighDone
  <2> QED
    BY <1>2, <1>b, <2>5
<1>c. CASE s.do = "set"
  <2>1. d = job.reg \cup s.arg
    BY <1>c DEF Clocks!Ctrl0After
  <2>2. job.reg \cap Driven = c \cap Driven
    BY <1>c DEF Informed, Agrees
  <2>3. OnAfter(s, c \cap Driven, base) = (c \cap Driven) \cup (s.arg \cap Driven)
    BY <1>c DEF OnAfter
  <2> HIDE DEF c, d
  <2>4. s.arg \cap Receiving = {}
    BY <1>c DEF Receiving, Clocks!Third, Clocks!Fourth
  <2>5. /\ d \cap Driven = OnAfter(s, c \cap Driven, base) /\ d \cap Receiving = {}
        /\ job.reg \cup s.arg \subseteq d
    BY <2>1, <2>2, <2>3, <2>4
  <2> QED
    BY <1>2, <1>c, <2>5
<1>k. CASE s.do = "clear"
  <2>1. d = job.reg \ s.arg
    BY <1>k DEF Clocks!Ctrl0After
  <2>2. job.reg \cap Driven = c \cap Driven
    BY <1>k DEF Informed, Agrees
  <2>3. OnAfter(s, c \cap Driven, base) = c \cap Driven
    BY <1>k DEF OnAfter
  <2> HIDE DEF c, d
  <2>4. s.arg \cap Driven = {}
    BY <1>k DEF Driven, Clocks!Fourth
  <2>5. d \cap Driven = OnAfter(s, c \cap Driven, base) /\ d \cap Receiving = {}
    BY <2>1, <2>2, <2>3, <2>4
  <2> QED
    BY <1>2, <1>k, <2>5
<1>d. CASE s.do = "lowbyte"
  <2>1. d = (c \ Clocks!Low) \cup s.arg
    BY <1>d DEF Clocks!Ctrl0After
  <2>2. OnAfter(s, c \cap Driven, base) = ((c \cap Driven) \ Clocks!Low) \cup s.arg
    BY <1>d DEF OnAfter
  <2> HIDE DEF c, d
  <2>3. c \cap Receiving = {}
    BY DEF c
  <2>4. /\ d \cap Driven = OnAfter(s, c \cap Driven, base) /\ d \cap Receiving = {}
        /\ d \cap Clocks!Fourth = c \cap Clocks!Fourth
    BY <1>d, <2>1, <2>2, <2>3 DEF Driven, Receiving, Clocks!Low, Clocks!SysClks, Clocks!RxClks,
                                  Clocks!TxClks, Clocks!Fourth
  <2> QED
    BY <1>2, <1>d, <2>4
<1>e. CASE s.do = "highbyte"
  <2>1. d = (c \ Clocks!High) \cup s.arg
    BY <1>e DEF Clocks!Ctrl0After
  <2>2. OnAfter(s, c \cap Driven, base) = ((c \cap Driven) \ Clocks!High) \cup (s.arg \cap Driven)
    BY <1>e DEF OnAfter
  <2> HIDE DEF c, d
  <2>3. c \cap Receiving = {}
    BY DEF c
  <2>4. /\ d \cap Driven = OnAfter(s, c \cap Driven, base) /\ d \cap Receiving = {}
        /\ d \cap Clocks!Fourth = c \cap Clocks!Fourth
    BY <1>e, <2>1, <2>2, <2>3 DEF Receiving, Clocks!High, Clocks!Fourth
  <2> QED
    BY <1>2, <1>e, <2>4
<1>f. CASE s.do \in {"get", "save", "use", "mode", "program", "check", "verify"}
  <2>1. d = c
    BY <1>f DEF Clocks!Ctrl0After
  <2>2. OnAfter(s, c \cap Driven, base) = c \cap Driven
    BY <1>f DEF OnAfter
  <2> HIDE DEF d
  <2> QED
    BY <1>2, <1>f, <2>1, <2>2
\* The steps that write the other registers.
<1>g. CASE s.do \in {"ctrl1", "rf"}
  <2>1. pmsc' = IF s.do = "ctrl1" THEN [pmsc EXCEPT !.CTRL1 = s.arg] ELSE [pmsc EXCEPT !.RF_CONF = s.arg]
    BY <1>g DEF Clocks!ChipAfter
  <2>2. OnAfter(s, c \cap Driven, base) = c \cap Driven
    BY <1>g DEF OnAfter
  <2>3. /\ DOMAIN pmsc' = {"CTRL0", "CTRL1", "RF_CONF"} /\ pmsc'.CTRL0 = c
        /\ pmsc'.CTRL1 = IF s.do = "ctrl1" THEN s.arg ELSE pmsc.CTRL1
        /\ pmsc'.RF_CONF = IF s.do = "rf" THEN s.arg ELSE pmsc.RF_CONF
    BY <1>g, <2>1
  <2> QED
    BY <1>g, <2>2, <2>3
<1>h. CASE s.do = "restore"
  <2> DEFINE back == (c \ Clocks!Low) \cup (base \cap Clocks!Low)
  <2>1. pmsc' = [pmsc EXCEPT ![s.arg] = IF s.arg = "CTRL0" THEN back ELSE job.saved[s.arg]]
    BY <1>h DEF Clocks!ChipAfter
  <2>2. OnAfter(s, c \cap Driven, base) = IF s.arg = "CTRL0"
                                          THEN ((c \cap Driven) \ Clocks!Low) \cup (base \cap Clocks!Low)
                                          ELSE c \cap Driven
    BY <1>h DEF OnAfter
  <2>3. /\ back \cap Driven = ((c \cap Driven) \ Clocks!Low) \cup (base \cap Clocks!Low)
        /\ back \cap Receiving = {}
        /\ back \cap Clocks!Fourth = c \cap Clocks!Fourth
    <3>1. Clocks!Fourth \cap Clocks!Low = {} /\ Driven \cap Receiving = {}
      BY DEF Clocks!Fourth, Clocks!Low, Clocks!SysClks, Clocks!RxClks, Clocks!TxClks, Driven, Receiving
    <3>2. c \cap Receiving = {} /\ base \subseteq Driven
      OBVIOUS
    <3> HIDE DEF c
    <3> QED
      BY <3>1, <3>2
  <2> HIDE DEF back
  <2>4. /\ DOMAIN pmsc' = {"CTRL0", "CTRL1", "RF_CONF"}
        /\ pmsc'.CTRL0 = IF s.arg = "CTRL0" THEN back ELSE c
        /\ pmsc'.CTRL1 = IF s.arg = "CTRL1" THEN TRUE ELSE pmsc.CTRL1
        /\ pmsc'.RF_CONF = IF s.arg = "RF_CONF" THEN FALSE ELSE pmsc.RF_CONF
    BY <1>h, <2>1
  <2>5. /\ pmsc'.CTRL0 \cap Driven = OnAfter(s, pmsc.CTRL0 \cap Driven, base)
        /\ pmsc'.CTRL0 \cap Receiving = {}
        /\ pmsc'.CTRL0 \cap Clocks!Fourth = pmsc.CTRL0 \cap Clocks!Fourth
    BY <2>2, <2>3, <2>4
  <2> QED
    BY <1>h, <2>4, <2>5
<1>i. CASE s.do = "softreset"
  <2>1. pmsc' = [CTRL0 |-> {}, CTRL1 |-> TRUE, RF_CONF |-> FALSE]
    BY <1>i DEF Clocks!ChipAfter, Clocks!Sequenced
  <2>2. OnAfter(s, c \cap Driven, base) = {}
    BY <1>i DEF OnAfter
  <2> QED
    BY <1>i, <2>1, <2>2
<1> QED
  BY <1>a, <1>b, <1>c, <1>d, <1>e, <1>f, <1>g, <1>h, <1>i, <1>k

-----------------------------------------------------------------------------
\* What the lemmas on the programs say of every service of the thread.
\* A service has n steps, and they fit.
ProgramFits(service, n) ==
    /\ IsList(Clocks!Steps(service)) /\ Len(Clocks!Steps(service)) = n
    /\ \A k \in 1..n: Fitting(service, k)

\* With their number the steps are all known.
LEMMA ServiceFits ==
    ASSUME NEW service, NEW n \in Nat, n >= 1, ProgramFits(service, n)
    PROVE  /\ IsList(Clocks!Steps(service))
           /\ Len(Clocks!Steps(service)) \in Nat /\ Len(Clocks!Steps(service)) >= 1
           /\ \A k \in 1..Len(Clocks!Steps(service)): Fitting(service, k)
BY DEF ProgramFits

\* All steps of all services fit.
LEMMA ServicesFit ==
    ASSUME NEW service \in Clocks!Services
    PROVE  /\ IsList(Clocks!Steps(service))
           /\ Len(Clocks!Steps(service)) \in Nat /\ Len(Clocks!Steps(service)) >= 1
           /\ \A k \in 1..Len(Clocks!Steps(service)): Fitting(service, k)
<1>1. ProgramFits("otpread", 7)
  BY OtpReadFits DEF ProgramFits
<1>2. ProgramFits("loadopsettabfromotp", 7)
  BY LoadOpsetFits DEF ProgramFits
<1>3. ProgramFits("readtempvbat_slow", 8)
  BY ReadTempSlowFits DEF ProgramFits
<1>4. ProgramFits("readtempvbat_fast", 1)
  BY ReadTempFastFits DEF ProgramFits
<1>5. ProgramFits("calcbandwidthtempadj", 12)
  BY CountPulsesFits DEF ProgramFits
<1>6. ProgramFits("enablegpioclocks", 2)
  BY GpioClocksFits DEF ProgramFits
<1>7. ProgramFits("setleds", 2)
  BY LedsFits DEF ProgramFits
<1>8. ProgramFits("sniff_on", 2)
  BY SniffOnFits DEF ProgramFits
<1>9. ProgramFits("sniff_off", 2)
  BY SniffOffFits DEF ProgramFits
<1>10. ProgramFits("softreset", 6)
  BY SoftResetFits DEF ProgramFits
<1>11. ProgramFits("configcwmode", 8)
  BY CwModeFits DEF ProgramFits
<1>12. ProgramFits("configcontinuousframemode", 12)
  BY FrameModeFits DEF ProgramFits
<1>13. ProgramFits("otpwriteandverify", 9)
  BY OtpWriteFits DEF ProgramFits
<1>s. \E n \in 1..12: ProgramFits(service, n)
  BY <1>1, <1>2, <1>3, <1>4, <1>5, <1>6, <1>7, <1>8, <1>9, <1>10, <1>11, <1>12,
     <1>13 DEF Clocks!Services
<1> QED
  BY <1>s, ServiceFits

\* While the routine is idle none of its clocks is on, and SNIFF mode is as it was left.
LEMMA IdleRoutine ==
    ASSUME RoutineRuns, jobs["routine"].steps = <<>>
    PROVE  pmsc.CTRL0 \cap Receiving = {} /\ SniffOn
<1>1. ASSUME NEW k \in 1..7 PROVE Rest(Clocks!ReadAccData, k) # <<>>
  <2>1. IsList(Clocks!ReadAccData) /\ k \in 1..Len(Clocks!ReadAccData)
    BY ReadAccSteps
  <2> QED
    BY <2>1, RestOf
<1>2. ASSUME NEW k \in 1..2 PROVE Rest(Clocks!RxReset, k) # <<>>
  <2>1. IsList(Clocks!RxReset) /\ k \in 1..Len(Clocks!RxReset)
    BY RxResetSteps
  <2> QED
    BY <2>1, RestOf
<1> QED
  BY <1>1, <1>2 DEF RoutineRuns

-----------------------------------------------------------------------------
\* What a step of the thread makes of the chip and of what the thread relies
\* on, whatever comes next.
LEMMA ThreadSteps ==
    ASSUME ClocksInv, Clocks!Advance("thread"), NEW service \in Clocks!Services,
           NEW k \in 1..Len(Clocks!Steps(service)), ThreadAt(service, k)
    PROVE  /\ ClockTypes'
           /\ jobs'["routine"].steps = <<>> /\ pmsc'.CTRL0 \cap Receiving = {}
           /\ jobs'["thread"].service = service
           /\ jobs'["thread"].steps = Clocks!StepsAfter(Clocks!Steps(service)[k], Rest(Clocks!Steps(service), k + 1))
           /\ otp' \in Clocks!OtpAfter(Clocks!Steps(service)[k])
           /\ steady' = IF jobs'["thread"].steps = <<>> THEN Clocks!Leaves(service, steady) ELSE steady
           /\ \/ service = "softreset" /\ k <= 4
              \/ /\ service # "softreset" => StaysOn \in Bases
                 /\ pmsc'.CTRL0 \cap Driven = On(service, k + 1, StaysOn)
                 /\ pmsc'.CTRL1 <=> InSequence(service, k + 1)
                 /\ pmsc'.RF_CONF <=> Forces(service, k + 1)
           /\ service = "calcbandwidthtempadj" =>
                jobs'["thread"].saved.CTRL0 \cap Clocks!Low = StaysOn \cap Clocks!Low
           /\ k + 1 \in 1..Len(Clocks!Steps(service)) /\ steady' = steady =>
                Informed(Clocks!Steps(service)[k + 1].do, jobs["thread"].reg)'
           /\ service # "softreset" /\ Clocks!Steps(service)[k].do # "clear" =>
                steady \cap Clocks!Fourth \subseteq pmsc'.CTRL0
           /\ Clocks!Steps(service)[k].do = "set" => Clocks!Steps(service)[k].arg \subseteq pmsc'.CTRL0
<1> DEFINE job == jobs["thread"]
           P == Clocks!Steps(service)
           s == P[k]
<1>1. /\ ClockTypes /\ RoutineRuns
      /\ job.service = service /\ job.steps = Rest(P, k) /\ Clocked(service, k) /\ Informed(s.do, job.reg)
      /\ service = "calcbandwidthtempadj" /\ k > 1 =>
           job.saved.CTRL0 \cap Clocks!Low = StaysOn \cap Clocks!Low
  BY DEF ClocksInv, ThreadAt
<1>2. /\ IsList(P) /\ Len(P) \in Nat /\ k \in 1..Len(P)
      /\ \A i \in 1..Len(P): Fitting(service, i)
  BY ServicesFit
<1>3. Head(job.steps) = s /\ Tail(job.steps) = Rest(P, k + 1)
  <2> HIDE DEF P
  <2>1. Head(Rest(P, k)) = P[k] /\ Tail(Rest(P, k)) = Rest(P, k + 1)
    BY <1>2, RestOf
  <2> QED
    BY <1>1, <2>1
<1>4. Takes(service, k) /\ InOrder(service, k)
  BY <1>2 DEF Fitting
<1>5. /\ jobs["routine"].steps = <<>>
      /\ DOMAIN jobs' = {"thread", "routine"}
      /\ jobs'["routine"] = jobs["routine"]
      /\ DOMAIN jobs'["thread"] = {"service", "steps", "reg", "saved"}
      /\ jobs'["thread"].service = service
      /\ jobs'["thread"].steps = Clocks!StepsAfter(s, Rest(P, k + 1))
      /\ jobs'["thread"].reg = IF s.do = "get" THEN pmsc.CTRL0 ELSE job.reg
      /\ jobs'["thread"].saved = IF s.do = "save" THEN [job.saved EXCEPT ![s.arg] = pmsc[s.arg]]
                                 ELSE job.saved
      /\ pmsc' = Clocks!ChipAfter(s, job)
      /\ otp' \in Clocks!OtpAfter(s)
      /\ steady' = IF jobs'["thread"].steps = <<>> THEN Clocks!Leaves(service, steady) ELSE steady
  BY <1>1, <1>3, Advances
<1>6. pmsc.CTRL0 \cap Receiving = {} /\ SniffOn
  BY <1>1, <1>5, IdleRoutine
<1> HIDE DEF P
<1>7. /\ s.do \in {"get", "low", "high", "set", "clear", "lowbyte", "highbyte", "ctrl1", "rf",
                     "save", "restore", "use", "mode", "program", "check", "verify", "softreset"}
      /\ s.do \in {"low", "high"} => s.arg \in ThreadClocks
      /\ s.do = "set" => s.arg \subseteq Clocks!Third \cup Clocks!Fourth
      /\ s.do = "clear" => s.arg \subseteq Clocks!Fourth
      /\ s.do = "lowbyte" => s.arg \subseteq Driven \cap Clocks!Low
      /\ s.do = "highbyte" => s.arg \subseteq Clocks!High \ {"ACC"}
      /\ s.do \in {"ctrl1", "rf"} => s.arg \in BOOLEAN
      /\ s.do \in {"save", "restore"} => s.arg \in {"CTRL0", "CTRL1", "RF_CONF"}
  BY <1>4 DEF InOrder, P
<1>a. /\ s.do = "save" => service = "calcbandwidthtempadj" /\ k <= 3
      /\ s.do = "save" /\ k = 1 => s.arg = "CTRL0"
      /\ s.do = "save" /\ k > 1 => s.arg # "CTRL0"
      /\ s.do = "restore" => service = "calcbandwidthtempadj" /\ k > 3
      /\ service = "calcbandwidthtempadj" /\ k = 1 => s.do = "save"
      /\ s.do = "softreset" => service = "softreset"
  BY <1>4 DEF InOrder, P
<1>8. /\ DOMAIN pmsc = {"CTRL0", "CTRL1", "RF_CONF"}
      /\ pmsc.CTRL1 \in BOOLEAN /\ pmsc.RF_CONF \in BOOLEAN
      /\ job.reg \cap Receiving = {}
      /\ job.saved.CTRL1 = TRUE /\ job.saved.RF_CONF = FALSE
      /\ DOMAIN job.saved = {"CTRL0", "CTRL1", "RF_CONF"}
  BY <1>1 DEF ClockTypes
<1>b. /\ StaysOn \subseteq Driven
      /\ s.do = "restore" => job.saved.CTRL0 \cap Clocks!Low = StaysOn \cap Clocks!Low
  <2>1. StaysOn \subseteq Driven
    BY DEF StaysOn
  <2>2. ASSUME s.do = "restore" PROVE service = "calcbandwidthtempadj" /\ k > 1
    BY <1>2, <1>a, <2>2
  <2> HIDE DEF s, job
  <2> QED
    BY <1>1, <2>1, <2>2
<1> HIDE DEF job, s
<1>9. /\ DOMAIN pmsc' = {"CTRL0", "CTRL1", "RF_CONF"}
      /\ pmsc'.CTRL1 \in BOOLEAN /\ pmsc'.RF_CONF \in BOOLEAN
      /\ pmsc'.CTRL0 \cap Driven = OnAfter(s, pmsc.CTRL0 \cap Driven, StaysOn)
      /\ pmsc'.CTRL0 \cap Receiving = {}
      /\ s.do \notin {"set", "clear", "softreset"} =>
           pmsc'.CTRL0 \cap Clocks!Fourth = pmsc.CTRL0 \cap Clocks!Fourth
      /\ s.do = "set" => job.reg \cup s.arg \subseteq pmsc'.CTRL0
      /\ s.do = "low" => pmsc'.CTRL0 \cap HighBits = pmsc.CTRL0 \cap HighBits
      /\ s.do = "get" => pmsc'.CTRL0 = pmsc.CTRL0
      /\ pmsc'.CTRL1 <=> IF s.do = "ctrl1" THEN s.arg
                         ELSE \/ pmsc.CTRL1 \/ s.do = "softreset"
                              \/ s.do = "restore" /\ s.arg = "CTRL1"
      /\ pmsc'.RF_CONF <=> IF s.do = "rf" THEN s.arg
                           ELSE /\ pmsc.RF_CONF /\ s.do # "softreset"
                                /\ ~(s.do = "restore" /\ s.arg = "RF_CONF")
  <2>1. /\ pmsc' = Clocks!ChipAfter(s, job)
        /\ pmsc.CTRL0 \cap Receiving = {} /\ job.reg \cap Receiving = {} /\ StaysOn \subseteq Driven
        /\ Informed(s.do, job.reg)
    BY <1>1, <1>5, <1>6, <1>8, <1>b DEF s, P
  <2> QED
    BY <1>7, <1>8, <1>b, <2>1, ThreadWrites, ZenonT(60)
\* The clocks of the chip.
<1>10. \/ service = "softreset" /\ k <= 4
       \/ /\ service # "softreset" => StaysOn \in Bases
          /\ pmsc'.CTRL0 \cap Driven = On(service, k + 1, StaysOn)
          /\ pmsc'.CTRL1 <=> InSequence(service, k + 1)
          /\ pmsc'.RF_CONF <=> Forces(service, k + 1)
  <2>1. CASE service = "softreset" /\ k <= 4
    BY <2>1
  <2>2. CASE service = "softreset" /\ k > 4
    <3>1. s.do = "softreset"
      <4>1. P = Clocks!SoftReset
        BY <2>2 DEF P, Clocks!Steps
      <4>2. Len(P) = 6 /\ P[5].do = "softreset" /\ P[6].do = "softreset"
        BY <4>1, SoftResetSteps DEF Clocks!Step
      <4>3. k = 5 \/ k = 6
        BY <1>2, <2>2, <4>2
      <4> QED
        BY <4>2, <4>3 DEF s
    <3>2. OnAfter(s, pmsc.CTRL0 \cap Driven, StaysOn) = {}
      BY <3>1 DEF OnAfter
    <3>3. On(service, k + 1, StaysOn) = {} /\ InSequence(service, k + 1) /\ ~Forces(service, k + 1)
      BY <2>2 DEF On, InSequence, Forces
    <3> QED
      BY <1>9, <2>2, <3>1, <3>2, <3>3
  <2>3. CASE service # "softreset"
    <3>1. /\ StaysOn \in Bases
          /\ pmsc.CTRL0 \cap Driven = On(service, k, StaysOn)
          /\ pmsc.CTRL1 <=> InSequence(service, k)
          /\ pmsc.RF_CONF <=> Forces(service, k)
      BY <1>1, <2>3 DEF Clocked
    <3>2. /\ \A base \in Bases: OnAfter(s, On(service, k, base), base) = On(service, k + 1, base)
          /\ InSequence(service, k + 1) <=>
                IF s.do = "ctrl1" THEN s.arg
                ELSE \/ InSequence(service, k) \/ s.do = "softreset"
                     \/ s.do = "restore" /\ s.arg = "CTRL1"
          /\ Forces(service, k + 1) <=>
                IF s.do = "rf" THEN s.arg
                ELSE /\ Forces(service, k) /\ s.do # "softreset"
                     /\ ~(s.do = "restore" /\ s.arg = "RF_CONF")
      BY <1>4, <2>3 DEF Takes, s, P
    <3>3. pmsc'.CTRL0 \cap Driven = On(service, k + 1, StaysOn)
      BY <1>9, <3>1, <3>2
    <3>4. pmsc'.CTRL1 <=> InSequence(service, k + 1)
      BY <1>9, <3>1, <3>2
    <3>5. pmsc'.RF_CONF <=> Forces(service, k + 1)
      BY <1>9, <3>1, <3>2
    <3> QED
      BY <3>1, <3>3, <3>4, <3>5
  <2>4. k <= 4 \/ k > 4
    BY <1>2
  <2> QED
    BY <2>1, <2>2, <2>3, <2>4
\* What SNIFF mode switched on.
<1>c. ASSUME service # "softreset", s.do # "clear"
      PROVE  steady \cap Clocks!Fourth \subseteq pmsc'.CTRL0
  <2>1. steady \cap Clocks!Fourth \subseteq pmsc.CTRL0
    <3>1. jobs["thread"].service # "softreset"
      BY <1>1, <1>c DEF job
    <3> QED
      BY <1>6, <3>1 DEF SniffOn
  <2>2. CASE s.do = "set"
    <3>1. steady \cap Clocks!Fourth \subseteq job.reg
      BY <1>1, <2>2 DEF Informed
    <3> QED
      BY <1>9, <2>2, <3>1
  <2>3. CASE s.do # "set"
    <3>1. s.do # "softreset"
      BY <1>a, <1>c
    <3>2. pmsc'.CTRL0 \cap Clocks!Fourth = pmsc.CTRL0 \cap Clocks!Fourth
      BY <1>9, <1>c, <2>3, <3>1
    <3> QED
      BY <2>1, <3>2
  <2> QED
    BY <2>2, <2>3
\* What has been read for the next step.
<1>11. ASSUME k + 1 \in 1..Len(P), steady' = steady
       PROVE  Informed(P[k + 1].do, jobs["thread"].reg)'
  <2>1. InOrder(service, k + 1)
    BY <1>2, <1>11 DEF Fitting
  <2>2. /\ P[k + 1].do \in {"low", "set", "clear"} => s.do = "get"
        /\ P[k + 1].do = "high" => s.do = "low"
        /\ P[k + 1].do \in {"set", "clear"} => service # "softreset"
    <3>1. /\ P[k + 1].do \in {"low", "set", "clear"} => P[(k + 1) - 1].do = "get"
          /\ P[k + 1].do = "high" => P[(k + 1) - 1].do = "low"
      BY <2>1 DEF InOrder, P
    <3>2. (k + 1) - 1 = k
      BY <1>2
    <3>3. P[k + 1].do \in {"set", "clear"} => service # "softreset"
      <4>1. ASSUME service = "softreset" PROVE P[k + 1].do \notin {"set", "clear"}
        <5>1. P = Clocks!SoftReset
          BY <4>1 DEF P, Clocks!Steps
        <5>2. /\ Len(P) = 6 /\ P[1].do = "get" /\ P[2].do = "low" /\ P[3].do = "high" /\ P[4].do = "ctrl1"
              /\ P[5].do = "softreset" /\ P[6].do = "softreset"
          BY <5>1, SoftResetSteps DEF Clocks!Step
        <5>3. \A i \in 1..6: P[i].do \notin {"set", "clear"}
          BY <5>2
        <5> QED
          BY <1>11, <5>2, <5>3
      <4> QED
        BY <4>1
    <3> QED
      BY <3>1, <3>2, <3>3 DEF s
  <2>3. s.do = "get" => jobs'["thread"].reg = pmsc'.CTRL0
    BY <1>5, <1>9
  <2>4. s.do = "low" => jobs'["thread"].reg \cap HighBits = pmsc'.CTRL0 \cap HighBits
    <3>1. s.do = "low" => Agrees(job.reg, Driven)
      BY <1>1 DEF Informed
    <3>2. HighBits \subseteq Driven
      BY DEF HighBits, Driven
    <3>3. s.do = "low" => job.reg \cap HighBits = pmsc.CTRL0 \cap HighBits
      BY <3>1, <3>2 DEF Agrees
    <3> QED
      BY <1>5, <1>9, <3>3
  <2>5. P[k + 1].do \in {"set", "clear"} => steady' \cap Clocks!Fourth \subseteq jobs'["thread"].reg
    <3>1. ASSUME P[k + 1].do \in {"set", "clear"} PROVE steady \cap Clocks!Fourth \subseteq pmsc'.CTRL0
      <4>1. s.do = "get" /\ service # "softreset"
        BY <2>2, <3>1
      <4> QED
        BY <1>c, <4>1
    <3> QED
      BY <1>11, <2>2, <2>3, <3>1
  <2> QED
    BY <2>2, <2>3, <2>4, <2>5 DEF Informed, Agrees
\* The variables of the thread.
<1>d. service = "calcbandwidthtempadj" =>
        jobs'["thread"].saved.CTRL0 \cap Clocks!Low = StaysOn \cap Clocks!Low
  <2> SUFFICES ASSUME service = "calcbandwidthtempadj"
               PROVE  jobs'["thread"].saved.CTRL0 \cap Clocks!Low = StaysOn \cap Clocks!Low
    OBVIOUS
  <2>1. CASE k = 1
    <3>1. s.do = "save" /\ s.arg = "CTRL0"
      BY <1>a, <2>1
    <3>2. jobs'["thread"].saved.CTRL0 = pmsc.CTRL0
      BY <1>5, <1>8, <3>1
    <3>3. pmsc.CTRL0 \cap Driven = StaysOn
      <4>1. pmsc.CTRL0 \cap Driven = On(service, k, StaysOn)
        BY <1>1 DEF Clocked
      <4>2. On(service, k, StaysOn) = StaysOn
        BY <2>1 DEF On
      <4> QED
        BY <4>1, <4>2
    <3>4. Clocks!Low \subseteq Driven \cup Receiving
      BY DEF Clocks!Low, Clocks!SysClks, Clocks!RxClks, Clocks!TxClks, Driven, Receiving
    <3> QED
      BY <1>6, <3>2, <3>3, <3>4
  <2>2. CASE k # 1
    <3>1. k > 1
      BY <1>2, <2>2
    <3>2. job.saved.CTRL0 \cap Clocks!Low = StaysOn \cap Clocks!Low
      BY <1>1, <3>1
    <3>3. jobs'["thread"].saved.CTRL0 = job.saved.CTRL0
      <4>1. CASE s.do = "save"
        <5>1. s.arg # "CTRL0"
          BY <1>a, <3>1, <4>1
        <5> QED
          BY <1>5, <1>8, <4>1, <5>1
      <4>2. CASE s.do # "save"
        BY <1>5, <4>2
      <4> QED
        BY <4>1, <4>2
    <3> QED
      BY <3>2, <3>3
  <2> QED
    BY <2>1, <2>2
<1>12. ClockTypes'
  <2>1. jobs'["thread"].reg \cap Receiving = {}
    BY <1>5, <1>6, <1>8
  <2>2. /\ DOMAIN jobs'["thread"].saved = {"CTRL0", "CTRL1", "RF_CONF"}
        /\ jobs'["thread"].saved.CTRL1 = TRUE /\ jobs'["thread"].saved.RF_CONF = FALSE
    <3>1. CASE s.do = "save"
      <4>1. service = "calcbandwidthtempadj" /\ k \in 1..3
        BY <1>a, <3>1
      <4>2. InSequence(service, k) /\ ~Forces(service, k)
        BY <4>1 DEF InSequence, Forces
      <4>3. pmsc.CTRL1 = TRUE /\ pmsc.RF_CONF = FALSE
        BY <1>1, <1>8, <4>1, <4>2 DEF Clocked
      <4> DEFINE saved == job.saved
                 kept == jobs'["thread"].saved
      <4>6. kept = [saved EXCEPT ![s.arg] = pmsc[s.arg]]
        BY <1>5, <3>1
      <4>7. s.arg \in {"CTRL0", "CTRL1", "RF_CONF"}
        BY <1>7, <3>1
      <4>8. DOMAIN saved = {"CTRL0", "CTRL1", "RF_CONF"} /\ saved.CTRL1 = TRUE /\ saved.RF_CONF = FALSE
        BY <1>8
      <4> HIDE DEF saved, kept
      <4>9. DOMAIN kept = {"CTRL0", "CTRL1", "RF_CONF"}
        BY <4>6, <4>8
      <4>10. kept.CTRL1 = TRUE /\ kept.RF_CONF = FALSE
        BY <4>3, <4>6, <4>7, <4>8
      <4> QED
        BY <4>9, <4>10 DEF kept
    <3>2. CASE s.do # "save"
      BY <1>5, <1>8, <3>2
    <3> QED
      BY <3>1, <3>2
  <2>3. DOMAIN otp' = {"word", "mode", "tries", "result"}
    <3>1. DOMAIN otp = {"word", "mode", "tries", "result"}
      BY <1>1 DEF ClockTypes
    <3>2. otp' \in Clocks!OtpAfter(s)
      BY <1>5
    <3>3. CASE s.do = "mode"
      BY <3>1, <3>2, <3>3 DEF Clocks!OtpAfter
    <3>4. CASE s.do = "program"
      BY <3>1, <3>2, <3>4 DEF Clocks!OtpAfter
    <3>5. CASE s.do = "verify"
      BY <3>1, <3>2, <3>5 DEF Clocks!OtpAfter
    <3>6. CASE s.do \notin {"mode", "program", "verify"}
      BY <3>1, <3>2, <3>6 DEF Clocks!OtpAfter
    <3> QED
      BY <3>3, <3>4, <3>5, <3>6
  <2>4. DOMAIN jobs'["routine"] = {"service", "steps", "reg", "saved"}
        /\ DOMAIN jobs'["routine"].saved = {"CTRL0", "CTRL1", "RF_CONF"}
    BY <1>1, <1>5 DEF ClockTypes
  <2> QED
    BY <1>5, <1>9, <2>1, <2>2, <2>3, <2>4 DEF ClockTypes
<1>13. jobs'["routine"].steps = <<>> /\ pmsc'.CTRL0 \cap Receiving = {}
  BY <1>5, <1>9
<1> QED
  BY <1>5, <1>9, <1>10, <1>11, <1>12, <1>13, <1>c, <1>d DEF s, P

-----------------------------------------------------------------------------
\* A change of the mode leaves the rest of the attempts.
LEMMA OtpModes ==
    ASSUME NEW step, step.do = "mode", otp' \in Clocks!OtpAfter(step),
           DOMAIN otp = {"word", "mode", "tries", "result"}
    PROVE  /\ otp'.mode = step.arg /\ otp'.tries = otp.tries
           /\ otp'.word = otp.word /\ otp'.result = otp.result
<1>1. otp' = [otp EXCEPT !.mode = step.arg]
  BY DEF Clocks!OtpAfter
<1> QED
  BY <1>1

\* Programming a word of the OTP: what a step leaves of the attempts, and
\* that a word which does not read as the value yet is programmed again.
LEMMA OtpSteps ==
    ASSUME NEW P, P = Clocks!Steps("otpwriteandverify"), ClockTypes, Clocks!ClocksAssumption,
           NEW k \in 1..9, Attempts("otpwriteandverify", k), otp' \in Clocks!OtpAfter(P[k]),
           NEW steps, steps = Clocks!StepsAfter(P[k], Rest(P, k + 1))
    PROVE  \E l \in {5, k + 1}: /\ l = 5 => k \in {4, 6}
                                /\ steps = Rest(P, l) /\ Attempts("otpwriteandverify", l)'
<1>1. /\ IsList(P) /\ Len(P) = 9
      /\ P[1].do = "get" /\ P[2].do = "low" /\ P[3].do = "high"
      /\ P[4].do = "mode" /\ P[4].arg = 1 /\ P[5].do = "program" /\ P[6].do = "check"
      /\ P[7].do = "mode" /\ P[7].arg = 4 /\ P[8].do = "verify" /\ P[9].do = "mode" /\ P[9].arg = 0
      /\ P[5] = Clocks!Step("program", 1)
  <2>1. P = Clocks!OtpWriteAndVerify
    BY DEF Clocks!Steps
  <2> QED
    BY <2>1, OtpWriteSteps DEF Clocks!Step
<1>2. DOMAIN otp = {"word", "mode", "tries", "result"}
  BY DEF ClockTypes
<1>3. Tries \in Nat /\ Tries > 0
  BY DEF Clocks!ClocksAssumption
<1>4. k # 6 => steps = Rest(P, k + 1)
  BY <1>1 DEF Clocks!StepsAfter
<1>5. CASE k \in 1..3
  <2>1. otp' = otp
    <3>1. P[k].do \in {"get", "low", "high"}
      <4>1. k = 1 \/ k = 2 \/ k = 3
        BY <1>5
      <4> QED
        BY <1>1, <4>1
    <3> QED
      BY <3>1 DEF Clocks!OtpAfter
  <2>2. otp = [word |-> "blank", mode |-> 0, tries |-> 0, result |-> "none"]
    BY <1>5 DEF Attempts, Clocks!BlankWord
  <2>3. Attempts("otpwriteandverify", k + 1)'
    BY <1>5, <2>1, <2>2 DEF Attempts, Clocks!BlankWord
  <2> QED
    BY <1>4, <1>5, <2>3
<1>6. CASE k = 4
  <2>1. P[k].do = "mode" /\ P[k].arg = 1
    BY <1>1, <1>6
  <2>2. otp.tries = 0 /\ otp.result = "none"
    BY <1>6 DEF Attempts, Clocks!BlankWord
  <2>3. otp'.mode = 1 /\ otp'.tries = 0 /\ otp'.result = "none"
    BY <1>2, <2>1, <2>2, OtpModes
  <2>4. Attempts("otpwriteandverify", 5)'
    BY <1>3, <2>3 DEF Attempts
  <2> QED
    BY <1>4, <1>6, <2>4
<1>7. CASE k = 5
  <2>1. PICK w: otp' = [otp EXCEPT !.word = w, !.tries = otp.tries + 1]
    <3>1. P[k].do = "program"
      BY <1>1, <1>7
    <3> QED
      BY <3>1 DEF Clocks!OtpAfter
  <2>2. otp.mode = 1 /\ otp.tries \in 0..Tries - 1 /\ otp.result = "none"
    BY <1>7 DEF Attempts
  <2>3. otp'.mode = 1 /\ otp'.tries = otp.tries + 1 /\ otp'.result = "none"
    BY <1>2, <2>1, <2>2
  <2>4. otp'.tries \in 1..Tries
    BY <1>3, <2>2, <2>3
  <2>5. Attempts("otpwriteandverify", 6)'
    BY <2>3, <2>4 DEF Attempts
  <2> QED
    BY <1>4, <1>7, <2>5
<1>8. CASE k = 6
  <2>1. otp' = otp
    BY <1>1, <1>8 DEF Clocks!OtpAfter
  <2>2. otp.mode = 1 /\ otp.tries \in 1..Tries /\ otp.result = "none"
    BY <1>8 DEF Attempts
  <2>3. CASE Clocks!Reads \/ otp.tries >= Tries
    <3>1. steps = Rest(P, 7)
      BY <1>3, <1>8, <2>2, <2>3 DEF Clocks!StepsAfter
    <3>2. Attempts("otpwriteandverify", 7)'
      BY <2>1, <2>2 DEF Attempts
    <3> QED
      BY <1>8, <3>1, <3>2
  <2>4. CASE ~Clocks!Reads /\ otp.tries < Tries
    <3>1. steps = <<Clocks!Step("program", 1), P[6]>> \o Rest(P, 7)
      BY <1>1, <1>8, <2>4 DEF Clocks!StepsAfter
    <3>2. steps = Rest(P, 5)
      <4>1. PICK S: P \in Seq(S)
        BY <1>1 DEF IsList
      <4>2. P[5] \in S /\ P[6] \in S
        BY <1>1, <4>1
      <4>3. /\ Rest(P, 7) \in Seq(S) /\ Len(Rest(P, 7)) = 3
            /\ \A i \in 1..3: Rest(P, 7)[i] = P[i + 6]
        <5>1. 7 \in 1..Len(P)
          BY <1>1
        <5>2. /\ Rest(P, 7) \in Seq(S) /\ Len(Rest(P, 7)) = Len(P) - 7 + 1
              /\ \A i \in 1..Len(P) - 7 + 1: Rest(P, 7)[i] = P[7 + i - 1]
          BY <4>1, <5>1, RestElements
        <5>3. Len(P) - 7 + 1 = 3
          BY <1>1
        <5>4. \A i \in 1..3: Rest(P, 7)[i] = P[i + 6]
          <6>1. ASSUME NEW i \in 1..3 PROVE Rest(P, 7)[i] = P[i + 6]
            <7>1. i \in 1..Len(P) - 7 + 1
              BY <5>3
            <7>2. 7 + i - 1 = i + 6
              OBVIOUS
            <7> QED
              BY <5>2, <7>1, <7>2
          <6> QED
            BY <6>1
        <5> QED
          BY <5>2, <5>3, <5>4
      <4>4. /\ Rest(P, 5) \in Seq(S) /\ Len(Rest(P, 5)) = 5
            /\ \A i \in 1..5: Rest(P, 5)[i] = P[i + 4]
        <5>1. 5 \in 1..Len(P)
          BY <1>1
        <5>2. /\ Rest(P, 5) \in Seq(S) /\ Len(Rest(P, 5)) = Len(P) - 5 + 1
              /\ \A i \in 1..Len(P) - 5 + 1: Rest(P, 5)[i] = P[5 + i - 1]
          BY <4>1, <5>1, RestElements
        <5>3. Len(P) - 5 + 1 = 5
          BY <1>1
        <5>4. \A i \in 1..5: Rest(P, 5)[i] = P[i + 4]
          <6>1. ASSUME NEW i \in 1..5 PROVE Rest(P, 5)[i] = P[i + 4]
            <7>1. i \in 1..Len(P) - 5 + 1
              BY <5>3
            <7>2. 5 + i - 1 = i + 4
              OBVIOUS
            <7> QED
              BY <5>2, <7>1, <7>2
          <6> QED
            BY <6>1
        <5> QED
          BY <5>2, <5>3, <5>4
      <4> DEFINE a == <<P[5], P[6]>>
                 b == Rest(P, 7)
      <4>5. a \in Seq(S) /\ Len(a) = 2 /\ a[1] = P[5] /\ a[2] = P[6]
        BY <4>2
      <4>6. steps = a \o b
        BY <1>1, <3>1
      <4> HIDE DEF a, b
      <4>7. b \in Seq(S) /\ Len(b) = 3 /\ \A i \in 1..3: b[i] = P[i + 6]
        BY <4>3 DEF b
      <4>8. /\ a \o b \in Seq(S) /\ Len(a \o b) = 5
            /\ \A i \in 1..5: (a \o b)[i] = IF i <= 2 THEN a[i] ELSE b[i - 2]
        <5>1. /\ a \o b \in Seq(S) /\ Len(a \o b) = Len(a) + Len(b)
              /\ \A i \in 1..Len(a) + Len(b): (a \o b)[i] = IF i <= Len(a) THEN a[i] ELSE b[i - Len(a)]
          BY <4>5, <4>7, ConcatProperties
        <5>2. Len(a) = 2 /\ Len(a) + Len(b) = 5
          BY <4>5, <4>7
        <5> QED
          BY <5>1, <5>2
      <4>9. ASSUME NEW i \in 1..5 PROVE (a \o b)[i] = P[i + 4]
        <5>1. CASE i = 1
          BY <4>5, <4>8, <5>1
        <5>2. CASE i = 2
          BY <4>5, <4>8, <5>2
        <5>3. CASE i \in 3..5
          <6>1. /\ i - 2 \in 1..3 /\ (i - 2) + 6 = i + 4
                /\ i \in 1..5 /\ ~(i <= 2)
            BY <5>3
          <6>2. b[i - 2] = P[i + 4]
            BY <4>7, <6>1
          <6>3. (a \o b)[i] = b[i - 2]
            BY <4>8, <6>1
          <6> QED
            BY <6>2, <6>3
        <5>4. i = 1 \/ i = 2 \/ i \in 3..5
          OBVIOUS
        <5> QED
          BY <5>1, <5>2, <5>3, <5>4
      <4>10. a \o b = Rest(P, 5)
        <5> DEFINE c == a \o b
                   d == Rest(P, 5)
        <5>c. c \in Seq(S) /\ Len(c) = 5 /\ \A i \in 1..5: c[i] = P[i + 4]
          BY <4>8, <4>9
        <5>d. d \in Seq(S) /\ Len(d) = 5 /\ \A i \in 1..5: d[i] = P[i + 4]
          BY <4>4
        <5> HIDE DEF c, d
        <5>1. c \in Seq(S) /\ d \in Seq(S) /\ Len(c) = Len(d) /\ \A i \in 1..Len(c): c[i] = d[i]
          BY <5>c, <5>d
        <5>2. c = d
          BY <5>1, SeqEqual
        <5> QED
          BY <5>2 DEF c, d
      <4> QED
        BY <4>6, <4>10
    <3>3. Attempts("otpwriteandverify", 5)'
      <4>1. otp'.tries \in 0..Tries - 1
        BY <1>3, <2>1, <2>2, <2>4
      <4> QED
        BY <2>1, <2>2, <4>1 DEF Attempts
    <3> QED
      BY <1>8, <3>2, <3>3
  <2> QED
    BY <1>3, <2>2, <2>3, <2>4
<1>9. CASE k = 7
  <2>1. P[k].do = "mode" /\ P[k].arg = 4
    BY <1>1, <1>9
  <2>2. otp.tries \in 1..Tries /\ otp.result = "none"
    BY <1>9 DEF Attempts
  <2>3. otp'.mode = 4 /\ otp'.tries = otp.tries /\ otp'.result = "none"
    BY <1>2, <2>1, <2>2, OtpModes
  <2>4. Attempts("otpwriteandverify", 8)'
    BY <2>2, <2>3 DEF Attempts
  <2> QED
    BY <1>4, <1>9, <2>4
<1>10. CASE k = 8
  <2>1. otp' = [otp EXCEPT !.result = IF Clocks!Reads THEN "success" ELSE "error"]
    BY <1>1, <1>10 DEF Clocks!OtpAfter
  <2>2. otp.mode = 4 /\ otp.tries \in 1..Tries
    BY <1>10 DEF Attempts
  <2>3. /\ otp'.mode = 4 /\ otp'.tries = otp.tries /\ otp'.word = otp.word
        /\ otp'.result = IF otp.word = "value" THEN "success" ELSE "error"
    <3>1. Clocks!Reads <=> otp.word = "value"
      BY <2>2 DEF Clocks!Reads
    <3> QED
      BY <1>2, <2>1, <2>2, <3>1
  <2>4. Attempts("otpwriteandverify", 9)'
    BY <2>2, <2>3 DEF Attempts
  <2> QED
    BY <1>4, <1>10, <2>4
<1>11. CASE k = 9
  <2>1. P[k].do = "mode" /\ P[k].arg = 0
    BY <1>1, <1>11
  <2>2. otp.tries \in 1..Tries /\ (otp.result = "success" => otp.word = "value")
    BY <1>11 DEF Attempts
  <2>3. /\ otp'.mode = 0 /\ otp'.tries = otp.tries /\ otp'.word = otp.word /\ otp'.result = otp.result
    BY <1>2, <2>1, OtpModes
  <2>4. Attempts("otpwriteandverify", 10)'
    BY <2>2, <2>3 DEF Attempts
  <2> QED
    BY <1>4, <1>11, <2>4
<1> QED
  BY <1>5, <1>6, <1>7, <1>8, <1>9, <1>10, <1>11

-----------------------------------------------------------------------------
\* What a service leaves on, where on was before it, is what is on after its n steps.
EndsOn(service, on, n) ==
    LET left == Clocks!Leaves(service, on)
    IN  /\ left \subseteq Driven \cup Clocks!Fourth
        /\ left \cap Driven = On(service, n + 1, on \cap Driven)
        /\ InSequence(service, n + 1) <=> service \notin Clocks!TestModes
        /\ Forces(service, n + 1) <=> service \in Clocks!TestModes
        /\ service \notin Clocks!TestModes => left \cap Driven \in Bases
        /\ service \in {"sniff_off", "softreset"} => left \cap Clocks!Fourth = {}
        /\ service # "sniff_on" => left \cap Clocks!Fourth \subseteq on

\* It is, for every service.
LEMMA ServiceEnds ==
    ASSUME NEW service \in Clocks!Services, NEW on, on \subseteq Driven \cup Clocks!Fourth,
           service # "softreset" => on \cap Driven \in Bases
    PROVE  EndsOn(service, on, Len(Clocks!Steps(service)))
<1> DEFINE base == on \cap Driven
           left == Clocks!Leaves(service, on)
           n == Len(Clocks!Steps(service))
\* The bits, set by set.
<1>s. /\ Clocks!Low = {"SYS_XTI", "SYS_PLL", "RX_XTI", "RX_PLL", "TX_XTI", "TX_PLL", "FACE"}
      /\ Clocks!High = {"LDE", "OTP", "ACC", "TX_TEST"}
      /\ Clocks!Fourth = {"PLL2_SEQ_EN"}
      /\ Synthesizer = {"SYS_PLL", "TX_PLL"} /\ Crystal = {"SYS_XTI"}
  BY DEF Clocks!Low, Clocks!SysClks, Clocks!RxClks, Clocks!TxClks, Clocks!High, Clocks!Fourth,
         Synthesizer, Crystal
<1>b. service # "softreset" => base \subseteq Lasting
  BY DEF Bases
<1>1. CASE service = "otpread"
  <2>1. n = 7
    <3>1. Len(Clocks!Steps("otpread")) = 7
      BY OtpReadFits
    <3> QED
      BY <1>1, <3>1
  <2>2. left = on \ Clocks!Low
    BY <1>1 DEF Clocks!Leaves
  <2> HIDE DEF n, left, base
  <2>3. n + 1 = 8
    BY <2>1
  <2>4. /\ On(service, n + 1, base) = base \ Crystal
        /\ InSequence(service, n + 1) = TRUE
        /\ Forces(service, n + 1) = FALSE
    BY <1>1, <2>3 DEF On, InSequence, Forces
  <2>5. service \notin Clocks!TestModes
    BY <1>1 DEF Clocks!TestModes
  <2>6. left \subseteq Driven \cup Clocks!Fourth /\ left \cap Driven = base \ Crystal
    BY <1>1, <1>s, <1>b, <2>2 DEF base, Driven, Lasting
  <2>7. left \cap Driven \in Bases
    BY <1>1, <1>s, <1>b, <2>6 DEF Bases, Lasting
  <2>8. /\ service \in {"sniff_off", "softreset"} => left \cap Clocks!Fourth = {}
        /\ service # "sniff_on" => left \cap Clocks!Fourth \subseteq on
    BY <1>1, <1>s, <2>2
  <2> QED
    BY <2>4, <2>5, <2>6, <2>7, <2>8 DEF EndsOn, left, n, base
<1>2. CASE service = "loadopsettabfromotp"
  <2>1. n = 7
    <3>1. Len(Clocks!Steps("loadopsettabfromotp")) = 7
      BY LoadOpsetFits
    <3> QED
      BY <1>2, <3>1
  <2>2. left = (on \ Clocks!Low) \cup {"OTP"}
    BY <1>2 DEF Clocks!Leaves
  <2> HIDE DEF n, left, base
  <2>3. n + 1 = 8
    BY <2>1
  <2>4. /\ On(service, n + 1, base) = (base \ Crystal) \cup {"OTP"}
        /\ InSequence(service, n + 1) = TRUE
        /\ Forces(service, n + 1) = FALSE
    BY <1>2, <2>3 DEF On, InSequence, Forces
  <2>5. service \notin Clocks!TestModes
    BY <1>2 DEF Clocks!TestModes
  <2>6. left \subseteq Driven \cup Clocks!Fourth /\ left \cap Driven = (base \ Crystal) \cup {"OTP"}
    BY <1>2, <1>s, <1>b, <2>2 DEF base, Driven, Lasting
  <2>7. left \cap Driven \in Bases
    BY <1>2, <1>s, <1>b, <2>6 DEF Bases, Lasting
  <2>8. /\ service \in {"sniff_off", "softreset"} => left \cap Clocks!Fourth = {}
        /\ service # "sniff_on" => left \cap Clocks!Fourth \subseteq on
    BY <1>2, <1>s, <2>2
  <2> QED
    BY <2>4, <2>5, <2>6, <2>7, <2>8 DEF EndsOn, left, n, base
<1>3. CASE service = "readtempvbat_slow"
  <2>1. n = 8
    <3>1. Len(Clocks!Steps("readtempvbat_slow")) = 8
      BY ReadTempSlowFits
    <3> QED
      BY <1>3, <3>1
  <2>2. left = on \ Clocks!Low
    BY <1>3 DEF Clocks!Leaves
  <2> HIDE DEF n, left, base
  <2>3. n + 1 = 9
    BY <2>1
  <2>4. /\ On(service, n + 1, base) = base \ Crystal
        /\ InSequence(service, n + 1) = TRUE
        /\ Forces(service, n + 1) = FALSE
    BY <1>3, <2>3 DEF On, InSequence, Forces
  <2>5. service \notin Clocks!TestModes
    BY <1>3 DEF Clocks!TestModes
  <2>6. left \subseteq Driven \cup Clocks!Fourth /\ left \cap Driven = base \ Crystal
    BY <1>3, <1>s, <1>b, <2>2 DEF base, Driven, Lasting
  <2>7. left \cap Driven \in Bases
    BY <1>3, <1>s, <1>b, <2>6 DEF Bases, Lasting
  <2>8. /\ service \in {"sniff_off", "softreset"} => left \cap Clocks!Fourth = {}
        /\ service # "sniff_on" => left \cap Clocks!Fourth \subseteq on
    BY <1>3, <1>s, <2>2
  <2> QED
    BY <2>4, <2>5, <2>6, <2>7, <2>8 DEF EndsOn, left, n, base
<1>4. CASE service = "readtempvbat_fast"
  <2>1. n = 1
    <3>1. Len(Clocks!Steps("readtempvbat_fast")) = 1
      BY ReadTempFastFits
    <3> QED
      BY <1>4, <3>1
  <2>2. left = on
    BY <1>4 DEF Clocks!Leaves
  <2> HIDE DEF n, left, base
  <2>3. n + 1 = 2
    BY <2>1
  <2>4. /\ On(service, n + 1, base) = base
        /\ InSequence(service, n + 1) = TRUE
        /\ Forces(service, n + 1) = FALSE
    BY <1>4, <2>3 DEF On, InSequence, Forces
  <2>5. service \notin Clocks!TestModes
    BY <1>4 DEF Clocks!TestModes
  <2>6. left \subseteq Driven \cup Clocks!Fourth /\ left \cap Driven = base
    BY <1>4, <1>s, <1>b, <2>2 DEF base, Driven, Lasting
  <2>7. left \cap Driven \in Bases
    BY <1>4, <1>s, <1>b, <2>6 DEF Bases, Lasting
  <2>8. /\ service \in {"sniff_off", "softreset"} => left \cap Clocks!Fourth = {}
        /\ service # "sniff_on" => left \cap Clocks!Fourth \subseteq on
    BY <1>4, <1>s, <2>2
  <2> QED
    BY <2>4, <2>5, <2>6, <2>7, <2>8 DEF EndsOn, left, n, base
<1>5. CASE service = "calcbandwidthtempadj"
  <2>1. n = 12
    <3>1. Len(Clocks!Steps("calcbandwidthtempadj")) = 12
      BY CountPulsesFits
    <3> QED
      BY <1>5, <3>1
  <2>2. left = on
    BY <1>5 DEF Clocks!Leaves
  <2> HIDE DEF n, left, base
  <2>3. n + 1 = 13
    BY <2>1
  <2>4. /\ On(service, n + 1, base) = base
        /\ InSequence(service, n + 1) = TRUE
        /\ Forces(service, n + 1) = FALSE
    BY <1>5, <2>3 DEF On, InSequence, Forces
  <2>5. service \notin Clocks!TestModes
    BY <1>5 DEF Clocks!TestModes
  <2>6. left \subseteq Driven \cup Clocks!Fourth /\ left \cap Driven = base
    BY <1>5, <1>s, <1>b, <2>2 DEF base, Driven, Lasting
  <2>7. left \cap Driven \in Bases
    BY <1>5, <1>s, <1>b, <2>6 DEF Bases, Lasting
  <2>8. /\ service \in {"sniff_off", "softreset"} => left \cap Clocks!Fourth = {}
        /\ service # "sniff_on" => left \cap Clocks!Fourth \subseteq on
    BY <1>5, <1>s, <2>2
  <2> QED
    BY <2>4, <2>5, <2>6, <2>7, <2>8 DEF EndsOn, left, n, base
<1>6. CASE service = "enablegpioclocks"
  <2>1. n = 2
    <3>1. Len(Clocks!Steps("enablegpioclocks")) = 2
      BY GpioClocksFits
    <3> QED
      BY <1>6, <3>1
  <2>2. left = on \cup {"GPCE", "GPRN"}
    BY <1>6 DEF Clocks!Leaves
  <2> HIDE DEF n, left, base
  <2>3. n + 1 = 3
    BY <2>1
  <2>4. /\ On(service, n + 1, base) = base \cup {"GPCE", "GPRN"}
        /\ InSequence(service, n + 1) = TRUE
        /\ Forces(service, n + 1) = FALSE
    BY <1>6, <2>3 DEF On, InSequence, Forces
  <2>5. service \notin Clocks!TestModes
    BY <1>6 DEF Clocks!TestModes
  <2>6. left \subseteq Driven \cup Clocks!Fourth /\ left \cap Driven = base \cup {"GPCE", "GPRN"}
    BY <1>6, <1>s, <1>b, <2>2 DEF base, Driven, Lasting
  <2>7. left \cap Driven \in Bases
    BY <1>6, <1>s, <1>b, <2>6 DEF Bases, Lasting
  <2>8. /\ service \in {"sniff_off", "softreset"} => left \cap Clocks!Fourth = {}
        /\ service # "sniff_on" => left \cap Clocks!Fourth \subseteq on
    BY <1>6, <1>s, <2>2
  <2> QED
    BY <2>4, <2>5, <2>6, <2>7, <2>8 DEF EndsOn, left, n, base
<1>7. CASE service = "setleds"
  <2>1. n = 2
    <3>1. Len(Clocks!Steps("setleds")) = 2
      BY LedsFits
    <3> QED
      BY <1>7, <3>1
  <2>2. left = on \cup {"GPDCE", "KHZCLEN"}
    BY <1>7 DEF Clocks!Leaves
  <2> HIDE DEF n, left, base
  <2>3. n + 1 = 3
    BY <2>1
  <2>4. /\ On(service, n + 1, base) = base \cup {"GPDCE", "KHZCLEN"}
        /\ InSequence(service, n + 1) = TRUE
        /\ Forces(service, n + 1) = FALSE
    BY <1>7, <2>3 DEF On, InSequence, Forces
  <2>5. service \notin Clocks!TestModes
    BY <1>7 DEF Clocks!TestModes
  <2>6. left \subseteq Driven \cup Clocks!Fourth /\ left \cap Driven = base \cup {"GPDCE", "KHZCLEN"}
    BY <1>7, <1>s, <1>b, <2>2 DEF base, Driven, Lasting
  <2>7. left \cap Driven \in Bases
    BY <1>7, <1>s, <1>b, <2>6 DEF Bases, Lasting
  <2>8. /\ service \in {"sniff_off", "softreset"} => left \cap Clocks!Fourth = {}
        /\ service # "sniff_on" => left \cap Clocks!Fourth \subseteq on
    BY <1>7, <1>s, <2>2
  <2> QED
    BY <2>4, <2>5, <2>6, <2>7, <2>8 DEF EndsOn, left, n, base
<1>8. CASE service = "sniff_on"
  <2>1. n = 2
    <3>1. Len(Clocks!Steps("sniff_on")) = 2
      BY SniffOnFits
    <3> QED
      BY <1>8, <3>1
  <2>2. left = on \cup Clocks!Fourth
    BY <1>8 DEF Clocks!Leaves
  <2> HIDE DEF n, left, base
  <2>3. n + 1 = 3
    BY <2>1
  <2>4. /\ On(service, n + 1, base) = base
        /\ InSequence(service, n + 1) = TRUE
        /\ Forces(service, n + 1) = FALSE
    BY <1>8, <2>3 DEF On, InSequence, Forces
  <2>5. service \notin Clocks!TestModes
    BY <1>8 DEF Clocks!TestModes
  <2>6. left \subseteq Driven \cup Clocks!Fourth /\ left \cap Driven = base
    BY <1>8, <1>s, <1>b, <2>2 DEF base, Driven, Lasting
  <2>7. left \cap Driven \in Bases
    BY <1>8, <1>s, <1>b, <2>6 DEF Bases, Lasting
  <2>8. /\ service \in {"sniff_off", "softreset"} => left \cap Clocks!Fourth = {}
        /\ service # "sniff_on" => left \cap Clocks!Fourth \subseteq on
    BY <1>8, <1>s, <2>2
  <2> QED
    BY <2>4, <2>5, <2>6, <2>7, <2>8 DEF EndsOn, left, n, base
<1>9. CASE service = "sniff_off"
  <2>1. n = 2
    <3>1. Len(Clocks!Steps("sniff_off")) = 2
      BY SniffOffFits
    <3> QED
      BY <1>9, <3>1
  <2>2. left = on \ Clocks!Fourth
    BY <1>9 DEF Clocks!Leaves
  <2> HIDE DEF n, left, base
  <2>3. n + 1 = 3
    BY <2>1
  <2>4. /\ On(service, n + 1, base) = base
        /\ InSequence(service, n + 1) = TRUE
        /\ Forces(service, n + 1) = FALSE
    BY <1>9, <2>3 DEF On, InSequence, Forces
  <2>5. service \notin Clocks!TestModes
    BY <1>9 DEF Clocks!TestModes
  <2>6. left \subseteq Driven \cup Clocks!Fourth /\ left \cap Driven = base
    BY <1>9, <1>s, <1>b, <2>2 DEF base, Driven, Lasting
  <2>7. left \cap Driven \in Bases
    BY <1>9, <1>s, <1>b, <2>6 DEF Bases, Lasting
  <2>8. /\ service \in {"sniff_off", "softreset"} => left \cap Clocks!Fourth = {}
        /\ service # "sniff_on" => left \cap Clocks!Fourth \subseteq on
    BY <1>9, <1>s, <2>2
  <2> QED
    BY <2>4, <2>5, <2>6, <2>7, <2>8 DEF EndsOn, left, n, base
<1>10. CASE service = "softreset"
  <2>1. n = 6
    <3>1. Len(Clocks!Steps("softreset")) = 6
      BY SoftResetFits
    <3> QED
      BY <1>10, <3>1
  <2>2. left = {}
    BY <1>10 DEF Clocks!Leaves
  <2> HIDE DEF n, left, base
  <2>3. n + 1 = 7
    BY <2>1
  <2>4. /\ On(service, n + 1, base) = {}
        /\ InSequence(service, n + 1) = TRUE
        /\ Forces(service, n + 1) = FALSE
    BY <1>10, <2>3 DEF On, InSequence, Forces
  <2>5. service \notin Clocks!TestModes
    BY <1>10 DEF Clocks!TestModes
  <2>6. left \subseteq Driven \cup Clocks!Fourth /\ left \cap Driven = {}
    BY <1>10, <1>s, <1>b, <2>2 DEF base, Driven, Lasting
  <2>7. left \cap Driven \in Bases
    BY <1>10, <1>s, <1>b, <2>6 DEF Bases, Lasting
  <2>8. /\ service \in {"sniff_off", "softreset"} => left \cap Clocks!Fourth = {}
        /\ service # "sniff_on" => left \cap Clocks!Fourth \subseteq on
    BY <1>10, <1>s, <2>2
  <2> QED
    BY <2>4, <2>5, <2>6, <2>7, <2>8 DEF EndsOn, left, n, base
<1>11. CASE service = "configcwmode"
  <2>1. n = 8
    <3>1. Len(Clocks!Steps("configcwmode")) = 8
      BY CwModeFits
    <3> QED
      BY <1>11, <3>1
  <2>2. left = (on \ (Clocks!Low \cup Clocks!High)) \cup {"SYS_PLL", "TX_PLL", "LDE", "OTP", "TX_TEST"}
    BY <1>11 DEF Clocks!Leaves
  <2> HIDE DEF n, left, base
  <2>3. n + 1 = 9
    BY <2>1
  <2>4. /\ On(service, n + 1, base) = (base \ Crystal) \cup {"SYS_PLL", "TX_PLL", "LDE", "OTP", "TX_TEST"}
        /\ InSequence(service, n + 1) = FALSE
        /\ Forces(service, n + 1) = TRUE
    BY <1>11, <2>3 DEF On, InSequence, Forces
  <2>5. service \in Clocks!TestModes
    BY <1>11 DEF Clocks!TestModes
  <2>6. left \subseteq Driven \cup Clocks!Fourth /\ left \cap Driven = (base \ Crystal) \cup {"SYS_PLL", "TX_PLL", "LDE", "OTP", "TX_TEST"}
    BY <1>11, <1>s, <1>b, <2>2 DEF base, Driven, Lasting
  <2>8. /\ service \in {"sniff_off", "softreset"} => left \cap Clocks!Fourth = {}
        /\ service # "sniff_on" => left \cap Clocks!Fourth \subseteq on
    BY <1>11, <1>s, <2>2
  <2> QED
    BY <2>4, <2>5, <2>6, <2>8 DEF EndsOn, left, n, base
<1>12. CASE service = "configcontinuousframemode"
  <2>1. n = 12
    <3>1. Len(Clocks!Steps("configcontinuousframemode")) = 12
      BY FrameModeFits
    <3> QED
      BY <1>12, <3>1
  <2>2. left = (on \ Clocks!Low) \cup {"SYS_PLL", "TX_PLL"}
    BY <1>12 DEF Clocks!Leaves
  <2> HIDE DEF n, left, base
  <2>3. n + 1 = 13
    BY <2>1
  <2>4. /\ On(service, n + 1, base) = (base \ Crystal) \cup Synthesizer
        /\ InSequence(service, n + 1) = FALSE
        /\ Forces(service, n + 1) = TRUE
    BY <1>12, <2>3 DEF On, InSequence, Forces
  <2>5. service \in Clocks!TestModes
    BY <1>12 DEF Clocks!TestModes
  <2>6. left \subseteq Driven \cup Clocks!Fourth /\ left \cap Driven = (base \ Crystal) \cup Synthesizer
    BY <1>12, <1>s, <1>b, <2>2 DEF base, Driven, Lasting
  <2>8. /\ service \in {"sniff_off", "softreset"} => left \cap Clocks!Fourth = {}
        /\ service # "sniff_on" => left \cap Clocks!Fourth \subseteq on
    BY <1>12, <1>s, <2>2
  <2> QED
    BY <2>4, <2>5, <2>6, <2>8 DEF EndsOn, left, n, base
<1>13. CASE service = "otpwriteandverify"
  <2>1. n = 9
    <3>1. Len(Clocks!Steps("otpwriteandverify")) = 9
      BY OtpWriteFits
    <3> QED
      BY <1>13, <3>1
  <2>2. left = on \cup {"SYS_XTI"}
    BY <1>13 DEF Clocks!Leaves
  <2> HIDE DEF n, left, base
  <2>3. n + 1 = 10
    BY <2>1
  <2>4. /\ On(service, n + 1, base) = base \cup Crystal
        /\ InSequence(service, n + 1) = TRUE
        /\ Forces(service, n + 1) = FALSE
    BY <1>13, <2>3 DEF On, InSequence, Forces
  <2>5. service \notin Clocks!TestModes
    BY <1>13 DEF Clocks!TestModes
  <2>6. left \subseteq Driven \cup Clocks!Fourth /\ left \cap Driven = base \cup Crystal
    BY <1>13, <1>s, <1>b, <2>2 DEF base, Driven, Lasting
  <2>7. left \cap Driven \in Bases
    BY <1>13, <1>s, <1>b, <2>6 DEF Bases, Lasting
  <2>8. /\ service \in {"sniff_off", "softreset"} => left \cap Clocks!Fourth = {}
        /\ service # "sniff_on" => left \cap Clocks!Fourth \subseteq on
    BY <1>13, <1>s, <2>2
  <2> QED
    BY <2>4, <2>5, <2>6, <2>7, <2>8 DEF EndsOn, left, n, base
<1> QED
  BY <1>1, <1>2, <1>3, <1>4, <1>5, <1>6, <1>7, <1>8, <1>9, <1>10, <1>11, <1>12, <1>13 DEF Clocks!Services

-----------------------------------------------------------------------------
\* Where a step takes the thread: to the next one, or to a word's next attempt.
LEMMA NextSteps ==
    ASSUME ClocksInv, Clocks!ClocksAssumption, Clocks!Advance("thread"), NEW service \in Clocks!Services,
           NEW k \in 1..Len(Clocks!Steps(service)), ThreadAt(service, k)
    PROVE  \E l \in 1..Len(Clocks!Steps(service)) + 1:
              /\ l = k + 1 \/ (service = "otpwriteandverify" /\ k = 6 /\ l = 5)
              /\ jobs'["thread"].steps = Rest(Clocks!Steps(service), l)
              /\ Attempts(service, l)'
<1> DEFINE P == Clocks!Steps(service)
           s == P[k]
           steps == jobs'["thread"].steps
<1>1. steps = Clocks!StepsAfter(s, Rest(P, k + 1)) /\ otp' \in Clocks!OtpAfter(s)
  BY ThreadSteps
<1>2. ClockTypes /\ Attempts(service, k)
  BY DEF ClocksInv, ThreadAt
<1>3. Len(P) \in Nat /\ k \in 1..Len(P) /\ InOrder(service, k)
  BY ServicesFit DEF Fitting
<1>4. k + 1 \in 1..Len(P) + 1
  BY <1>3
<1>5. CASE service # "otpwriteandverify"
  <2>1. s.do \notin {"mode", "program", "check", "verify"}
    BY <1>3, <1>5 DEF InOrder
  <2> HIDE DEF s, P, steps
  <2>2. steps = Rest(P, k + 1)
    BY <1>1, <2>1 DEF Clocks!StepsAfter
  <2>3. otp' = otp
    BY <1>1, <2>1 DEF Clocks!OtpAfter
  <2>4. Attempts(service, k + 1)'
    BY <1>2, <1>5, <2>3 DEF Attempts
  <2> QED
    BY <1>4, <2>2, <2>4 DEF P, steps
<1>6. CASE service = "otpwriteandverify"
  <2>1. P = Clocks!Steps("otpwriteandverify") /\ Len(P) = 9
    BY <1>6, OtpWriteFits
  <2>2. k \in 1..9 /\ Attempts("otpwriteandverify", k)
    BY <1>2, <1>3, <1>6, <2>1
  <2>3. steps = Clocks!StepsAfter(P[k], Rest(P, k + 1)) /\ otp' \in Clocks!OtpAfter(P[k])
    BY <1>1
  <2> HIDE DEF P, steps
  <2>4. \E l \in {5, k + 1}: /\ l = 5 => k \in {4, 6}
                             /\ steps = Rest(P, l) /\ Attempts("otpwriteandverify", l)'
    BY <1>2, <2>1, <2>2, <2>3, OtpSteps
  <2>5. PICK l \in {5, k + 1}: /\ l = 5 => k \in {4, 6}
                               /\ steps = Rest(P, l) /\ Attempts("otpwriteandverify", l)'
    BY <2>4
  <2>6. l = k + 1 \/ (k = 6 /\ l = 5)
    BY <2>2, <2>5
  <2>7. l \in 1..Len(P) + 1
    <3>1. Len(P) + 1 = 10
      <4>1. Len(P) = 9
        BY <2>1
      <4> QED
        BY <4>1
    <3>2. l \in 1..10
      <4>1. k + 1 \in 1..10
        BY <2>2
      <4> QED
        BY <2>6, <4>1
    <3> QED
      BY <3>1, <3>2
  <2>8. Attempts(service, l)'
    BY <1>6, <2>5
  <2> QED
    BY <1>6, <2>5, <2>6, <2>7, <2>8 DEF P, steps
<1> QED
  BY <1>5, <1>6

\* A step of the thread keeps the invariant.
LEMMA ThreadKeeps ==
    ASSUME ClocksInv, Clocks!ClocksAssumption, Clocks!Advance("thread")
    PROVE  ClocksInv'
<1>1. jobs["thread"].steps # <<>>
  BY DEF Clocks!Advance, Clocks!Busy
<1>a. PICK service \in Clocks!Services: \E k \in 1..Len(Clocks!Steps(service)): ThreadAt(service, k)
  BY <1>1 DEF ClocksInv, ThreadRuns, Resting
<1>2. PICK k \in 1..Len(Clocks!Steps(service)): ThreadAt(service, k)
  BY <1>a
<1> DEFINE P == Clocks!Steps(service)
           s == P[k]
<1>3. /\ IsList(P) /\ Len(P) \in Nat /\ k \in 1..Len(P)
      /\ InOrder(service, k)
  BY <1>2, ServicesFit DEF Fitting
<1>4. \E l \in 1..Len(P) + 1: /\ l = k + 1 \/ (service = "otpwriteandverify" /\ k = 6 /\ l = 5)
                              /\ jobs'["thread"].steps = Rest(P, l)
                              /\ Attempts(service, l)'
  BY <1>2, NextSteps
<1>5. PICK l \in 1..Len(P) + 1: /\ l = k + 1 \/ (service = "otpwriteandverify" /\ k = 6 /\ l = 5)
                                /\ jobs'["thread"].steps = Rest(P, l)
                                /\ Attempts(service, l)'
  BY <1>4
<1>6. /\ ClockTypes'
      /\ jobs'["routine"].steps = <<>> /\ pmsc'.CTRL0 \cap Receiving = {}
      /\ jobs'["thread"].service = service
      /\ steady' = IF jobs'["thread"].steps = <<>> THEN Clocks!Leaves(service, steady) ELSE steady
      /\ \/ service = "softreset" /\ k <= 4
         \/ /\ service # "softreset" => StaysOn \in Bases
            /\ pmsc'.CTRL0 \cap Driven = On(service, k + 1, StaysOn)
            /\ pmsc'.CTRL1 <=> InSequence(service, k + 1)
            /\ pmsc'.RF_CONF <=> Forces(service, k + 1)
      /\ service = "calcbandwidthtempadj" =>
           jobs'["thread"].saved.CTRL0 \cap Clocks!Low = StaysOn \cap Clocks!Low
  BY <1>2, ThreadSteps
<1>7. /\ k + 1 \in 1..Len(P) /\ steady' = steady => Informed(P[k + 1].do, jobs["thread"].reg)'
      /\ service # "softreset" /\ s.do # "clear" => steady \cap Clocks!Fourth \subseteq pmsc'.CTRL0
      /\ s.do = "set" => s.arg \subseteq pmsc'.CTRL0
  BY <1>2, ThreadSteps
<1>8. SteadyBits
  BY DEF ClocksInv
<1>9. s.do = "clear" => service = "sniff_off" /\ k = 2
  BY <1>3 DEF InOrder
<1> HIDE DEF P, s
\* In the middle of a service.
<1>10. ASSUME l \in 1..Len(P)
       PROVE  jobs'["thread"].steps # <<>> /\ steady' = steady /\ ThreadAt(service, l)'
  <2>1. jobs'["thread"].steps # <<>>
    BY <1>3, <1>5, <1>10, RestOf
  <2>2. steady' = steady
    BY <1>6, <2>1
  <2>3. StaysOn' = StaysOn
    BY <2>2 DEF StaysOn
  <2>4. Clocked(service, l)'
    <3>1. CASE l = k + 1
      <4>1. k <= 4 => k + 1 <= 5
        BY <1>3
      <4>2. CASE service = "softreset" /\ k <= 4
        BY <3>1, <4>1, <4>2 DEF Clocked
      <4>3. CASE ~(service = "softreset" /\ k <= 4)
        <5>1. /\ service # "softreset" => StaysOn \in Bases
              /\ pmsc'.CTRL0 \cap Driven = On(service, k + 1, StaysOn)
              /\ pmsc'.CTRL1 <=> InSequence(service, k + 1)
              /\ pmsc'.RF_CONF <=> Forces(service, k + 1)
          BY <1>6, <4>3
        <5>2. (pmsc.CTRL0 \cap Driven)' = On(service, l, StaysOn)'
          BY <2>3, <3>1, <5>1 DEF On
        <5>3. (pmsc.CTRL1 <=> InSequence(service, l))' /\ (pmsc.RF_CONF <=> Forces(service, l))'
          BY <3>1, <5>1 DEF InSequence, Forces
        <5> QED
          BY <2>3, <5>1, <5>2, <5>3 DEF Clocked
      <4> QED
        BY <4>2, <4>3
    <3>2. CASE service = "otpwriteandverify" /\ k = 6 /\ l = 5
      <4>1. k + 1 = 7
        BY <3>2
      <4>2. /\ On(service, 7, StaysOn) = StaysOn \cup Crystal
            /\ InSequence(service, 7) /\ ~Forces(service, 7)
            /\ On(service, 5, StaysOn)' = StaysOn \cup Crystal
            /\ InSequence(service, 5) /\ ~Forces(service, 5)
        BY <2>3, <3>2 DEF On, InSequence, Forces
      <4>3. /\ StaysOn' \in Bases
            /\ pmsc'.CTRL0 \cap Driven = StaysOn \cup Crystal
            /\ pmsc'.CTRL1 /\ ~pmsc'.RF_CONF
        BY <1>6, <2>3, <3>2, <4>1, <4>2
      <4> QED
        BY <3>2, <4>2, <4>3 DEF Clocked
    <3> QED
      BY <1>5, <3>1, <3>2
  <2>5. Informed(P[l].do, jobs["thread"].reg)'
    <3>1. CASE l = k + 1
      BY <1>7, <1>10, <2>2, <3>1
    <3>2. CASE service = "otpwriteandverify" /\ l = 5
      <4>1. P = Clocks!OtpWriteAndVerify
        BY <3>2 DEF P, Clocks!Steps
      <4>2. P[5].do = "program"
        BY <4>1, OtpWriteSteps DEF Clocks!Step
      <4> QED
        BY <3>2, <4>2 DEF Informed
    <3> QED
      BY <1>5, <3>1, <3>2
  <2>6. service = "calcbandwidthtempadj" /\ l > 1 =>
          (jobs["thread"].saved.CTRL0 \cap Clocks!Low = StaysOn \cap Clocks!Low)'
    BY <1>6, <2>3
  <2>7. ThreadAt(service, l)'
    BY <1>5, <1>6, <2>4, <2>5, <2>6 DEF ThreadAt, P
  <2> QED
    BY <2>1, <2>2, <2>7
\* At its end.
<1>11. ASSUME l \notin 1..Len(P)
       PROVE  /\ jobs'["thread"].steps = <<>> /\ k = Len(P)
              /\ service # "softreset" => StaysOn \in Bases
              /\ EndsOn(service, steady, Len(P))
              /\ steady' = Clocks!Leaves(service, steady)
              /\ Resting'
  <2>1. l = k + 1 /\ k = Len(P)
    <3>1. l = Len(P) + 1
      BY <1>3, <1>5, <1>11
    <3>2. service = "otpwriteandverify" => l # 5
      <4>1. service = "otpwriteandverify" => Len(P) = 9
        BY OtpWriteFits DEF P
      <4>2. Len(P) = 9 => Len(P) + 1 # 5
        OBVIOUS
      <4> QED
        BY <3>1, <4>1, <4>2
    <3>3. l = k + 1
      BY <1>5, <3>2
    <3> QED
      BY <1>3, <3>1, <3>3
  <2>2. jobs'["thread"].steps = <<>>
    <3>1. Rest(P, Len(P) + 1) = <<>>
      BY <1>3, WholeList
    <3> QED
      BY <1>5, <2>1, <3>1
  <2>3. steady' = Clocks!Leaves(service, steady)
    BY <1>6, <2>2
  <2>4. /\ service # "softreset" => StaysOn \in Bases
        /\ pmsc'.CTRL0 \cap Driven = On(service, k + 1, StaysOn)
        /\ pmsc'.CTRL1 <=> InSequence(service, k + 1)
        /\ pmsc'.RF_CONF <=> Forces(service, k + 1)
    <3>1. ~(service = "softreset" /\ k <= 4)
      <4>1. service = "softreset" => Len(P) = 6
        BY SoftResetFits DEF P
      <4> QED
        BY <2>1, <4>1
    <3> QED
      BY <1>6, <3>1
  <2>5. EndsOn(service, steady, Len(P))
    BY <1>8, <2>4, ServiceEnds DEF SteadyBits, StaysOn, P
  <2>6. /\ Clocks!Leaves(service, steady) \cap Driven = On(service, k + 1, StaysOn)
        /\ InSequence(service, k + 1) <=> service \notin Clocks!TestModes
        /\ Forces(service, k + 1) <=> service \in Clocks!TestModes
        /\ service \notin Clocks!TestModes => Clocks!Leaves(service, steady) \cap Driven \in Bases
    BY <2>1, <2>5 DEF EndsOn, StaysOn
  <2>7. StaysOn' = Clocks!Leaves(service, steady) \cap Driven
    BY <2>3 DEF StaysOn
  <2>8. Attempts(service, 10)'
    <3>1. Attempts(service, l)'
      BY <1>5
    <3>2. CASE service = "otpwriteandverify"
      <4>1. Len(P) = 9
        BY <3>2, OtpWriteFits DEF P
      <4>2. l = 10
        BY <2>1, <4>1
      <4> QED
        BY <3>1, <4>2
    <3>3. CASE service # "otpwriteandverify"
      BY <3>1, <3>3 DEF Attempts
    <3> QED
      BY <3>2, <3>3
  <2>9. Resting'
    <3>1. (pmsc.CTRL0 \cap Driven = StaysOn)'
      BY <2>4, <2>6, <2>7
    <3>2. (pmsc'.CTRL1 <=> service \notin Clocks!TestModes) /\ (pmsc'.RF_CONF <=> service \in Clocks!TestModes)
      BY <2>4, <2>6
    <3>3. service \notin Clocks!TestModes => StaysOn' \in Bases
      BY <2>6, <2>7
    <3> QED
      BY <1>6, <2>2, <2>8, <3>1, <3>2, <3>3 DEF Resting, Clocks!TestModes
  <2> QED
    BY <2>1, <2>2, <2>3, <2>4, <2>5, <2>9
<1>12. ThreadRuns'
  <2>1. CASE l \in 1..Len(P)
    BY <1>10, <2>1 DEF ThreadRuns, P
  <2>2. CASE l \notin 1..Len(P)
    BY <1>11, <2>2 DEF ThreadRuns
  <2> QED
    BY <2>1, <2>2
\* What SNIFF mode switched on, and the bits there are.
<1>13. SniffOn' /\ SteadyBits'
  <2>1. CASE l \in 1..Len(P)
    <3>1. jobs'["thread"].steps # <<>> /\ steady' = steady
      BY <1>10, <2>1
    <3>2. SteadyBits'
      BY <1>8, <3>1 DEF SteadyBits
    <3>3. CASE service = "softreset"
      BY <1>6, <3>1, <3>2, <3>3 DEF SniffOn
    <3>4. CASE service # "softreset"
      <4>1. s.do # "clear"
        <5>1. ASSUME s.do = "clear" PROVE FALSE
          <6>1. service = "sniff_off" /\ k = 2
            BY <1>9, <5>1
          <6>2. Len(P) = 2
            BY <6>1, SniffOffFits DEF P
          <6>3. l = 3
            BY <1>5, <6>1
          <6> QED
            BY <2>1, <6>2, <6>3
        <5> QED
          BY <5>1
      <4>2. steady' \cap Clocks!Fourth \subseteq pmsc'.CTRL0
        BY <1>7, <3>1, <3>4, <4>1
      <4> QED
        BY <3>2, <4>2 DEF SniffOn
    <3> QED
      BY <3>3, <3>4
  <2>2. CASE l \notin 1..Len(P)
    <3>1. /\ steady' \subseteq Driven \cup Clocks!Fourth
          /\ service \in {"sniff_off", "softreset"} => steady' \cap Clocks!Fourth = {}
          /\ service # "sniff_on" => steady' \cap Clocks!Fourth \subseteq steady
      BY <1>11, <2>2 DEF EndsOn
    <3>2. SteadyBits'
      BY <3>1 DEF SteadyBits
    <3>3. CASE service \in {"sniff_off", "softreset"}
      BY <3>1, <3>2, <3>3 DEF SniffOn
    <3>4. CASE service = "sniff_on"
      <4>1. P = Clocks!Set({"PLL2_SEQ_EN"}) /\ Len(P) = 2
        BY <3>4, SniffOnFits DEF P, Clocks!Steps
      <4>2. k = 2
        BY <1>11, <2>2, <4>1
      <4>3. s.do = "set" /\ s.arg = Clocks!Fourth
        BY <4>1, <4>2, SniffOnSteps DEF s, Clocks!Step, Clocks!Fourth
      <4> QED
        BY <1>7, <3>2, <4>3 DEF SniffOn
    <3>5. CASE service \notin {"sniff_off", "softreset", "sniff_on"}
      <4>1. steady \cap Clocks!Fourth \subseteq pmsc'.CTRL0
        BY <1>7, <1>9, <3>5
      <4>2. steady' \cap Clocks!Fourth \subseteq pmsc'.CTRL0
        BY <3>1, <3>5, <4>1
      <4> QED
        BY <3>2, <4>2 DEF SniffOn
    <3> QED
      BY <3>3, <3>4, <3>5
  <2> QED
    BY <2>1, <2>2
<1>14. RoutineRuns'
  BY <1>6, <1>13 DEF RoutineRuns
<1> QED
  BY <1>6, <1>12, <1>13, <1>14 DEF ClocksInv

-----------------------------------------------------------------------------
\* What the thread relies on, which a step of the routine leaves alone.
ThreadUndisturbed ==
    /\ pmsc'.CTRL0 \cap Driven = pmsc.CTRL0 \cap Driven
    /\ DOMAIN pmsc' = {"CTRL0", "CTRL1", "RF_CONF"}
    /\ pmsc'.CTRL1 = pmsc.CTRL1 /\ pmsc'.RF_CONF = pmsc.RF_CONF
    /\ jobs'["thread"] = jobs["thread"]
    /\ otp' = otp
    /\ steady' \subseteq steady /\ StaysOn' = StaysOn

\* The thread goes on where it was.
LEMMA UndisturbedRuns ==
    ASSUME SteadyBits, ThreadRuns, ThreadUndisturbed
    PROVE  ThreadRuns' /\ SteadyBits'
<1>1. pmsc'.CTRL0 \cap Driven = pmsc.CTRL0 \cap Driven /\ StaysOn' = StaysOn
  BY DEF ThreadUndisturbed
<1>2. ASSUME NEW service, NEW k, Clocked(service, k) PROVE Clocked(service, k)'
  <2>1. On(service, k, StaysOn)' = On(service, k, StaysOn)
    BY <1>1 DEF On
  <2> QED
    BY <1>1, <1>2, <2>1 DEF Clocked, ThreadUndisturbed, InSequence, Forces
<1>3. ASSUME NEW do, Informed(do, jobs["thread"].reg) PROVE Informed(do, jobs["thread"].reg)'
  <2>1. /\ Agrees(jobs["thread"].reg, Driven) => Agrees(jobs["thread"].reg, Driven)'
        /\ Agrees(jobs["thread"].reg, HighBits) => Agrees(jobs["thread"].reg, HighBits)'
    <3>1. HighBits \subseteq Driven
      BY DEF HighBits, Driven
    <3>2. pmsc'.CTRL0 \cap HighBits = pmsc.CTRL0 \cap HighBits
      BY <1>1, <3>1
    <3> QED
      BY <1>1, <3>2 DEF Agrees, ThreadUndisturbed
  <2>2. steady \cap Clocks!Fourth \subseteq jobs["thread"].reg =>
          steady' \cap Clocks!Fourth \subseteq jobs'["thread"].reg
    BY DEF ThreadUndisturbed
  <2> QED
    BY <1>3, <2>1, <2>2 DEF Informed
<1>4. ASSUME NEW service, NEW k, Attempts(service, k) PROVE Attempts(service, k)'
  BY <1>4 DEF Attempts, ThreadUndisturbed
<1>5. ThreadRuns'
  <2>1. CASE Resting
    <3>1. Attempts(jobs["thread"].service, 10)'
      BY <1>4, <2>1 DEF Resting, ThreadUndisturbed
    <3>2. (pmsc.CTRL0 \cap Driven = StaysOn)'
      BY <1>1, <2>1 DEF Resting
    <3> QED
      BY <1>1, <2>1, <3>1, <3>2 DEF Resting, ThreadRuns, ThreadUndisturbed, Clocks!TestModes
  <2>2. ASSUME NEW service \in Clocks!Services, NEW k \in 1..Len(Clocks!Steps(service)),
               ThreadAt(service, k)
        PROVE  ThreadRuns'
    <3> DEFINE do == Clocks!Steps(service)[k].do
    <3>1. Clocked(service, k)' /\ Attempts(service, k)'
      BY <1>2, <1>4, <2>2 DEF ThreadAt
    <3>2. Informed(do, jobs["thread"].reg)'
      <4>1. Informed(do, jobs["thread"].reg)
        BY <2>2 DEF ThreadAt
      <4> HIDE DEF do
      <4> QED
        BY <1>3, <4>1
    <3>3. service = "calcbandwidthtempadj" /\ k > 1 =>
            (jobs["thread"].saved.CTRL0 \cap Clocks!Low = StaysOn \cap Clocks!Low)'
      BY <1>1, <2>2 DEF ThreadAt, ThreadUndisturbed
    <3>4. ThreadAt(service, k)'
      BY <2>2, <3>1, <3>2, <3>3 DEF ThreadAt, ThreadUndisturbed
    <3> QED
      BY <3>4 DEF ThreadRuns
  <2> QED
    BY <2>1, <2>2 DEF ThreadRuns
<1>6. SteadyBits'
  BY DEF SteadyBits, ThreadUndisturbed
<1> QED
  BY <1>5, <1>6

\* A write of the routine: d is what c becomes, reg what had been read, on the
\* clocks of the receiver that are on then.
Rewritten(c, reg, d, on) ==
    /\ d \cap Driven = c \cap Driven /\ d \cap Clocks!Fourth = c \cap Clocks!Fourth
    /\ d \cap Receiving = on

\* The low byte as dwt_readaccdata begins.
LEMMA AccLowOn ==
    ASSUME NEW c, NEW reg, NEW d, reg = c, c \cap Receiving = {},
           d = (c \ Clocks!Low) \cup Clocks!NewLow("READ_ACC_ON", reg)
    PROVE  Rewritten(c, reg, d, {"FACE", "RX_PLL"})
<1>1. d = (c \ Clocks!Low) \cup {"FACE", "RX_PLL"} \cup ((c \cap Clocks!Low) \ Clocks!RxClks)
  BY DEF Clocks!NewLow
<1> QED
  BY <1>1 DEF Rewritten, Driven, Receiving, Clocks!Fourth, Clocks!Low, Clocks!SysClks, Clocks!RxClks,
              Clocks!TxClks, Clocks!High

\* The high byte as it begins.
LEMMA AccHighOn ==
    ASSUME NEW c, NEW reg, NEW d, reg \cap Clocks!High = c \cap Clocks!High, c \cap Receiving = {"FACE", "RX_PLL"},
           d = (c \ Clocks!High) \cup Clocks!NewHigh("READ_ACC_ON", reg)
    PROVE  Rewritten(c, reg, d, {"FACE", "RX_PLL", "ACC"})
<1>1. d = (c \ Clocks!High) \cup (c \cap Clocks!High) \cup {"ACC"}
  BY DEF Clocks!NewHigh
<1> QED
  BY <1>1 DEF Rewritten, Driven, Receiving, Clocks!Fourth, Clocks!Low, Clocks!SysClks, Clocks!RxClks,
              Clocks!TxClks, Clocks!High

\* The low byte as it ends.
LEMMA AccLowOff ==
    ASSUME NEW c, NEW reg, NEW d, reg = c, c \cap Receiving = {"FACE", "RX_PLL", "ACC"},
           d = (c \ Clocks!Low) \cup Clocks!NewLow("READ_ACC_OFF", reg)
    PROVE  Rewritten(c, reg, d, {"ACC"})
<1>1. d = (c \ Clocks!Low) \cup ((c \cap Clocks!Low) \ ({"FACE"} \cup Clocks!RxClks))
  BY DEF Clocks!NewLow
<1> QED
  BY <1>1 DEF Rewritten, Driven, Receiving, Clocks!Fourth, Clocks!Low, Clocks!SysClks, Clocks!RxClks,
              Clocks!TxClks, Clocks!High

\* The high byte as it ends.
LEMMA AccHighOff ==
    ASSUME NEW c, NEW reg, NEW d, reg \cap Clocks!High = c \cap Clocks!High, c \cap Receiving = {"ACC"},
           d = (c \ Clocks!High) \cup Clocks!NewHigh("READ_ACC_OFF", reg)
    PROVE  Rewritten(c, reg, d, {})
<1>1. d = (c \ Clocks!High) \cup ((c \cap Clocks!High) \ {"ACC"})
  BY DEF Clocks!NewHigh
<1> QED
  BY <1>1 DEF Rewritten, Driven, Receiving, Clocks!Fourth, Clocks!Low, Clocks!SysClks, Clocks!RxClks,
              Clocks!TxClks, Clocks!High

\* The reset of the receiver is in the fourth byte.
LEMMA FourthOff ==
    ASSUME NEW c, NEW d, d = c \ Clocks!Fourth
    PROVE  d \cap Driven = c \cap Driven /\ d \cap Receiving = c \cap Receiving
BY DEF Clocks!Fourth, Driven, Receiving

\* A step of the routine keeps the invariant.
LEMMA RoutineKeeps ==
    ASSUME ClocksInv, Clocks!Advance("routine")
    PROVE  ClocksInv'
<1> DEFINE job == jobs["routine"]
           s == Head(job.steps)
           d == Clocks!Ctrl0After(s, job)
<1>1. ClockTypes /\ ThreadRuns /\ RoutineRuns /\ SteadyBits
  BY DEF ClocksInv
<1>2. /\ job.steps # <<>>
      /\ DOMAIN jobs' = {"thread", "routine"}
      /\ jobs'["thread"] = jobs["thread"]
      /\ DOMAIN jobs'["routine"] = {"service", "steps", "reg", "saved"}
      /\ jobs'["routine"].steps = Clocks!StepsAfter(s, Tail(job.steps))
      /\ jobs'["routine"].reg = IF s.do = "get" THEN pmsc.CTRL0 ELSE job.reg
      /\ jobs'["routine"].saved = IF s.do = "save" THEN [job.saved EXCEPT ![s.arg] = pmsc[s.arg]]
                                  ELSE job.saved
      /\ pmsc' = Clocks!ChipAfter(s, job)
      /\ otp' \in Clocks!OtpAfter(s)
      /\ jobs'["routine"].service = job.service
      /\ steady' = IF jobs'["routine"].steps = <<>> THEN Clocks!Leaves(job.service, steady) ELSE steady
  BY <1>1, Advances
<1>3. /\ DOMAIN pmsc = {"CTRL0", "CTRL1", "RF_CONF"}
      /\ DOMAIN job.saved = {"CTRL0", "CTRL1", "RF_CONF"}
  BY <1>1 DEF ClockTypes
\* What every step of the routine has in common.
<1>4. ASSUME s.do \in {"get", "low", "high", "use", "rxreset"}
      PROVE  /\ DOMAIN pmsc' = {"CTRL0", "CTRL1", "RF_CONF"} /\ pmsc'.CTRL0 = d
             /\ pmsc'.CTRL1 = pmsc.CTRL1 /\ pmsc'.RF_CONF = pmsc.RF_CONF
             /\ otp' = otp
             /\ jobs'["routine"].steps = Tail(job.steps)
             /\ jobs'["routine"].saved = job.saved
  <2>1. pmsc' = [pmsc EXCEPT !.CTRL0 = d]
    BY <1>2, <1>4 DEF Clocks!ChipAfter
  <2>2. otp' = otp /\ jobs'["routine"].steps = Tail(job.steps) /\ jobs'["routine"].saved = job.saved
    BY <1>2, <1>4 DEF Clocks!OtpAfter, Clocks!StepsAfter
  <2> HIDE DEF d, s, job
  <2> QED
    BY <1>3, <2>1, <2>2
<1>5. ASSUME s.do \in {"get", "low", "high", "use", "rxreset"},
             d \cap Driven = pmsc.CTRL0 \cap Driven,
             steady' = steady \/ steady' = steady \ Clocks!Fourth
      PROVE  ClockTypes' /\ ThreadRuns' /\ SteadyBits'
  <2>1. ThreadUndisturbed
    <3>1. steady' \subseteq steady /\ StaysOn' = StaysOn
      BY <1>5 DEF StaysOn, Driven, Clocks!Fourth
    <3> HIDE DEF d, s, job
    <3> QED
      BY <1>2, <1>4, <1>5, <3>1 DEF ThreadUndisturbed
  <2>2. ThreadRuns' /\ SteadyBits'
    BY <1>1, <2>1, UndisturbedRuns
  <2>3. ClockTypes'
    BY <1>1, <1>2, <1>3, <1>4, <1>5 DEF ClockTypes
  <2> QED
    BY <2>2, <2>3
\* The steps of dwt_readaccdata.
<1>6. ASSUME job.service = "readaccdata", SniffOn,
             NEW k \in 1..7, job.steps = Rest(Clocks!ReadAccData, k), Received(k)
      PROVE  ClocksInv'
  <2> DEFINE P == Clocks!ReadAccData
             current == pmsc.CTRL0
             reg == job.reg
  <2>1. /\ IsList(P) /\ Len(P) = 7
        /\ P[1].do = "get" /\ P[2].do = "low" /\ P[2].arg = "READ_ACC_ON"
        /\ P[3].do = "high" /\ P[3].arg = "READ_ACC_ON" /\ P[4].do = "use" /\ P[5].do = "get"
        /\ P[6].do = "low" /\ P[6].arg = "READ_ACC_OFF"
        /\ P[7].do = "high" /\ P[7].arg = "READ_ACC_OFF"
    BY ReadAccSteps DEF Clocks!Step
  <2>2. k = 1 \/ k = 2 \/ k = 3 \/ k = 4 \/ k = 5 \/ k = 6 \/ k = 7
    OBVIOUS
  <2>3. s = P[k] /\ Tail(job.steps) = Rest(P, k + 1)
    <3> HIDE DEF P
    <3>1. k \in 1..Len(P) /\ IsList(P)
      BY <2>1
    <3>2. Head(Rest(P, k)) = P[k] /\ Tail(Rest(P, k)) = Rest(P, k + 1)
      BY <3>1, RestOf
    <3> QED
      BY <1>6, <3>2 DEF P
  <2>4. s.do \in {"get", "low", "high", "use", "rxreset"}
    <3> HIDE DEF s, P
    <3> QED
      BY <2>1, <2>2, <2>3
  <2> HIDE DEF s, P, d, job
  <2>5. /\ d \cap Driven = current \cap Driven /\ d \cap Clocks!Fourth = current \cap Clocks!Fourth
        /\ Received(k + 1)'
    <3>1. pmsc'.CTRL0 = d /\ jobs'["routine"].reg = IF s.do = "get" THEN current ELSE reg
      BY <1>2, <1>4, <2>4
    <3>2. CASE k \in {1, 4, 5}
      <4>1. s.do \in {"get", "use"} /\ (k \in {1, 5} => s.do = "get")
        BY <2>1, <2>3, <3>2
      <4>2. d = current
        BY <4>1 DEF d, Clocks!Ctrl0After
      <4>3. current \cap Receiving = IF k = 1 THEN {} ELSE {"FACE", "RX_PLL", "ACC"}
        BY <1>6, <3>2 DEF Received
      <4> QED
        BY <3>1, <3>2, <4>1, <4>2, <4>3 DEF Received
    <3>3. CASE k = 2
      <4>1. s.do = "low" /\ s.arg = "READ_ACC_ON"
        BY <2>1, <2>3, <3>3
      <4>2. d = (current \ Clocks!Low) \cup Clocks!NewLow("READ_ACC_ON", reg)
        BY <4>1 DEF d, Clocks!Ctrl0After
      <4>3. reg = current /\ current \cap Receiving = {}
        BY <1>6, <3>3 DEF Received, job
      <4> HIDE DEF current, reg
      <4>4. Rewritten(current, reg, d, {"FACE", "RX_PLL"})
        BY <4>2, <4>3, AccLowOn
      <4>5. d \cap Clocks!High = reg \cap Clocks!High
        BY <4>2, <4>3 DEF Clocks!NewLow, Clocks!High, Clocks!Low, Clocks!SysClks, Clocks!RxClks,
                          Clocks!TxClks
      <4> QED
        BY <3>1, <3>3, <4>1, <4>4, <4>5 DEF Rewritten, Received, Agrees
    <3>4. CASE k = 3
      <4>1. s.do = "high" /\ s.arg = "READ_ACC_ON"
        BY <2>1, <2>3, <3>4
      <4>2. d = (current \ Clocks!High) \cup Clocks!NewHigh("READ_ACC_ON", reg)
        BY <4>1 DEF d, Clocks!Ctrl0After
      <4>3. reg \cap Clocks!High = current \cap Clocks!High /\ current \cap Receiving = {"FACE", "RX_PLL"}
        BY <1>6, <3>4 DEF Received, Agrees, job
      <4> HIDE DEF current, reg
      <4>4. Rewritten(current, reg, d, {"FACE", "RX_PLL", "ACC"})
        BY <4>2, <4>3, AccHighOn
      <4> QED
        BY <3>1, <3>4, <4>4 DEF Rewritten, Received
    <3>5. CASE k = 6
      <4>1. s.do = "low" /\ s.arg = "READ_ACC_OFF"
        BY <2>1, <2>3, <3>5
      <4>2. d = (current \ Clocks!Low) \cup Clocks!NewLow("READ_ACC_OFF", reg)
        BY <4>1 DEF d, Clocks!Ctrl0After
      <4>3. reg = current /\ current \cap Receiving = {"FACE", "RX_PLL", "ACC"}
        BY <1>6, <3>5 DEF Received, job
      <4> HIDE DEF current, reg
      <4>4. Rewritten(current, reg, d, {"ACC"})
        BY <4>2, <4>3, AccLowOff
      <4>5. d \cap Clocks!High = reg \cap Clocks!High
        BY <4>2, <4>3 DEF Clocks!NewLow, Clocks!High, Clocks!Low, Clocks!SysClks, Clocks!RxClks,
                          Clocks!TxClks
      <4> QED
        BY <3>1, <3>5, <4>1, <4>4, <4>5 DEF Rewritten, Received, Agrees
    <3>6. CASE k = 7
      <4>1. s.do = "high" /\ s.arg = "READ_ACC_OFF"
        BY <2>1, <2>3, <3>6
      <4>2. d = (current \ Clocks!High) \cup Clocks!NewHigh("READ_ACC_OFF", reg)
        BY <4>1 DEF d, Clocks!Ctrl0After
      <4>3. reg \cap Clocks!High = current \cap Clocks!High /\ current \cap Receiving = {"ACC"}
        BY <1>6, <3>6 DEF Received, Agrees, job
      <4> HIDE DEF current, reg
      <4>4. Rewritten(current, reg, d, {})
        BY <4>2, <4>3, AccHighOff
      <4> QED
        BY <3>1, <3>6, <4>4 DEF Rewritten, Received
    <3> QED
      BY <2>2, <3>2, <3>3, <3>4, <3>5, <3>6
  <2>a. steady' = steady
    <3>1. Clocks!Leaves("readaccdata", steady) = steady
      BY DEF Clocks!Leaves, Clocks!TestModes
    <3> QED
      BY <1>2, <1>6, <3>1
  <2>6. ClockTypes' /\ ThreadRuns' /\ SteadyBits'
    BY <1>5, <2>4, <2>5, <2>a
  <2>7. jobs'["routine"].steps = Rest(P, k + 1) /\ jobs'["routine"].service = "readaccdata"
    BY <1>2, <1>4, <1>6, <2>3, <2>4
  <2>b. SniffOn'
    <3>1. pmsc'.CTRL0 = d
      BY <1>4, <2>4
    <3> QED
      BY <1>2, <1>6, <2>5, <2>a, <3>1 DEF SniffOn
  <2>8. RoutineRuns'
    <3>1. CASE k = 7
      <4>1. Rest(P, 8) = <<>>
        <5>1. Len(P) + 1 = 8
          BY <2>1
        <5>2. Rest(P, Len(P) + 1) = <<>>
          BY <2>1, WholeList
        <5> QED
          BY <5>1, <5>2
      <4>2. jobs'["routine"].steps = <<>>
        BY <2>7, <3>1, <4>1
      <4>3. pmsc'.CTRL0 \cap Receiving = {}
        BY <2>5, <3>1 DEF Received
      <4> QED
        BY <2>b, <4>2, <4>3 DEF RoutineRuns
    <3>2. CASE k # 7
      <4>1. k + 1 \in 1..7
        BY <3>2
      <4> QED
        BY <2>5, <2>7, <2>b, <4>1 DEF RoutineRuns, P
    <3> QED
      BY <3>1, <3>2
  <2> QED
    BY <2>6, <2>8 DEF ClocksInv
\* The steps of dwt_rxreset.
<1>7. ASSUME job.service = "rxreset",
             NEW k \in 1..2, job.steps = Rest(Clocks!RxReset, k), pmsc.CTRL0 \cap Receiving = {}
      PROVE  ClocksInv'
  <2> DEFINE P == Clocks!RxReset
  <2>1. IsList(P) /\ Len(P) = 2 /\ P[1].do = "rxreset" /\ P[2].do = "rxreset"
    BY RxResetSteps DEF Clocks!Step
  <2>2. k = 1 \/ k = 2
    OBVIOUS
  <2>3. s = P[k] /\ Tail(job.steps) = Rest(P, k + 1)
    <3> HIDE DEF P
    <3>1. k \in 1..Len(P) /\ IsList(P)
      BY <2>1
    <3>2. Head(Rest(P, k)) = P[k] /\ Tail(Rest(P, k)) = Rest(P, k + 1)
      BY <3>1, RestOf
    <3> QED
      BY <1>7, <3>2 DEF P
  <2>4. s.do = "rxreset"
    <3> HIDE DEF s, P
    <3> QED
      BY <2>1, <2>2, <2>3
  <2>5. d = pmsc.CTRL0 \ Clocks!Fourth
    BY <2>4 DEF Clocks!Ctrl0After
  <2> HIDE DEF s, P, d, job
  <2>6. d \cap Driven = pmsc.CTRL0 \cap Driven /\ d \cap Receiving = {}
    BY <1>7, <2>5, FourthOff
  <2>a. steady' = IF jobs'["routine"].steps = <<>> THEN steady \ Clocks!Fourth ELSE steady
    <3>1. Clocks!Leaves("rxreset", steady) = steady \ Clocks!Fourth
      BY DEF Clocks!Leaves, Clocks!TestModes
    <3> QED
      BY <1>2, <1>7, <3>1
  <2>7. ClockTypes' /\ ThreadRuns' /\ SteadyBits'
    BY <1>5, <2>4, <2>6, <2>a
  <2>8. /\ jobs'["routine"].steps = Rest(P, k + 1) /\ pmsc'.CTRL0 \cap Receiving = {}
        /\ jobs'["routine"].service = "rxreset"
    BY <1>2, <1>4, <1>7, <2>3, <2>4, <2>6
  <2>9. RoutineRuns'
    <3>1. CASE k = 2
      <4>1. Rest(P, 3) = <<>>
        <5>1. Len(P) + 1 = 3
          BY <2>1
        <5>2. Rest(P, Len(P) + 1) = <<>>
          BY <2>1, WholeList
        <5> QED
          BY <5>1, <5>2
      <4>2. jobs'["routine"].steps = <<>>
        BY <2>8, <3>1, <4>1
      <4>3. SniffOn'
        BY <2>a, <4>2 DEF SniffOn
      <4> QED
        BY <2>8, <4>2, <4>3 DEF RoutineRuns
    <3>2. CASE k = 1
      BY <2>8, <3>2 DEF RoutineRuns, P
    <3> QED
      BY <2>2, <3>1, <3>2
  <2> QED
    BY <2>7, <2>9 DEF ClocksInv
<1> QED
  BY <1>1, <1>2, <1>6, <1>7 DEF RoutineRuns

-----------------------------------------------------------------------------
\* A service begins on what there is, with the clocks sequenced.
LEMMA ServiceBegins ==
    ASSUME NEW service \in Clocks!Services, NEW base
    PROVE  /\ service # "softreset" => On(service, 1, base) = base
           /\ InSequence(service, 1) /\ ~Forces(service, 1)
BY DEF On, InSequence, Forces, Clocks!Services

\* No service runs when none has steps to come.
LEMMA ThreadRests ==
    ASSUME ThreadRuns, jobs["thread"].steps = <<>>
    PROVE  Resting
<1>1. ASSUME NEW service \in Clocks!Services, NEW k \in 1..Len(Clocks!Steps(service)), ThreadAt(service, k)
      PROVE  FALSE
  <2>1. Rest(Clocks!Steps(service), k) # <<>>
    BY ServicesFit, RestOf
  <2> QED
    BY <1>1, <2>1 DEF ThreadAt
<1> QED
  BY <1>1 DEF ThreadRuns

-----------------------------------------------------------------------------
\* A call of a service keeps the invariant.
LEMMA ServiceCallKeeps ==
    ASSUME ClocksInv, NEW service \in Clocks!Services, Clocks!Call(service)
    PROVE  ClocksInv'
<1> DEFINE P == Clocks!Steps(service)
           new == [[service |-> "none", steps |-> <<>>, reg |-> {}, saved |-> Clocks!Sequenced]
                     EXCEPT !.service = service, !.steps = P]
<1>1. ClockTypes /\ ThreadRuns /\ RoutineRuns /\ SteadyBits
  BY DEF ClocksInv
<1>2. /\ jobs["thread"].steps = <<>> /\ jobs["routine"].steps = <<>>
      /\ jobs["thread"].service \in Clocks!TestModes => service = "softreset"
      /\ jobs' = [jobs EXCEPT !["thread"] = new]
      /\ otp' = Clocks!BlankWord /\ pmsc' = pmsc /\ steady' = steady
  BY DEF Clocks!Call, Clocks!Busy, Clocks!Start, Clocks!Idle
<1>3. IsList(P) /\ Len(P) \in Nat /\ Len(P) >= 1 /\ Fitting(service, 1)
  BY ServicesFit
<1>4. P = Rest(P, 1) /\ P # <<>>
  <2> HIDE DEF P
  <2>1. 1 \in 1..Len(P)
    BY <1>3
  <2> QED
    BY <1>3, <2>1, WholeList, RestOf
<1> HIDE DEF P
<1>5. /\ DOMAIN new = {"service", "steps", "reg", "saved"}
      /\ new.service = service /\ new.steps = P /\ new.reg = {} /\ new.saved = Clocks!Sequenced
  OBVIOUS
<1> HIDE DEF new
<1>6. /\ DOMAIN jobs' = {"thread", "routine"}
      /\ jobs'["thread"] = new /\ jobs'["routine"] = jobs["routine"]
  BY <1>1, <1>2 DEF ClockTypes
<1>7. ClockTypes'
  <2>1. /\ DOMAIN new.saved = {"CTRL0", "CTRL1", "RF_CONF"}
        /\ new.saved.CTRL1 = TRUE /\ new.saved.RF_CONF = FALSE
    BY <1>5 DEF Clocks!Sequenced
  <2>2. DOMAIN otp' = {"word", "mode", "tries", "result"}
    BY <1>2 DEF Clocks!BlankWord
  <2> QED
    BY <1>1, <1>2, <1>5, <1>6, <2>1, <2>2 DEF ClockTypes
<1>8. ThreadAt(service, 1)'
  <2>1. Clocked(service, 1)'
    <3>1. CASE service = "softreset"
      BY <3>1 DEF Clocked
    <3>2. CASE service # "softreset"
      <4>1. /\ pmsc.CTRL0 \cap Driven = StaysOn /\ pmsc.CTRL1 /\ ~pmsc.RF_CONF
            /\ StaysOn \in Bases
        <5>1. Resting
          BY <1>1, <1>2, ThreadRests
        <5>2. jobs["thread"].service \notin Clocks!TestModes
          BY <1>2, <3>2
        <5> QED
          BY <5>1, <5>2 DEF Resting
      <4>2. StaysOn' = StaysOn
        BY <1>2 DEF StaysOn
      <4>3. On(service, 1, StaysOn)' = StaysOn
        BY <3>2, <4>2, ServiceBegins
      <4>4. InSequence(service, 1) /\ ~Forces(service, 1)
        BY ServiceBegins
      <4>5. (pmsc.CTRL1 <=> InSequence(service, 1))' /\ (pmsc.RF_CONF <=> Forces(service, 1))'
        BY <1>2, <4>1, <4>4 DEF InSequence, Forces
      <4> QED
        BY <1>2, <4>1, <4>2, <4>3, <4>5 DEF Clocked
    <3> QED
      BY <3>1, <3>2
  <2>2. Informed(P[1].do, jobs["thread"].reg)'
    <3>1. P[1].do \notin {"low", "high", "set", "clear"}
      BY <1>3 DEF Fitting, InOrder, P
    <3> QED
      BY <3>1 DEF Informed
  <2>3. Attempts(service, 1)'
    BY <1>2 DEF Attempts, Clocks!BlankWord
  <2> QED
    BY <1>4, <1>5, <1>6, <2>1, <2>2, <2>3 DEF ThreadAt, P
<1>9. ThreadRuns'
  <2>1. 1 \in 1..Len(P)
    BY <1>3
  <2> QED
    BY <1>8, <2>1 DEF ThreadRuns, P
<1>10. RoutineRuns'
  <2>1. pmsc.CTRL0 \cap Receiving = {} /\ SniffOn
    BY <1>1, <1>2, IdleRoutine
  <2>2. steady \cap Clocks!Fourth \subseteq pmsc.CTRL0
    BY <1>2, <2>1 DEF SniffOn
  <2>3. SniffOn'
    BY <1>2, <2>2 DEF SniffOn
  <2> QED
    BY <1>2, <1>6, <2>1, <2>3 DEF RoutineRuns
<1>11. SteadyBits'
  BY <1>1, <1>2 DEF SteadyBits
<1> QED
  BY <1>7, <1>9, <1>10, <1>11 DEF ClocksInv

\* An interrupt keeps it.
LEMMA InterruptKeeps ==
    ASSUME ClocksInv, NEW service \in {"readaccdata", "rxreset"}, Clocks!Interrupt(service)
    PROVE  ClocksInv'
<1> DEFINE P == Clocks!Steps(service)
           new == [[service |-> "none", steps |-> <<>>, reg |-> {}, saved |-> Clocks!Sequenced]
                     EXCEPT !.service = service, !.steps = P]
<1>1. ClockTypes /\ ThreadRuns /\ RoutineRuns /\ SteadyBits
  BY DEF ClocksInv
<1>2. /\ jobs["routine"].steps = <<>>
      /\ jobs' = [jobs EXCEPT !["routine"] = new]
      /\ otp' = otp /\ pmsc' = pmsc /\ steady' = steady
  BY DEF Clocks!Interrupt, Clocks!Busy, Clocks!Start, Clocks!Idle
<1>3. P = IF service = "readaccdata" THEN Clocks!ReadAccData ELSE Clocks!RxReset
  BY DEF Clocks!Steps
<1> HIDE DEF P
<1>4. /\ DOMAIN new = {"service", "steps", "reg", "saved"} /\ new.steps = P /\ new.saved = Clocks!Sequenced
      /\ new.service = service
  OBVIOUS
<1> HIDE DEF new
<1>5. /\ DOMAIN jobs' = {"thread", "routine"}
      /\ jobs'["routine"] = new /\ jobs'["thread"] = jobs["thread"]
  BY <1>1, <1>2 DEF ClockTypes
<1>6. DOMAIN new.saved = {"CTRL0", "CTRL1", "RF_CONF"}
  BY <1>4 DEF Clocks!Sequenced
<1>7. ClockTypes'
  BY <1>1, <1>2, <1>4, <1>5, <1>6 DEF ClockTypes
<1>8. ThreadUndisturbed
  BY <1>1, <1>2, <1>5 DEF ThreadUndisturbed, ClockTypes, StaysOn
<1>9. ThreadRuns' /\ SteadyBits'
  BY <1>1, <1>8, UndisturbedRuns
<1>10. RoutineRuns'
  <2>1. pmsc.CTRL0 \cap Receiving = {} /\ SniffOn
    BY <1>1, <1>2, IdleRoutine
  <2>2. SniffOn'
    BY <1>2, <1>5, <2>1 DEF SniffOn
  <2>3. CASE service = "readaccdata"
    <3>1. P = Rest(Clocks!ReadAccData, 1)
      BY <1>3, <2>3, ReadAccSteps, WholeList
    <3>2. Received(1)'
      BY <1>2, <2>1 DEF Received
    <3> QED
      BY <1>4, <1>5, <2>2, <2>3, <3>1, <3>2 DEF RoutineRuns
  <2>4. CASE service = "rxreset"
    <3>1. P = Rest(Clocks!RxReset, 1)
      BY <1>3, <2>4, RxResetSteps, WholeList
    <3> QED
      BY <1>2, <1>4, <1>5, <2>1, <2>4, <3>1 DEF RoutineRuns
  <2> QED
    BY <2>3, <2>4
<1> QED
  BY <1>7, <1>9, <1>10 DEF ClocksInv

-----------------------------------------------------------------------------
\* The services that change the clocks, at every step of both jobs: what is on,
\* given what the services before left on, what has been read of the register,
\* and how far an attempt on the OTP is.
THEOREM ClocksInvariant == Clocks!Spec => []ClocksInv
<1>1. Clocks!Init => ClocksInv
  <2> SUFFICES ASSUME Clocks!Init PROVE ClocksInv
    OBVIOUS
  <2> DEFINE idle == [service |-> "none", steps |-> <<>>, reg |-> {}, saved |-> Clocks!Sequenced]
  <2>1. /\ pmsc = [CTRL0 |-> {}, CTRL1 |-> TRUE, RF_CONF |-> FALSE]
        /\ jobs = [who \in {"thread", "routine"} |-> idle]
        /\ otp = [word |-> "blank", mode |-> 0, tries |-> 0, result |-> "none"]
        /\ steady = {}
    BY DEF Clocks!Init, Clocks!Sequenced, Clocks!Idle, Clocks!BlankWord
  <2>2. /\ DOMAIN idle = {"service", "steps", "reg", "saved"} /\ idle.service = "none" /\ idle.steps = <<>>
        /\ idle.reg = {} /\ DOMAIN idle.saved = {"CTRL0", "CTRL1", "RF_CONF"}
        /\ idle.saved.CTRL1 = TRUE /\ idle.saved.RF_CONF = FALSE
    BY DEF Clocks!Sequenced
  <2> HIDE DEF idle
  <2>3. /\ DOMAIN jobs = {"thread", "routine"} /\ jobs["thread"] = idle /\ jobs["routine"] = idle
    BY <2>1
  <2>4. ClockTypes
    BY <2>1, <2>2, <2>3 DEF ClockTypes
  <2>5. Resting
    <3>1. StaysOn = {} /\ {} \in Bases
      BY <2>1 DEF StaysOn, Bases
    <3>2. Attempts("none", 10)
      BY <2>1 DEF Attempts, Clocks!BlankWord
    <3> QED
      BY <2>1, <2>2, <2>3, <3>1, <3>2 DEF Resting, Clocks!TestModes
  <2>6. RoutineRuns
    BY <2>1, <2>2, <2>3 DEF RoutineRuns, SniffOn
  <2>7. SteadyBits
    BY <2>1 DEF SteadyBits
  <2> QED
    BY <2>4, <2>5, <2>6, <2>7 DEF ClocksInv, ThreadRuns
<1>2. ClocksInv /\ [Clocks!Next]_(Clocks!vars) => ClocksInv'
  <2> SUFFICES ASSUME ClocksInv, [Clocks!Next]_(Clocks!vars) PROVE ClocksInv'
    OBVIOUS
  <2>1. ASSUME NEW service \in Clocks!Services, Clocks!Call(service) PROVE ClocksInv'
    BY <2>1, ServiceCallKeeps
  <2>2. ASSUME NEW service \in {"readaccdata", "rxreset"}, Clocks!Interrupt(service) PROVE ClocksInv'
    BY <2>2, InterruptKeeps
  <2>3. CASE Clocks!Advance("thread")
    BY <2>3, ThreadKeeps, ServicesAssumption
  <2>4. CASE Clocks!Advance("routine")
    BY <2>4, RoutineKeeps
  <2>5. CASE UNCHANGED Clocks!vars
    <3>1. pmsc' = pmsc /\ jobs' = jobs /\ otp' = otp /\ steady' = steady
      BY <2>5 DEF Clocks!vars
    <3>2. ClockTypes'
      BY <3>1 DEF ClocksInv, ClockTypes
    <3>3. ThreadUndisturbed
      BY <3>1 DEF ClocksInv, ClockTypes, ThreadUndisturbed, StaysOn
    <3>4. ThreadRuns' /\ SteadyBits'
      BY <3>3, UndisturbedRuns DEF ClocksInv
    <3>5. RoutineRuns'
      BY <3>1 DEF ClocksInv, RoutineRuns, Received, Agrees, SniffOn
    <3> QED
      BY <3>2, <3>4, <3>5 DEF ClocksInv
  <2> QED
    BY <2>1, <2>2, <2>3, <2>4, <2>5 DEF Clocks!Next
<1> QED
  BY <1>1, <1>2, PTL DEF Clocks!Spec

\* The services of the clocks run as they do alone.
LEMMA ClocksRun == ServicesSpec => Clocks!Spec
<1>1. ServicesInit => Clocks!Init
  BY DEF ServicesInit
<1>2. [ServicesNext]_services => [Clocks!Next]_(Clocks!vars)
  <2>1. ServicesNext => Clocks!Next \/ UNCHANGED clocks
    BY DEF ServicesNext
  <2>2. UNCHANGED services => UNCHANGED clocks
    BY DEF services
  <2>3. UNCHANGED clocks => UNCHANGED Clocks!vars
    BY DEF clocks, Clocks!vars
  <2> QED
    BY <2>1, <2>2, <2>3
<1> QED
  BY <1>1, <1>2, PTL DEF ServicesSpec, Clocks!Spec

\* Every unit that a service or the interrupt routine accesses has the clocks it
\* needs, whatever the routine did to the register in the middle of a service;
\* so have the words of the OTP that are programmed and verified.
THEOREM UsedOnTheRightClock == ServicesSpec => []RightClock
<1>1. ASSUME ClocksInv PROVE RightClock
  <2> SUFFICES ASSUME NEW who \in DOMAIN jobs, jobs[who].steps # <<>>,
                      NEW unit \in Clocks!Accesses(Head(jobs[who].steps))
               PROVE  /\ Clocks!Needs[unit] \subseteq pmsc.CTRL0
                      /\ unit \in {"pg", "tx"} => ~pmsc.CTRL1 /\ pmsc.RF_CONF
    BY DEF RightClock, Clocks!RightClock, Clocks!Busy
  <2> DEFINE s == Head(jobs[who].steps)
  <2>1. who \in {"thread", "routine"}
    BY <1>1 DEF ClocksInv, ClockTypes
  <2>2. \/ s.do = "use" /\ unit = s.arg
        \/ s.do \in {"program", "check", "verify"} /\ unit = "otp"
    BY DEF Clocks!Accesses
  <2> HIDE DEF s
  <2>3. CASE who = "thread"
    <3>1. PICK service \in Clocks!Services: \E k \in 1..Len(Clocks!Steps(service)): ThreadAt(service, k)
      BY <1>1, <2>3 DEF ClocksInv, ThreadRuns, Resting
    <3>2. PICK k \in 1..Len(Clocks!Steps(service)): ThreadAt(service, k)
      BY <3>1
    <3> DEFINE P == Clocks!Steps(service)
    <3>3. IsList(P) /\ k \in 1..Len(P) /\ Fitting(service, k)
      BY <3>2, ServicesFit
    <3>4. jobs["thread"].steps = Rest(P, k) /\ Clocked(service, k)
      BY <3>2 DEF ThreadAt
    <3> HIDE DEF P
    <3>5. s = P[k]
      BY <2>3, <3>3, <3>4, RestOf DEF s
    <3>6. /\ s.do = "use" =>
               /\ \A base \in Bases: Clocks!Needs[s.arg] \subseteq On(service, k, base)
               /\ s.arg \in {"pg", "tx"} => ~InSequence(service, k) /\ Forces(service, k)
               /\ service # "softreset"
          /\ s.do \in {"program", "check", "verify"} =>
               /\ \A base \in Bases: Crystal \subseteq On(service, k, base)
               /\ service = "otpwriteandverify"
      BY <3>3, <3>5 DEF Fitting, Serves, InOrder, P
    <3>7. service # "softreset"
      BY <2>2, <3>6
    <3>8. /\ StaysOn \in Bases
          /\ pmsc.CTRL0 \cap Driven = On(service, k, StaysOn)
          /\ pmsc.CTRL1 <=> InSequence(service, k)
          /\ pmsc.RF_CONF <=> Forces(service, k)
      BY <3>4, <3>7 DEF Clocked
    <3>9. CASE s.do = "use"
      <4>1. Clocks!Needs[unit] \subseteq On(service, k, StaysOn)
        BY <2>2, <3>6, <3>8, <3>9
      <4>2. unit \in {"pg", "tx"} => ~pmsc.CTRL1 /\ pmsc.RF_CONF
        BY <2>2, <3>6, <3>8, <3>9
      <4> QED
        BY <3>8, <4>1, <4>2
    <3>10. CASE s.do \in {"program", "check", "verify"}
      <4>1. unit = "otp" /\ Clocks!Needs[unit] = Crystal
        BY <2>2, <3>10 DEF Clocks!Needs, Crystal
      <4>2. Crystal \subseteq On(service, k, StaysOn)
        BY <3>6, <3>8, <3>10
      <4> QED
        BY <3>8, <4>1, <4>2
    <3> QED
      BY <2>2, <3>9, <3>10
  <2>4. CASE who = "routine"
    <3>1. ASSUME NEW k \in 1..7, jobs["routine"].steps = Rest(Clocks!ReadAccData, k), Received(k)
          PROVE  unit = "acc" /\ {"FACE", "ACC", "RX_PLL"} \subseteq pmsc.CTRL0
      <4> DEFINE P == Clocks!ReadAccData
      <4>1. /\ IsList(P) /\ Len(P) = 7 /\ P[4].do = "use" /\ P[4].arg = "acc"
            /\ P[1].do = "get" /\ P[2].do = "low" /\ P[3].do = "high" /\ P[5].do = "get"
            /\ P[6].do = "low" /\ P[7].do = "high"
        BY ReadAccSteps DEF Clocks!Step
      <4> HIDE DEF P
      <4>2. k \in 1..Len(P) /\ jobs["routine"].steps = Rest(P, k)
        BY <3>1, <4>1 DEF P
      <4>3. s = P[k]
        BY <2>4, <4>1, <4>2, RestOf DEF s
      <4>4. k = 4
        <5>1. k = 1 \/ k = 2 \/ k = 3 \/ k = 4 \/ k = 5 \/ k = 6 \/ k = 7
          OBVIOUS
        <5> QED
          BY <2>2, <4>1, <4>3, <5>1
      <4>5. pmsc.CTRL0 \cap Receiving = {"FACE", "RX_PLL", "ACC"}
        BY <3>1, <4>4 DEF Received
      <4>6. unit = "acc"
        BY <2>2, <4>1, <4>3, <4>4
      <4> QED
        BY <4>5, <4>6
    <3>2. ASSUME NEW k \in 1..2, jobs["routine"].steps = Rest(Clocks!RxReset, k) PROVE FALSE
      <4> DEFINE P == Clocks!RxReset
      <4>1. IsList(P) /\ Len(P) = 2 /\ P[1].do = "rxreset" /\ P[2].do = "rxreset"
        BY RxResetSteps DEF Clocks!Step
      <4> HIDE DEF P
      <4>2. k \in 1..Len(P) /\ jobs["routine"].steps = Rest(P, k)
        BY <3>2, <4>1 DEF P
      <4>3. k = 1 \/ k = 2
        OBVIOUS
      <4>4. s = P[k]
        <5>1. Head(Rest(P, k)) = P[k]
          BY <4>1, <4>2, RestOf
        <5> QED
          BY <2>4, <4>2, <5>1 DEF s
      <4> QED
        BY <2>2, <4>1, <4>3, <4>4
    <3>3. unit = "acc" /\ {"FACE", "ACC", "RX_PLL"} \subseteq pmsc.CTRL0
      BY <1>1, <2>4, <3>1, <3>2 DEF ClocksInv, RoutineRuns
    <3> QED
      BY <3>3 DEF Clocks!Needs
  <2> QED
    BY <2>1, <2>3, <2>4
<1> QED
  BY <1>1, ClocksRun, ClocksInvariant, PTL

\* When the driver is idle exactly the clocks are on that the services which
\* returned leave on, each by itself, whatever the interrupt routine did between
\* two transfers of theirs; so is SNIFF mode until dwt_rxreset.
THEOREM ClocksAreGivenBack == ServicesSpec => []ClocksGivenBack
<1>1. ASSUME ClocksInv PROVE ClocksGivenBack
  <2> DEFINE bits == Clocks!Low \cup Clocks!High \cup Clocks!Third
             service == jobs["thread"].service
  <2> SUFFICES ASSUME jobs["thread"].steps = <<>>, jobs["routine"].steps = <<>>
               PROVE  /\ pmsc.CTRL0 \cap bits = steady \cap bits
                      /\ steady \cap Clocks!Fourth \subseteq pmsc.CTRL0
                      /\ pmsc.CTRL1 <=> service \notin Clocks!TestModes
                      /\ pmsc.RF_CONF <=> service \in Clocks!TestModes
    BY DEF ClocksGivenBack, Clocks!ClocksGivenBack, Clocks!Busy
  <2>1. Resting
    BY <1>1, ThreadRests DEF ClocksInv
  <2>2. pmsc.CTRL0 \cap Receiving = {} /\ SniffOn
    BY <1>1, IdleRoutine DEF ClocksInv
  <2>3. bits \subseteq Driven \cup Receiving
    BY DEF Clocks!Low, Clocks!SysClks, Clocks!RxClks, Clocks!TxClks, Clocks!High, Clocks!Third,
           Driven, Receiving
  <2>4. steady \cap Receiving = {}
    BY <1>1 DEF ClocksInv, SteadyBits, Driven, Receiving, Clocks!Fourth
  <2>5. pmsc.CTRL0 \cap Driven = steady \cap Driven
    BY <2>1 DEF Resting, StaysOn
  <2>6. (pmsc.CTRL1 <=> service \notin Clocks!TestModes) /\ (pmsc.RF_CONF <=> service \in Clocks!TestModes)
    BY <2>1 DEF Resting
  <2>7. steady \cap Clocks!Fourth \subseteq pmsc.CTRL0
    BY <2>2 DEF SniffOn
  <2> HIDE DEF bits
  <2>8. pmsc.CTRL0 \cap bits = steady \cap bits
    BY <2>2, <2>3, <2>4, <2>5
  <2> QED
    BY <2>6, <2>7, <2>8
<1> QED
  BY <1>1, ClocksRun, ClocksInvariant, PTL

\* Success of dwt_otpwriteandverify means a word that reads as the value with
\* the low margin too, after no more attempts than allowed, the mode registers at 0.
THEOREM WordsAreVerified == ServicesSpec => []OtpVerified
<1>1. ASSUME ClocksInv PROVE OtpVerified
  <2> SUFFICES ASSUME otp.result # "none", jobs["thread"].steps = <<>>
               PROVE  /\ otp.result = "success" => otp.word = "value"
                      /\ otp.tries \in 1..Tries /\ otp.mode = 0
    BY DEF OtpVerified, Clocks!OtpVerified, Clocks!Busy
  <2>1. otp # Clocks!BlankWord
    BY DEF Clocks!BlankWord
  <2>2. Attempts(jobs["thread"].service, 10)
    BY <1>1, ThreadRests DEF ClocksInv, Resting
  <2> QED
    BY <2>1, <2>2 DEF Attempts
<1> QED
  BY <1>1, ClocksRun, ClocksInvariant, PTL

-----------------------------------------------------------------------------
(* The registers.                                                          *)

\* What a caller shifts out: the header and the body.
HeaderOf(req) == Registers!Header(req.op, req.file, req.index)

HeaderLen(req) == IF req.index = 0 THEN 1 ELSE IF req.index <= 127 THEN 2 ELSE 3

Body(req) == IF req.op = "write" THEN Registers!BytesOf(req.value, req.n)
                                 ELSE [j \in 1..req.n |-> 0]

Sent(req) == HeaderOf(req) \o Body(req)

\* The numbers of the register files and of the bytes in them are naturals.
LEMMA IndexIsNat == \A x \in Registers!Indices: x \in Nat
BY SMTT(30) DEF Registers!Indices

\* With their bounds.
LEMMA IndexRange == \A x \in Registers!Indices: x \in Nat /\ x < 32768
BY SMTT(30) DEF Registers!Indices

\* And those of the numbers of the files.
LEMMA FileRange == \A x \in Registers!FileNumbers: x \in Nat /\ x < 64
BY SMTT(30) DEF Registers!FileNumbers

\* The requests that are made.
LEMMA RequestFits ==
    ASSUME NEW req \in Requests
    PROVE  /\ req.op \in {"write", "read"} /\ req.file \in Files
           /\ req.file \in Registers!FileNumbers
           /\ req.n \in {1, 2, 4} /\ req.index \in Registers!Indices
           /\ \A j \in 1..req.n: req.index + j - 1 \in Addresses
<1>1. Registers!RegistersAssumption
  BY ServicesAssumption
<1>2. /\ req.op \in {"write", "read"} /\ req.file \in Files
      /\ req.file \in Registers!FileNumbers
      /\ req.n \in {1, 2, 4} /\ req.index \in Registers!Indices
      /\ req.index..req.index + req.n - 1 \subseteq Addresses
  BY <1>1, Zenon DEF Registers!RegistersAssumption
<1> DEFINE i == req.index
           n == req.n
<1>3. i..i + n - 1 \subseteq Addresses /\ i \in Registers!Indices /\ n \in {1, 2, 4}
  BY <1>2, Zenon
<1> HIDE DEF i, n
<1>4. i \in Nat /\ n \in Nat
  BY <1>3, IndexIsNat
<1>5. ASSUME NEW j \in 1..n PROVE i + j - 1 \in Addresses
  <2>1. i + j - 1 \in i..i + n - 1
    BY <1>4
  <2> QED
    BY <1>3, <2>1
<1> QED
  BY <1>2, <1>5, Zenon DEF i, n

\* A byte before one or two others.
LEMMA Joined1 ==
    ASSUME NEW a \in Int, NEW b \in Int
    PROVE  <<a>> \o <<b>> = <<a, b>>
<1> DEFINE s == <<a>> \o <<b>>
           t == <<a, b>>
<1>1. <<a>> \in Seq(Int) /\ <<b>> \in Seq(Int) /\ t \in Seq(Int)
  OBVIOUS
<1>2. /\ s \in Seq(Int) /\ Len(s) = 2
      /\ s[1] = a /\ s[2] = b
  BY <1>1, ConcatProperties
<1>3. Len(t) = Len(s) /\ \A i \in 1..Len(s): s[i] = t[i]
  BY <1>2
<1> HIDE DEF s, t
<1>4. s = t
  BY <1>1, <1>2, <1>3, SeqEqual
<1> QED
  BY <1>4 DEF s, t

\* And before two.
LEMMA Joined2 ==
    ASSUME NEW a \in Int, NEW b \in Int, NEW c \in Int
    PROVE  <<a>> \o <<b, c>> = <<a, b, c>>
<1> DEFINE s == <<a>> \o <<b, c>>
           t == <<a, b, c>>
<1>1. <<a>> \in Seq(Int) /\ <<b, c>> \in Seq(Int) /\ t \in Seq(Int)
  OBVIOUS
<1>2. /\ s \in Seq(Int) /\ Len(s) = 3
      /\ s[1] = a /\ s[2] = b /\ s[3] = c
  BY <1>1, ConcatProperties
<1>3. Len(t) = Len(s) /\ \A i \in 1..Len(s): s[i] = t[i]
  BY <1>2
<1> HIDE DEF s, t
<1>4. s = t
  BY <1>1, <1>2, <1>3, SeqEqual
<1> QED
  BY <1>4 DEF s, t

\* A header has one to three bytes.
LEMMA HeaderFits ==
    ASSUME NEW req \in Requests
    PROVE  /\ HeaderOf(req) \in Seq(Int) /\ Len(HeaderOf(req)) = HeaderLen(req)
           /\ HeaderOf(req)[1] = (IF req.op = "write" THEN 128 ELSE 0)
                                 + (IF req.index = 0 THEN 0 ELSE 64) + req.file
           /\ HeaderLen(req) = 2 => HeaderOf(req)[2] = req.index
           /\ HeaderLen(req) = 3 => /\ HeaderOf(req)[2] = 128 + (req.index % 128)
                                    /\ HeaderOf(req)[3] = req.index \div 128
<1> DEFINE w == IF req.op = "write" THEN 128 ELSE 0
           i == req.index
           f == req.file
<1>1. w \in Int /\ f \in Int /\ i \in Nat
  <2>1. f \in Registers!FileNumbers /\ i \in Registers!Indices
    BY RequestFits, Zenon
  <2> HIDE DEF f, i
  <2> QED
    BY <2>1, IndexRange, FileRange
<1>2. /\ HeaderOf(req) = IF i = 0 THEN <<w + f>> ELSE <<w + 64 + f>> \o Registers!SubIndex(i)
      /\ HeaderLen(req) = IF i = 0 THEN 1 ELSE IF i <= 127 THEN 2 ELSE 3
  BY DEF HeaderOf, Registers!Header, HeaderLen
<1> SUFFICES /\ HeaderOf(req) \in Seq(Int) /\ Len(HeaderOf(req)) = HeaderLen(req)
             /\ HeaderOf(req)[1] = w + (IF i = 0 THEN 0 ELSE 64) + f
             /\ HeaderLen(req) = 2 => HeaderOf(req)[2] = i
             /\ HeaderLen(req) = 3 => /\ HeaderOf(req)[2] = 128 + (i % 128)
                                      /\ HeaderOf(req)[3] = i \div 128
  OBVIOUS
<1> HIDE DEF w, i, f
<1>3. CASE i = 0
  BY <1>1, <1>2, <1>3
<1>4. CASE i # 0 /\ i <= 127
  <2>1. Registers!SubIndex(i) = <<i>>
    BY <1>4 DEF Registers!SubIndex
  <2>2. HeaderOf(req) = <<w + 64 + f, i>>
    BY <1>1, <1>2, <1>4, <2>1, Joined1
  <2>3. w + 64 + f \in Int /\ HeaderLen(req) = 2
    BY <1>1, <1>2, <1>4
  <2> QED
    BY <1>1, <1>4, <2>2, <2>3
<1>5. CASE i > 127
  <2>1. 128 + (i % 128) \in Int /\ i \div 128 \in Int
    BY <1>1
  <2>2. Registers!SubIndex(i) = <<128 + (i % 128), i \div 128>>
    BY <1>1, <1>5 DEF Registers!SubIndex
  <2> DEFINE x == 128 + (i % 128)
             y == i \div 128
  <2>3. HeaderOf(req) = <<w + 64 + f, x, y>>
    BY <1>1, <1>2, <1>5, <2>1, <2>2, Joined2
  <2>4. x \in Int /\ y \in Int /\ HeaderLen(req) = 3
    BY <1>1, <1>2, <1>5
  <2> HIDE DEF x, y
  <2>5. w + 64 + f \in Int /\ i # 0
    BY <1>1, <1>5
  <2> QED
    BY <2>3, <2>4, <2>5 DEF x, y
<1> QED
  BY <1>1, <1>3, <1>4, <1>5

\* The body has a byte for each of the value's.
LEMMA BodyFits ==
    ASSUME NEW req \in Requests
    PROVE  IsList(Body(req)) /\ Len(Body(req)) = req.n
<1> DEFINE b == Body(req)
<1>1. req.n \in Nat
  BY RequestFits
<1>2. b = [j \in 1..req.n |-> b[j]]
  BY DEF Body, Registers!BytesOf
<1> HIDE DEF b
<1>3. b \in Seq({b[j]: j \in 1..req.n}) /\ Len(b) = req.n
  BY <1>1, <1>2
<1> QED
  BY <1>3 DEF IsList, b

\* The transfer is the header and then the body.
LEMMA SentFits ==
    ASSUME NEW req \in Requests
    PROVE  /\ IsList(Sent(req)) /\ Len(Sent(req)) = HeaderLen(req) + req.n
           /\ \A i \in 1..HeaderLen(req): Sent(req)[i] = HeaderOf(req)[i]
           /\ \A j \in 1..req.n: Sent(req)[HeaderLen(req) + j] = Body(req)[j]
<1> DEFINE h == HeaderOf(req)
           b == Body(req)
<1>1. PICK S: b \in Seq(S)
  BY BodyFits DEF IsList
<1>2. h \in Seq(Int) /\ Len(h) = HeaderLen(req) /\ Len(b) = req.n
  BY HeaderFits, BodyFits
<1> HIDE DEF h, b
<1>3. h \in Seq(Int \cup S) /\ b \in Seq(Int \cup S)
  BY <1>1, <1>2
<1>4. /\ h \o b \in Seq(Int \cup S) /\ Len(h \o b) = Len(h) + Len(b)
      /\ \A i \in 1..Len(h) + Len(b): (h \o b)[i] = IF i <= Len(h) THEN h[i] ELSE b[i - Len(h)]
  BY <1>3, ConcatProperties
<1>5. Len(h) \in Nat /\ Len(b) \in Nat
  BY <1>3
<1>6. ASSUME NEW i \in 1..Len(h) PROVE (h \o b)[i] = h[i]
  BY <1>4, <1>5
<1>7. ASSUME NEW j \in 1..Len(b) PROVE (h \o b)[Len(h) + j] = b[j]
  <2>1. Len(h) + j \in 1..Len(h) + Len(b) /\ ~(Len(h) + j <= Len(h)) /\ Len(h) + j - Len(h) = j
    BY <1>5
  <2> QED
    BY <1>4, <2>1
<1> QED
  BY <1>2, <1>4, <1>6, <1>7 DEF h, b, Sent, IsList

\* The chip when it has decoded k bytes of a transfer.
ChipAt(req, k) ==
    IF k = 0 THEN Registers!Ready
    ELSE IF k >= HeaderLen(req)
         THEN [stage |-> "data", op |-> req.op, file |-> req.file,
               index |-> req.index + (k - HeaderLen(req))]
         ELSE [stage |-> IF k = 1 THEN "sub" ELSE "extended", op |-> req.op, file |-> req.file,
               index |-> IF k = 1 THEN 0 ELSE req.index % 128]

\* The header takes the chip to the place requested.
LEMMA HeaderDecodes ==
    ASSUME NEW req \in Requests, NEW k \in 0..HeaderLen(req) - 1
    PROVE  /\ ChipAt(req, k).stage # "data"
           /\ Registers!Decoded(ChipAt(req, k), Sent(req)[k + 1]) = ChipAt(req, k + 1)
<1> DEFINE w == IF req.op = "write" THEN 128 ELSE 0
           i == req.index
           f == req.file
           h == HeaderLen(req)
           op == req.op
           s == HeaderOf(req)
<1>1. f \in 0..63 /\ i \in Nat /\ i < 32768 /\ op \in {"write", "read"}
  <2>1. /\ f \in Registers!FileNumbers /\ i \in Registers!Indices
        /\ op \in {"write", "read"}
    BY RequestFits, Zenon
  <2> HIDE DEF f, i, op
  <2>2. f \in Nat /\ f < 64 /\ i \in Nat /\ i < 32768
    BY <2>1, IndexRange, FileRange
  <2> QED
    BY <2>1, <2>2
<1>2. h = IF i = 0 THEN 1 ELSE IF i <= 127 THEN 2 ELSE 3
  BY DEF HeaderLen
<1>3. k + 1 \in 1..h
  BY <1>2
<1>4. Sent(req)[k + 1] = s[k + 1]
  BY <1>3, SentFits
<1>5. /\ s[1] = w + (IF i = 0 THEN 0 ELSE 64) + f
      /\ h = 2 => s[2] = i
      /\ h = 3 => s[2] = 128 + (i % 128) /\ s[3] = i \div 128
  BY HeaderFits
<1>6. \A j \in 0..3: ChipAt(req, j) =
         IF j = 0 THEN Registers!Ready
         ELSE IF j >= h THEN [stage |-> "data", op |-> op, file |-> f, index |-> i + (j - h)]
         ELSE [stage |-> IF j = 1 THEN "sub" ELSE "extended", op |-> op, file |-> f,
               index |-> IF j = 1 THEN 0 ELSE i % 128]
  BY DEF ChipAt
<1> SUFFICES /\ ChipAt(req, k).stage # "data"
             /\ Registers!Decoded(ChipAt(req, k), s[k + 1]) = ChipAt(req, k + 1)
  BY <1>4
<1>7. w = IF op = "write" THEN 128 ELSE 0
  OBVIOUS
<1> HIDE DEF w, i, f, h, op, s
<1>8. CASE k = 0
  <2>1. s[1] \in Int /\ s[1] % 64 = f /\ (s[1] >= 128 <=> op = "write")
        /\ (s[1] % 128 >= 64 <=> i # 0)
    BY <1>1, <1>5, <1>7
  <2>2. ChipAt(req, 0) = Registers!Ready
    BY <1>6
  <2>3. Registers!Decoded(Registers!Ready, s[1]) =
          [stage |-> IF i # 0 THEN "sub" ELSE "data", op |-> op, file |-> f, index |-> 0]
    BY <1>1, <2>1 DEF Registers!Decoded, Registers!Ready
  <2>4. ChipAt(req, 1) =
          [stage |-> IF i # 0 THEN "sub" ELSE "data", op |-> op, file |-> f, index |-> 0]
    BY <1>1, <1>2, <1>6
  <2> QED
    BY <1>8, <2>2, <2>3, <2>4 DEF Registers!Ready
<1>9. CASE k = 1
  <2>1. ChipAt(req, 1) = [stage |-> "sub", op |-> op, file |-> f, index |-> 0]
    BY <1>1, <1>2, <1>3, <1>6, <1>9
  <2>2. CASE i <= 127
    <3>0. h = 2 /\ i \in 0..127
      <4>1. 1 + 1 \in 1..h /\ i \in Int /\ i >= 0
        BY <1>1, <1>3, <1>9
      <4>2. i # 0
        BY <1>2, <4>1
      <4> QED
        BY <1>2, <2>2, <4>1, <4>2
    <3>1. h = 2 /\ ~(s[2] >= 128) /\ s[2] % 128 = i
      <4>1. s[2] = i
        BY <1>5, <3>0
      <4>2. ~(i >= 128) /\ i % 128 = i
        BY <3>0
      <4> QED
        BY <3>0, <4>1, <4>2
    <3>2. ChipAt(req, 2) = [stage |-> "data", op |-> op, file |-> f, index |-> i]
      BY <1>1, <1>6, <3>1
    <3>3. Registers!Decoded(ChipAt(req, 1), s[2]) = ChipAt(req, 2)
      BY <2>1, <3>1, <3>2 DEF Registers!Decoded
    <3> QED
      BY <1>9, <2>1, <3>3
  <2>3. CASE i > 127
    <3>1. h = 3 /\ s[2] = 128 + (i % 128) /\ s[2] >= 128 /\ s[2] % 128 = i % 128
      BY <1>1, <1>2, <1>5, <2>3
    <3>2. ChipAt(req, 2) = [stage |-> "extended", op |-> op, file |-> f, index |-> i % 128]
      BY <1>1, <1>6, <3>1
    <3>3. Registers!Decoded(ChipAt(req, 1), s[2]) = ChipAt(req, 2)
      BY <2>1, <3>1, <3>2 DEF Registers!Decoded
    <3> QED
      BY <1>9, <2>1, <3>3
  <2> QED
    BY <1>1, <2>2, <2>3
<1>10. CASE k = 2
  <2>1. h = 3 /\ s[3] = i \div 128 /\ (i % 128) + 128 * s[3] = i
    BY <1>1, <1>2, <1>3, <1>5, <1>10
  <2>2. /\ ChipAt(req, 2) = [stage |-> "extended", op |-> op, file |-> f, index |-> i % 128]
        /\ ChipAt(req, 3) = [stage |-> "data", op |-> op, file |-> f, index |-> i]
    BY <1>1, <1>6, <2>1
  <2>3. Registers!Decoded(ChipAt(req, 2), s[3]) = ChipAt(req, 3)
    <3> DEFINE low == i % 128
    <3>1. low + 128 * s[3] = i
      BY <2>1
    <3>2. ChipAt(req, 2) = [stage |-> "extended", op |-> op, file |-> f, index |-> low]
      BY <2>2
    <3> HIDE DEF low
    <3> QED
      BY <2>2, <3>1, <3>2 DEF Registers!Decoded
  <2>4. k + 1 = 3
    BY <1>10
  <2> QED
    BY <1>10, <2>2, <2>3, <2>4
<1> QED
  BY <1>1, <1>2, <1>3, <1>8, <1>9, <1>10

\* Once it has, each byte takes the chip to the next place.
LEMMA BodyDecodes ==
    ASSUME NEW req \in Requests, NEW k \in Nat, k >= HeaderLen(req)
    PROVE  /\ ChipAt(req, k) = [stage |-> "data", op |-> req.op, file |-> req.file,
                                index |-> req.index + (k - HeaderLen(req))]
           /\ ChipAt(req, k + 1) = [ChipAt(req, k) EXCEPT !.index = @ + 1]
<1>1. req.index \in Int
  <2>1. req.index \in Registers!Indices
    BY RequestFits, Zenon
  <2> QED
    BY <2>1, IndexIsNat
<1>2. HeaderLen(req) \in Int /\ HeaderLen(req) >= 1
  BY DEF HeaderLen
<1> DEFINE h == HeaderLen(req)
           i == req.index
<1>3. ChipAt(req, k) = [stage |-> "data", op |-> req.op, file |-> req.file, index |-> i + (k - h)]
  BY <1>2 DEF ChipAt
<1>4. ChipAt(req, k + 1) = [stage |-> "data", op |-> req.op, file |-> req.file,
                            index |-> i + ((k + 1) - h)]
  BY <1>2 DEF ChipAt
<1> HIDE DEF h, i
<1>5. i + ((k + 1) - h) = (i + (k - h)) + 1
  BY <1>1, <1>2 DEF h, i
<1> QED
  BY <1>3, <1>4, <1>5 DEF h, i

\* The registers, and one of them changed.
IsStore(m) == m = [f \in Files |-> [a \in Addresses |-> m[f][a]]]

ByteSet(m, file, place, byte) ==
    [f \in Files |-> [a \in Addresses |-> IF f = file /\ a = place THEN byte ELSE m[f][a]]]

\* The bytes of a value's body that k bytes of its transfer have moved.
Moved(req, k) == IF k <= HeaderLen(req) THEN 0 ELSE k - HeaderLen(req)

Written(m, req, k) ==
    \A j \in 1..Moved(req, k): m[req.file][req.index + j - 1] = Body(req)[j]

Taken(m, req, k) ==
    IF req.op = "write" THEN <<>>
    ELSE [j \in 1..Moved(req, k) |-> m[req.file][req.index + j - 1]]

\* The numbers of a request.
LEMMA RequestNumbers ==
    ASSUME NEW req \in Requests
    PROVE  /\ req.index \in Nat /\ req.n \in Nat /\ req.n > 0
           /\ HeaderLen(req) \in Nat /\ HeaderLen(req) > 0
<1> DEFINE i == req.index
           n == req.n
<1>1. i \in Registers!Indices /\ n \in {1, 2, 4}
  BY RequestFits, Zenon
<1> HIDE DEF i, n
<1>2. i \in Nat /\ n \in Nat /\ n > 0
  BY <1>1, IndexIsNat
<1>3. HeaderLen(req) \in Nat /\ HeaderLen(req) > 0
  BY DEF HeaderLen
<1> QED
  BY <1>2, <1>3 DEF i, n

\* An assignment to a byte of a file.
LEMMA SetByte ==
    ASSUME NEW m, IsStore(m), NEW file \in Files, NEW place \in Addresses, NEW byte
    PROVE  [m EXCEPT ![file][place] = byte] = ByteSet(m, file, place, byte)
<1>1. m = [f \in Files |-> [a \in Addresses |-> m[f][a]]]
  BY DEF IsStore
<1> DEFINE row == [a \in Addresses |-> m[file][a]]
<1>2. m[file] = row
  BY <1>1
<1>3. [m[file] EXCEPT ![place] = byte] = [a \in Addresses |-> IF a = place THEN byte ELSE m[file][a]]
  BY <1>2
<1>4. [m EXCEPT ![file][place] = byte] = [m EXCEPT ![file] = [m[file] EXCEPT ![place] = byte]]
  BY <1>1
<1> DEFINE new == [a \in Addresses |-> IF a = place THEN byte ELSE m[file][a]]
<1>5. [m EXCEPT ![file] = new] = [f \in Files |-> IF f = file THEN new ELSE m[f]]
  <2> HIDE DEF new
  <2> QED
    BY <1>1
<1>6. \A f \in Files: (IF f = file THEN new ELSE m[f])
          = [a \in Addresses |-> IF f = file /\ a = place THEN byte ELSE m[f][a]]
  <2> TAKE f \in Files
  <2>1. m[f] = [a \in Addresses |-> m[f][a]]
    BY <1>1
  <2> QED
    BY <2>1
<1>7. [m EXCEPT ![file][place] = byte] = [f \in Files |-> IF f = file THEN new ELSE m[f]]
  BY <1>3, <1>4, <1>5
<1> HIDE DEF new
<1> QED
  BY <1>6, <1>7 DEF ByteSet

\* It is a store again.
LEMMA ByteSetStore ==
    ASSUME NEW m, NEW file, NEW place, NEW byte
    PROVE  IsStore(ByteSet(m, file, place, byte))
BY DEF IsStore, ByteSet

\* A store with a value written at its place.
StoreWith(m, req) ==
    [f \in Files |-> [a \in Addresses |->
       IF f = req.file /\ a \in req.index..req.index + req.n - 1
       THEN Body(req)[a - req.index + 1] ELSE m[f][a]]]

LEMMA StoredIs ==
    ASSUME NEW m, IsStore(m), NEW req \in Requests, req.op = "write"
    PROVE  Registers!Stored(m, req) = StoreWith(m, req)
<1> DEFINE places == req.index..req.index + req.n - 1
           b(a) == Body(req)[a - req.index + 1]
           file == req.file
           new == [a \in Addresses |-> IF a \in places THEN b(a) ELSE m[file][a]]
<1>1. m = [f \in Files |-> [a \in Addresses |-> m[f][a]]]
  BY DEF IsStore
<1>2. file \in Files
  BY RequestFits, Zenon
<1>3. Registers!Stored(m, req) = [m EXCEPT ![file] = new]
  BY <1>1, <1>2, Zenon DEF Registers!Stored, Body
<1> HIDE DEF places, b, file
<1>4. [m EXCEPT ![file] = new] = [f \in Files |-> IF f = file THEN new ELSE m[f]]
  <2> HIDE DEF new
  <2> QED
    BY <1>1, <1>2
<1>5. \A f \in Files: (IF f = file THEN new ELSE m[f])
          = [a \in Addresses |-> IF f = file /\ a \in places THEN b(a) ELSE m[f][a]]
  <2> TAKE f \in Files
  <2>1. m[f] = [a \in Addresses |-> m[f][a]]
    BY <1>1
  <2> QED
    BY <2>1
<1> HIDE DEF new
<1>6. Registers!Stored(m, req) =
        [f \in Files |-> [a \in Addresses |-> IF f = file /\ a \in places THEN b(a) ELSE m[f][a]]]
  BY <1>3, <1>4, <1>5
<1> QED
  BY <1>6, Zenon DEF StoreWith, places, b, file

\* A byte of the value that is written moves the store towards the one with the
\* value, and all its bytes make it that.
LEMMA WriteByte ==
    ASSUME NEW m, IsStore(m), NEW req \in Requests, req.op = "write",
           NEW k \in Nat, k >= HeaderLen(req), k < HeaderLen(req) + req.n,
           Written(m, req, k), NEW m2,
           m2 = ByteSet(m, req.file, req.index + (k - HeaderLen(req)), Sent(req)[k + 1])
    PROVE  Written(m2, req, k + 1) /\ Registers!Stored(m2, req) = Registers!Stored(m, req)
<1> DEFINE h == HeaderLen(req)
           i == req.index
           n == req.n
           f == req.file
           B == Body(req)
           j == (k - h) + 1
           p == i + (k - h)
<1>1. i \in Nat /\ n \in Nat /\ h \in Nat
  BY RequestNumbers
<1>2. f \in Files /\ \A l \in 1..n: i + l - 1 \in Addresses
  BY RequestFits, Zenon
<1>3. \A l \in 1..n: Sent(req)[h + l] = B[l]
  BY SentFits
<1>4. \A l \in 1..Moved(req, k): m[f][i + l - 1] = B[l]
  BY DEF Written
<1>5. Moved(req, k) = (IF k <= h THEN 0 ELSE k - h) /\ Moved(req, k + 1) = IF k + 1 <= h THEN 0 ELSE (k + 1) - h
  BY DEF Moved
<1>6. k >= h /\ k < h + n /\ m2 = ByteSet(m, f, p, Sent(req)[k + 1])
  OBVIOUS
<1> SUFFICES /\ \A l \in 1..Moved(req, k + 1): m2[f][i + l - 1] = B[l]
             /\ Registers!Stored(m2, req) = Registers!Stored(m, req)
  BY DEF Written
<1>7. Registers!Stored(m, req) = [g \in Files |-> [a \in Addresses |->
          IF g = f /\ a \in i..i + n - 1 THEN B[a - i + 1] ELSE m[g][a]]]
  <2>1. Registers!Stored(m, req) = StoreWith(m, req)
    BY StoredIs
  <2> QED
    BY <2>1, Zenon DEF StoreWith
<1>8. Registers!Stored(m2, req) = [g \in Files |-> [a \in Addresses |->
          IF g = f /\ a \in i..i + n - 1 THEN B[a - i + 1] ELSE m2[g][a]]]
  <2>1. IsStore(m2)
    BY ByteSetStore
  <2> QED
    <3>1. Registers!Stored(m2, req) = StoreWith(m2, req)
      BY <2>1, StoredIs
    <3> QED
      BY <3>1, Zenon DEF StoreWith, i, n, f, B
<1> HIDE DEF h, i, n, f, B
<1>9. j \in 1..n /\ h + j = k + 1 /\ i + j - 1 = p /\ p \in i..i + n - 1
  BY <1>1, <1>6
<1>10. Sent(req)[k + 1] = B[j] /\ p \in Addresses
  BY <1>2, <1>3, <1>9
<1>11. m2 = [g \in Files |-> [a \in Addresses |-> IF g = f /\ a = p THEN B[j] ELSE m[g][a]]]
  BY <1>6, <1>10 DEF ByteSet
<1> HIDE DEF p
<1>12. ASSUME NEW l \in 1..Moved(req, k + 1) PROVE m2[f][i + l - 1] = B[l]
  <2>1. l \in 1..j
    BY <1>1, <1>5, <1>6
  <2>2. l \in 1..n /\ i + l - 1 \in Addresses
    BY <1>1, <1>2, <1>9, <2>1
  <2>3. CASE l = j
    BY <1>2, <1>9, <1>10, <1>11, <2>3
  <2>4. CASE l # j
    <3>1. l \in 1..Moved(req, k) /\ i + l - 1 # p
      BY <1>1, <1>5, <1>6, <1>9, <2>1, <2>4
    <3> QED
      BY <1>2, <1>4, <1>11, <2>2, <3>1
  <2> QED
    BY <2>3, <2>4
<1>13. Registers!Stored(m2, req) = Registers!Stored(m, req)
  <2>1. \A g \in Files, a \in Addresses:
          (IF g = f /\ a \in i..i + n - 1 THEN B[a - i + 1] ELSE m2[g][a])
            = (IF g = f /\ a \in i..i + n - 1 THEN B[a - i + 1] ELSE m[g][a])
    BY <1>9, <1>11
  <2> QED
    BY <1>7, <1>8, <2>1
<1> QED
  BY <1>12, <1>13

\* A value all of whose bytes are written is in the store.
LEMMA WrittenWhole ==
    ASSUME NEW m, IsStore(m), NEW req \in Requests, req.op = "write",
           Written(m, req, HeaderLen(req) + req.n)
    PROVE  Registers!Stored(m, req) = m
<1> DEFINE i == req.index
           n == req.n
           f == req.file
           B == Body(req)
<1>1. i \in Nat /\ n \in Nat /\ n > 0
  BY RequestNumbers
<1>2. \A l \in 1..Moved(req, HeaderLen(req) + n): m[f][i + l - 1] = B[l]
  BY DEF Written
<1>3. Registers!Stored(m, req) = [g \in Files |-> [a \in Addresses |->
          IF g = f /\ a \in i..i + n - 1 THEN B[a - i + 1] ELSE m[g][a]]]
  <2>1. Registers!Stored(m, req) = StoreWith(m, req)
    BY StoredIs
  <2> QED
    BY <2>1, Zenon DEF StoreWith
<1>4. m = [g \in Files |-> [a \in Addresses |-> m[g][a]]]
  BY DEF IsStore
<1> HIDE DEF i, n, f, B
<1>5. Moved(req, HeaderLen(req) + n) = n
  <2>1. HeaderLen(req) \in Nat
    BY RequestNumbers
  <2> QED
    BY <1>1, <2>1 DEF Moved
<1>6. ASSUME NEW a \in Addresses, a \in i..i + n - 1 PROVE B[a - i + 1] = m[f][a]
  <2> DEFINE l == a - i + 1
  <2>1. l \in 1..n /\ i + l - 1 = a
    BY <1>1, <1>6
  <2> HIDE DEF l
  <2> QED
    BY <1>2, <1>5, <2>1 DEF l
<1>7. \A g \in Files, a \in Addresses:
        (IF g = f /\ a \in i..i + n - 1 THEN B[a - i + 1] ELSE m[g][a]) = m[g][a]
  BY <1>6
<1> QED
  BY <1>3, <1>4, <1>7

\* A caller between two transfers, and in one of which k bytes are shifted.
Waiting(req) == [pc |-> "waiting", req |-> req, in |-> <<>>, out |-> Sent(req)]

Over(value) == [pc |-> "ended", value |-> value]

Rested(call) ==
    \/ call = Registers!Idle
    \/ \E req \in Requests: call = Waiting(req)
    \/ \E value: call = Over(value)

InTransfer(call, ch, m, req, k) ==
    /\ call = [pc |-> "shifting", req |-> req, in |-> Taken(m, req, k), out |-> Rest(Sent(req), k + 1)]
    /\ ch = ChipAt(req, k)
    /\ req.op = "write" => Written(m, req, k)

\* The caller of the one transfer there can be, and how far it is.
TransferOf(c, req) == \E k \in 0..HeaderLen(req) + req.n: InTransfer(calls[c], chip, mem, req, k)

OthersRest(c) == \A d \in Callers \ {c}: Rested(calls[d])

RegistersInv ==
    /\ IsStore(mem)
    /\ calls = [c \in Callers |-> calls[c]]
    /\ IF locked
       THEN \E c \in Callers: OthersRest(c) /\ \E req \in Requests: TransferOf(c, req)
       ELSE chip = Registers!Ready /\ \A c \in Callers: Rested(calls[c])

\* A rested caller does not shift.
LEMMA RestedCall ==
    ASSUME NEW call, Rested(call)
    PROVE  /\ call.pc # "shifting"
           /\ call.pc = "waiting" => \E req \in Requests: call = Waiting(req)
           /\ call.pc = "ended" => \E value: call = Over(value)
BY DEF Rested, Registers!Idle, Waiting, Over

\* Who shifts is the caller of the transfer.
LEMMA WhoShifts ==
    ASSUME RegistersInv, NEW c \in Callers, calls[c].pc = "shifting"
    PROVE  locked /\ OthersRest(c) /\ \E req \in Requests: TransferOf(c, req)
<1>1. locked
  BY RestedCall DEF RegistersInv
<1>2. PICK d \in Callers: OthersRest(d) /\ \E req \in Requests: TransferOf(d, req)
  BY <1>1 DEF RegistersInv
<1>3. c = d
  BY <1>2, RestedCall DEF OthersRest
<1> QED
  BY <1>1, <1>2, <1>3

\* The call of one caller changes.
CallTurns(c, new) == calls' = [d \in Callers |-> IF d = c THEN new ELSE calls[d]]

\* A call: the caller waits with the transfer composed.
LEMMA CallIs ==
    ASSUME RegistersInv, NEW c \in Callers, NEW req \in Requests, Registers!Call(c, req)
    PROVE  /\ calls[c] = Registers!Idle /\ CallTurns(c, Waiting(req))
           /\ UNCHANGED <<mem, chip, locked>>
<1>1. calls = [d \in Callers |-> calls[d]]
  BY DEF RegistersInv
<1>2. calls' = [calls EXCEPT ![c] = Waiting(req)]
  BY DEF Registers!Call, Waiting, Sent, HeaderOf, Body
<1> HIDE DEF Waiting
<1>3. CallTurns(c, Waiting(req))
  BY <1>1, <1>2 DEF CallTurns
<1> QED
  BY <1>3 DEF Registers!Call

\* The lock is taken and the transfer begins.
LEMMA BeginIs ==
    ASSUME RegistersInv, NEW c \in Callers, Registers!Begin(c)
    PROVE  /\ ~locked /\ locked' = TRUE /\ UNCHANGED <<mem, chip>>
           /\ \E req \in Requests:
                /\ calls[c] = Waiting(req)
                /\ CallTurns(c, [pc |-> "shifting", req |-> req, in |-> <<>>, out |-> Sent(req)])
<1>1. calls = [d \in Callers |-> calls[d]]
  BY DEF RegistersInv
<1>2. /\ ~locked /\ locked' = TRUE /\ UNCHANGED <<mem, chip>> /\ calls[c].pc = "waiting"
      /\ calls' = [calls EXCEPT ![c].pc = "shifting"]
  BY DEF Registers!Begin
<1>3. PICK req \in Requests: calls[c] = Waiting(req)
  BY <1>2, RestedCall DEF RegistersInv
<1> DEFINE new == [pc |-> "shifting", req |-> req, in |-> <<>>, out |-> Sent(req)]
<1>4. [calls[c] EXCEPT !.pc = "shifting"] = new
  BY <1>3 DEF Waiting
<1>5. calls' = [calls EXCEPT ![c] = [calls[c] EXCEPT !.pc = "shifting"]]
  BY <1>1, <1>2
<1>6. calls' = [calls EXCEPT ![c] = new]
  BY <1>4, <1>5
<1> HIDE DEF new
<1>7. CallTurns(c, new)
  BY <1>1, <1>6 DEF CallTurns
<1> QED
  BY <1>2, <1>3, <1>7 DEF new

\* A call that is over returns.
LEMMA ReturnIs ==
    ASSUME RegistersInv, NEW c \in Callers, Registers!Return(c)
    PROVE  /\ \E value: calls[c] = Over(value)
           /\ CallTurns(c, Registers!Idle)
           /\ UNCHANGED <<mem, chip, locked>>
<1>1. calls = [d \in Callers |-> calls[d]]
  BY DEF RegistersInv
<1>2. calls[c].pc = "ended" /\ calls' = [calls EXCEPT ![c] = Registers!Idle]
  BY DEF Registers!Return
<1>3. CallTurns(c, Registers!Idle)
  BY <1>1, <1>2 DEF CallTurns
<1>4. Rested(calls[c])
  <2>1. CASE ~locked
    BY <2>1 DEF RegistersInv
  <2>2. CASE locked
    <3>1. PICK d \in Callers: OthersRest(d) /\ \E req \in Requests: TransferOf(d, req)
      BY <2>2 DEF RegistersInv
    <3>2. calls[d].pc = "shifting"
      BY <3>1 DEF TransferOf, InTransfer
    <3> QED
      BY <1>2, <3>1, <3>2 DEF OthersRest
  <2> QED
    BY <2>1, <2>2
<1> QED
  BY <1>2, <1>3, <1>4, RestedCall DEF Registers!Return

\* Nothing is taken or written before the body.
LEMMA HeaderMoves ==
    ASSUME NEW req \in Requests, NEW k \in Nat, k < HeaderLen(req), NEW m
    PROVE  /\ Taken(m, req, k + 1) = Taken(m, req, k)
           /\ Written(m, req, k) => Written(m, req, k + 1)
<1>1. Moved(req, k) = 0 /\ Moved(req, k + 1) = 0
  BY RequestNumbers DEF Moved
<1> QED
  BY <1>1 DEF Taken, Written

\* A transfer begins with the whole list, and nothing moved.
LEMMA NothingTaken ==
    ASSUME NEW req \in Requests, NEW m
    PROVE  /\ Taken(m, req, 0) = <<>> /\ Written(m, req, 0)
           /\ Rest(Sent(req), 0 + 1) = Sent(req) /\ ChipAt(req, 0) = Registers!Ready
<1>1. Moved(req, 0) = 0
  BY RequestNumbers DEF Moved
<1>2. Taken(m, req, 0) = <<>> /\ Written(m, req, 0)
  BY <1>1 DEF Taken, Written
<1> QED
  BY <1>2, SentFits, WholeList DEF ChipAt

\* The beginning of a list grows by the next element.
LEMMA AppendNext ==
    ASSUME NEW f, NEW l \in Nat
    PROVE  Append([j \in 1..l |-> f[j]], f[l + 1]) = [j \in 1..l + 1 |-> f[j]]
<1> DEFINE S == {f[j]: j \in 1..l + 1}
           s == [j \in 1..l |-> f[j]]
           t == [j \in 1..l + 1 |-> f[j]]
           a == Append(s, f[l + 1])
<1>1. \A j \in 1..l + 1: f[j] \in S
  OBVIOUS
<1>2. f[l + 1] \in S /\ \A j \in 1..l: f[j] \in S
  BY <1>1
<1> HIDE DEF S
<1>3. s \in Seq(S) /\ Len(s) = l
  BY <1>2
<1>4. t \in Seq(S) /\ Len(t) = l + 1
  BY <1>1
<1>5. /\ a \in Seq(S) /\ Len(a) = l + 1
      /\ \A j \in 1..l: a[j] = s[j]
      /\ a[l + 1] = f[l + 1]
  <2> HIDE DEF s
  <2> QED
    BY <1>2, <1>3, AppendProperties
<1>6. \A j \in 1..l + 1: a[j] = t[j]
  <2>1. ASSUME NEW j \in 1..l PROVE a[j] = t[j]
    <3>1. a[j] = s[j]
      BY <1>5
    <3> HIDE DEF a
    <3> QED
      BY <3>1
  <2>2. a[l + 1] = t[l + 1]
    <3> HIDE DEF a
    <3> QED
      BY <1>5
  <2> HIDE DEF a, t
  <2> QED
    BY <2>1, <2>2
<1> HIDE DEF s, t, a
<1>7. a = t
  BY <1>4, <1>5, <1>6, SeqEqual
<1> QED
  BY <1>7 DEF s, t, a

\* A byte read is appended.
LEMMA ReadByte ==
    ASSUME NEW req \in Requests, req.op # "write", NEW m,
           NEW k \in Nat, k >= HeaderLen(req), k < HeaderLen(req) + req.n
    PROVE  Append(Taken(m, req, k), m[req.file][req.index + (k - HeaderLen(req))])
             = Taken(m, req, k + 1)
<1> DEFINE h == HeaderLen(req)
           l == k - h
           v(j) == m[req.file][req.index + j - 1]
           i == req.index
<1>1. h \in Nat /\ i \in Nat
  BY RequestNumbers
<1>2. l \in Nat /\ Moved(req, k) = l /\ Moved(req, k + 1) = l + 1
  BY <1>1 DEF Moved
<1>3. Taken(m, req, k) = [j \in 1..l |-> v(j)] /\ Taken(m, req, k + 1) = [j \in 1..l + 1 |-> v(j)]
  BY <1>2 DEF Taken
<1> DEFINE f == [j \in 1..l + 1 |-> v(j)]
<1>4. /\ Taken(m, req, k) = [j \in 1..l |-> f[j]] /\ Taken(m, req, k + 1) = [j \in 1..l + 1 |-> f[j]]
      /\ m[req.file][i + l] = f[l + 1]
  <2>1. i + l = i + (l + 1) - 1 /\ l + 1 \in 1..l + 1 /\ 1..l \subseteq 1..l + 1
    BY <1>1, <1>2
  <2>2. \A j \in 1..l + 1: f[j] = v(j)
    OBVIOUS
  <2>3. m[req.file][i + l] = v(l + 1)
    BY <2>1
  <2> HIDE DEF l, v, f
  <2> QED
    BY <1>3, <2>1, <2>2, <2>3
<1> HIDE DEF f
<1>5. Append([j \in 1..l |-> f[j]], f[l + 1]) = [j \in 1..l + 1 |-> f[j]]
  BY <1>2, AppendNext
<1> QED
  BY <1>4, <1>5 DEF l

\* What is taken in the end is what Found takes.
LEMMA TakenWhole ==
    ASSUME NEW req \in Requests, req.op # "write", NEW m
    PROVE  Registers!ValueOf(Taken(m, req, HeaderLen(req) + req.n)) = Registers!Found(m, req)
<1>1. Moved(req, HeaderLen(req) + req.n) = req.n
  BY RequestNumbers DEF Moved
<1> QED
  BY <1>1 DEF Taken, Registers!Found

\* A shift of the header's bytes.
LEMMA ShiftHeader ==
    ASSUME RegistersInv, NEW c \in Callers, Registers!Shift(c), NEW req \in Requests,
           NEW k \in Nat, k < HeaderLen(req), InTransfer(calls[c], chip, mem, req, k)
    PROVE  /\ InTransfer(calls'[c], chip', mem', req, k + 1)
           /\ CallTurns(c, calls'[c]) /\ UNCHANGED <<mem, locked>>
<1>1. calls = [d \in Callers |-> calls[d]]
  BY DEF RegistersInv
<1>2. /\ calls[c] = [pc |-> "shifting", req |-> req, in |-> Taken(mem, req, k), out |-> Rest(Sent(req), k + 1)]
      /\ chip = ChipAt(req, k) /\ (req.op = "write" => Written(mem, req, k))
  BY DEF InTransfer
<1>3. k \in 0..HeaderLen(req) - 1 /\ k + 1 \in 1..Len(Sent(req))
  BY RequestNumbers, SentFits
<1>4. /\ Head(Rest(Sent(req), k + 1)) = Sent(req)[k + 1]
      /\ Tail(Rest(Sent(req), k + 1)) = Rest(Sent(req), (k + 1) + 1)
  BY <1>3, SentFits, RestOf
<1>5. /\ chip.stage # "data"
      /\ Registers!Decoded(chip, Sent(req)[k + 1]) = ChipAt(req, k + 1)
  BY <1>2, <1>3, HeaderDecodes
<1> DEFINE rest == Rest(Sent(req), (k + 1) + 1)
           in == Taken(mem, req, k)
           new == [pc |-> "shifting", req |-> req, in |-> in, out |-> rest]
<1>6. /\ chip' = ChipAt(req, k + 1)
      /\ calls' = [calls EXCEPT ![c].out = rest]
      /\ UNCHANGED <<mem, locked>>
  <2>1. /\ chip' = Registers!Decoded(chip, Head(calls[c].out))
        /\ calls' = [calls EXCEPT ![c].out = Tail(calls[c].out)]
        /\ UNCHANGED <<mem, locked>>
    BY <1>5 DEF Registers!Shift
  <2>2. calls[c].out = Rest(Sent(req), k + 1)
    BY <1>2
  <2> QED
    BY <1>4, <1>5, <2>1, <2>2
<1>7. [calls[c] EXCEPT !.out = rest] = new
  <2> HIDE DEF rest, in
  <2> QED
    BY <1>2 DEF in
<1>8. calls' = [calls EXCEPT ![c] = new]
  <2>1. calls' = [calls EXCEPT ![c] = [calls[c] EXCEPT !.out = rest]]
    BY <1>1, <1>6
  <2> QED
    BY <1>7, <2>1
<1> HIDE DEF new
<1>9. CallTurns(c, new) /\ calls'[c] = new
  BY <1>1, <1>8 DEF CallTurns
<1>10. /\ Taken(mem, req, k + 1) = in
       /\ req.op = "write" => Written(mem, req, k + 1)
  BY <1>2, HeaderMoves
<1>11. InTransfer(new, chip', mem', req, k + 1)
  BY <1>6, <1>10 DEF InTransfer, new
<1> QED
  BY <1>6, <1>9, <1>11

\* A shift of the body's bytes out.
LEMMA ShiftWrite ==
    ASSUME RegistersInv, NEW c \in Callers, Registers!Shift(c), NEW req \in Requests,
           NEW k \in Nat, k >= HeaderLen(req), k < HeaderLen(req) + req.n,
           InTransfer(calls[c], chip, mem, req, k), req.op = "write"
    PROVE  /\ InTransfer(calls'[c], chip', mem', req, k + 1)
           /\ CallTurns(c, calls'[c]) /\ UNCHANGED locked
           /\ IsStore(mem') /\ Registers!Stored(mem', req) = Registers!Stored(mem, req)
<1>1. calls = [d \in Callers |-> calls[d]] /\ IsStore(mem)
  BY DEF RegistersInv
<1>2. /\ calls[c] = [pc |-> "shifting", req |-> req, in |-> Taken(mem, req, k), out |-> Rest(Sent(req), k + 1)]
      /\ chip = ChipAt(req, k) /\ Written(mem, req, k)
  BY DEF InTransfer
<1>3. k + 1 \in 1..Len(Sent(req))
  BY RequestNumbers, SentFits
<1>4. /\ Head(Rest(Sent(req), k + 1)) = Sent(req)[k + 1]
      /\ Tail(Rest(Sent(req), k + 1)) = Rest(Sent(req), (k + 1) + 1)
  BY <1>3, SentFits, RestOf
<1> DEFINE rest == Rest(Sent(req), (k + 1) + 1)
           place == req.index + (k - HeaderLen(req))
           byte == Sent(req)[k + 1]
           in == Taken(mem, req, k)
           new == [pc |-> "shifting", req |-> req, in |-> in, out |-> rest]
<1>5. /\ chip.stage = "data" /\ chip.op = req.op /\ chip.file = req.file /\ chip.index = place
      /\ [chip EXCEPT !.index = @ + 1] = ChipAt(req, k + 1)
  BY <1>2, BodyDecodes
<1>6. /\ chip' = ChipAt(req, k + 1)
      /\ calls' = [calls EXCEPT ![c].out = rest]
      /\ mem' = [mem EXCEPT ![req.file][place] = byte]
      /\ UNCHANGED locked
  <2>1. /\ chip' = [chip EXCEPT !.index = @ + 1]
        /\ calls' = [calls EXCEPT ![c].out = Tail(calls[c].out)]
        /\ mem' = [mem EXCEPT ![chip.file][chip.index] = Head(calls[c].out)]
        /\ UNCHANGED locked
    BY <1>5 DEF Registers!Shift
  <2>2. calls[c].out = Rest(Sent(req), k + 1)
    BY <1>2
  <2> QED
    BY <1>4, <1>5, <2>1, <2>2
<1>7. [calls[c] EXCEPT !.out = rest] = new
  <2> HIDE DEF rest, in
  <2> QED
    BY <1>2 DEF in
<1>8. calls' = [calls EXCEPT ![c] = new]
  <2>1. calls' = [calls EXCEPT ![c] = [calls[c] EXCEPT !.out = rest]]
    BY <1>1, <1>6
  <2> QED
    BY <1>7, <2>1
<1> HIDE DEF new
<1>9. CallTurns(c, new) /\ calls'[c] = new
  BY <1>1, <1>8 DEF CallTurns
<1>10. req.file \in Files /\ place \in Addresses
  <2> DEFINE i == req.index
             n == req.n
             j == (k - HeaderLen(req)) + 1
  <2>1. i \in Nat /\ HeaderLen(req) \in Nat /\ n \in Nat
    BY RequestNumbers
  <2>2. req.file \in Files /\ \A l \in 1..n: i + l - 1 \in Addresses
    BY RequestFits, Zenon
  <2> HIDE DEF i, n
  <2>3. j \in 1..n /\ i + j - 1 = i + (k - HeaderLen(req))
    BY <2>1 DEF n
  <2> QED
    BY <2>2, <2>3 DEF i
<1>11. mem' = ByteSet(mem, req.file, place, byte)
  <2> DEFINE file == req.file
  <2>1. mem' = [mem EXCEPT ![file][place] = byte] /\ file \in Files
    BY <1>6, <1>10
  <2> HIDE DEF file, place, byte
  <2>2. mem' = ByteSet(mem, file, place, byte)
    BY <1>1, <1>10, <2>1, SetByte
  <2> QED
    BY <2>2 DEF file
<1>12. IsStore(mem')
  BY <1>11, ByteSetStore
<1>13. Written(mem', req, k + 1) /\ Registers!Stored(mem', req) = Registers!Stored(mem, req)
  BY <1>1, <1>2, <1>11, WriteByte
<1>14. InTransfer(new, chip', mem', req, k + 1)
  BY <1>6, <1>13 DEF InTransfer, new, Taken
<1> QED
  BY <1>6, <1>9, <1>12, <1>13, <1>14

\* A shift of the body's bytes in.
LEMMA ShiftRead ==
    ASSUME RegistersInv, NEW c \in Callers, Registers!Shift(c), NEW req \in Requests,
           NEW k \in Nat, k >= HeaderLen(req), k < HeaderLen(req) + req.n,
           InTransfer(calls[c], chip, mem, req, k), req.op # "write"
    PROVE  /\ InTransfer(calls'[c], chip', mem', req, k + 1)
           /\ CallTurns(c, calls'[c]) /\ UNCHANGED <<mem, locked>>
<1>1. calls = [d \in Callers |-> calls[d]]
  BY DEF RegistersInv
<1>2. /\ calls[c] = [pc |-> "shifting", req |-> req, in |-> Taken(mem, req, k), out |-> Rest(Sent(req), k + 1)]
      /\ chip = ChipAt(req, k)
  BY DEF InTransfer
<1>3. k + 1 \in 1..Len(Sent(req))
  BY RequestNumbers, SentFits
<1>4. Tail(Rest(Sent(req), k + 1)) = Rest(Sent(req), (k + 1) + 1)
  BY <1>3, SentFits, RestOf
<1> DEFINE rest == Rest(Sent(req), (k + 1) + 1)
           place == req.index + (k - HeaderLen(req))
           in == Taken(mem, req, k + 1)
           new == [pc |-> "shifting", req |-> req, in |-> in, out |-> rest]
<1>5. /\ chip.stage = "data" /\ chip.op = req.op /\ chip.file = req.file /\ chip.index = place
      /\ [chip EXCEPT !.index = @ + 1] = ChipAt(req, k + 1)
  BY <1>2, BodyDecodes
<1>6. /\ chip' = [chip EXCEPT !.index = @ + 1]
      /\ calls' = [calls EXCEPT ![c] = [pc |-> calls[c].pc, req |-> calls[c].req, out |-> Tail(calls[c].out),
                      in |-> Append(calls[c].in, mem[chip.file][chip.index])]]
      /\ UNCHANGED <<mem, locked>>
  BY <1>5 DEF Registers!Shift
<1>7. Append(calls[c].in, mem[chip.file][chip.index]) = in
  BY <1>2, <1>5, ReadByte
<1>8. calls' = [calls EXCEPT ![c] = new]
  <2> DEFINE x == [pc |-> calls[c].pc, req |-> calls[c].req, out |-> Tail(calls[c].out),
                   in |-> Append(calls[c].in, mem[chip.file][chip.index])]
  <2>1. calls[c].pc = "shifting" /\ calls[c].req = req /\ Tail(calls[c].out) = rest
    BY <1>2, <1>4
  <2>2. x = new
    <3> HIDE DEF rest, in
    <3> QED
      BY <1>7, <2>1
  <2> QED
    BY <1>6, <2>2
<1> HIDE DEF new
<1>9. CallTurns(c, new) /\ calls'[c] = new
  BY <1>1, <1>8 DEF CallTurns
<1>10. InTransfer(new, chip', mem', req, k + 1)
  BY <1>5, <1>6 DEF InTransfer, new
<1> QED
  BY <1>6, <1>9, <1>10

\* A shift takes the transfer one byte on; as a whole it neither changes what
\* the store will be nor what will be read.
Shifted(c, req) ==
    /\ \E k \in 0..HeaderLen(req) + req.n - 1:
          /\ InTransfer(calls[c], chip, mem, req, k)
          /\ InTransfer(calls'[c], chip', mem', req, k + 1)
    /\ CallTurns(c, calls'[c]) /\ IsStore(mem') /\ UNCHANGED locked
    /\ IF req.op = "write" THEN Registers!Stored(mem', req) = Registers!Stored(mem, req)
                           ELSE UNCHANGED mem

\* Every shift is one by the caller that has the lock.
LEMMA ShiftIs ==
    ASSUME RegistersInv, NEW c \in Callers, Registers!Shift(c)
    PROVE  locked /\ OthersRest(c) /\ \E req \in Requests: Shifted(c, req)
<1>1. calls[c].pc = "shifting" /\ calls[c].out # <<>> /\ IsStore(mem)
  BY DEF Registers!Shift, RegistersInv
<1>2. locked /\ OthersRest(c) /\ \E req \in Requests: TransferOf(c, req)
  BY <1>1, WhoShifts
<1>3. PICK req \in Requests: TransferOf(c, req)
  BY <1>2
<1>4. PICK k \in 0..HeaderLen(req) + req.n: InTransfer(calls[c], chip, mem, req, k)
  BY <1>3 DEF TransferOf
<1>5. k # HeaderLen(req) + req.n
  <2>1. calls[c].out = Rest(Sent(req), k + 1)
    BY <1>4 DEF InTransfer
  <2>2. Rest(Sent(req), Len(Sent(req)) + 1) = <<>> /\ Len(Sent(req)) = HeaderLen(req) + req.n
    BY SentFits, WholeList
  <2>3. Rest(Sent(req), HeaderLen(req) + req.n + 1) = <<>>
    BY <2>2, Zenon
  <2> QED
    BY <1>1, <2>1, <2>3
<1>6. k \in Nat /\ k \in 0..HeaderLen(req) + req.n - 1 /\ k < HeaderLen(req) + req.n
  BY <1>5, RequestNumbers
<1>7. HeaderLen(req) \in Nat
  BY RequestNumbers
<1>8. CASE k < HeaderLen(req)
  <2>1. /\ InTransfer(calls'[c], chip', mem', req, k + 1)
        /\ CallTurns(c, calls'[c]) /\ UNCHANGED <<mem, locked>>
    BY <1>4, <1>6, <1>8, ShiftHeader
  <2> QED
    BY <1>1, <1>2, <1>4, <1>6, <2>1 DEF Shifted
<1>9. CASE k >= HeaderLen(req) /\ req.op = "write"
  <2>1. /\ InTransfer(calls'[c], chip', mem', req, k + 1)
        /\ CallTurns(c, calls'[c]) /\ UNCHANGED locked
        /\ IsStore(mem') /\ Registers!Stored(mem', req) = Registers!Stored(mem, req)
    BY <1>4, <1>6, <1>9, ShiftWrite
  <2> QED
    BY <1>2, <1>4, <1>6, <1>9, <2>1 DEF Shifted
<1>10. CASE k >= HeaderLen(req) /\ req.op # "write"
  <2>1. /\ InTransfer(calls'[c], chip', mem', req, k + 1)
        /\ CallTurns(c, calls'[c]) /\ UNCHANGED <<mem, locked>>
    BY <1>4, <1>6, <1>10, ShiftRead
  <2> QED
    BY <1>1, <1>2, <1>4, <1>6, <1>10, <2>1 DEF Shifted
<1> QED
  BY <1>6, <1>7, <1>8, <1>9, <1>10

\* A transfer that ends has read or written its value.
Finished(c, req) ==
    /\ InTransfer(calls[c], chip, mem, req, HeaderLen(req) + req.n)
    /\ CallTurns(c, Over(IF req.op = "write" THEN req.value ELSE Registers!Found(mem, req)))
    /\ req.op = "write" => Registers!Stored(mem, req) = mem

\* Only that caller ends a transfer, and all of it is shifted then.
LEMMA EndIs ==
    ASSUME RegistersInv, NEW c \in Callers, Registers!End(c)
    PROVE  /\ locked /\ OthersRest(c) /\ \E req \in Requests: Finished(c, req)
           /\ locked' = FALSE /\ chip' = Registers!Ready /\ UNCHANGED mem
<1>1. calls[c].pc = "shifting" /\ calls[c].out = <<>>
  BY DEF Registers!End
<1>2. locked /\ OthersRest(c) /\ \E req \in Requests: TransferOf(c, req)
  BY <1>1, WhoShifts
<1>3. PICK req \in Requests: TransferOf(c, req)
  BY <1>2
<1>4. PICK k \in 0..HeaderLen(req) + req.n: InTransfer(calls[c], chip, mem, req, k)
  BY <1>3 DEF TransferOf
<1> DEFINE e == HeaderLen(req) + req.n
<1>5. k = e
  <2>1. calls[c].out = Rest(Sent(req), k + 1)
    BY <1>4 DEF InTransfer
  <2>2. k + 1 \notin 1..Len(Sent(req))
    BY <1>1, <2>1, SentFits, RestOf
  <2>3. Len(Sent(req)) = e /\ e \in Nat
    BY SentFits, RequestNumbers
  <2> QED
    BY <2>2, <2>3
<1>6. InTransfer(calls[c], chip, mem, req, e)
  BY <1>4, <1>5
<1> DEFINE value == IF req.op = "write" THEN req.value ELSE Registers!Found(mem, req)
<1>7. CallTurns(c, Over(value))
  <2>1. calls = [d \in Callers |-> calls[d]]
    BY DEF RegistersInv
  <2>2. calls[c].req = req /\ calls[c].in = Taken(mem, req, e)
    BY <1>6 DEF InTransfer
  <2>3. calls' = [calls EXCEPT ![c] = [pc |-> "ended", value |->
             IF calls[c].req.op = "write" THEN calls[c].req.value ELSE Registers!ValueOf(calls[c].in)]]
    BY DEF Registers!End
  <2>4. (IF calls[c].req.op = "write" THEN calls[c].req.value ELSE Registers!ValueOf(calls[c].in)) = value
    BY <2>2, TakenWhole
  <2>5. calls' = [calls EXCEPT ![c] = Over(value)]
    BY <2>3, <2>4 DEF Over
  <2> HIDE DEF value
  <2> QED
    BY <2>1, <2>5 DEF CallTurns
<1>8. req.op = "write" => Registers!Stored(mem, req) = mem
  <2>1. IsStore(mem) /\ (req.op = "write" => Written(mem, req, e))
    BY <1>6 DEF RegistersInv, InTransfer
  <2> QED
    BY <2>1, WrittenWhole
<1> QED
  BY <1>2, <1>6, <1>7, <1>8 DEF Finished, Registers!End

\* The invariant at first.
LEMMA RegistersStart == Registers!Init => RegistersInv
BY DEF Registers!Init, RegistersInv, IsStore, Rested

\* The others rest when one call has turned.
LEMMA OthersStay ==
    ASSUME NEW c \in Callers, NEW new, CallTurns(c, new)
    PROVE  /\ calls'[c] = new /\ \A d \in Callers \ {c}: calls'[d] = calls[d]
           /\ calls' = [d \in Callers |-> calls'[d]]
BY DEF CallTurns

\* The invariant after a step of a rested caller, of a new transfer, of one in progress
\* and after it.
LEMMA RestedStays ==
    ASSUME RegistersInv, NEW c \in Callers, Rested(calls[c]), NEW new, Rested(new),
           CallTurns(c, new), UNCHANGED <<mem, chip, locked>>
    PROVE  RegistersInv'
<1>1. /\ calls'[c] = new /\ \A d \in Callers \ {c}: calls'[d] = calls[d]
      /\ calls' = [d \in Callers |-> calls'[d]]
  BY OthersStay
<1>2. CASE ~locked
  <2>1. \A d \in Callers: Rested(calls'[d])
    BY <1>1, <1>2 DEF RegistersInv
  <2> QED
    BY <1>1, <1>2, <2>1 DEF RegistersInv
<1>3. CASE locked
  <2>1. PICK d \in Callers: OthersRest(d) /\ \E req \in Requests: TransferOf(d, req)
    BY <1>3 DEF RegistersInv
  <2>2. calls[d].pc = "shifting"
    BY <2>1 DEF TransferOf, InTransfer
  <2>3. d # c
    BY <2>2, RestedCall
  <2>4. OthersRest(d)'
    BY <1>1, <2>1 DEF OthersRest
  <2>5. PICK req \in Requests: TransferOf(d, req)
    BY <2>1
  <2>6. TransferOf(d, req)'
    BY <1>1, <2>3, <2>5 DEF TransferOf
  <2> QED
    BY <1>1, <1>3, <2>4, <2>6 DEF RegistersInv
<1> QED
  BY <1>2, <1>3

\* The invariant with a transfer in progress.
LEMMA TransferStays ==
    ASSUME NEW c \in Callers, NEW req \in Requests, NEW k \in 0..HeaderLen(req) + req.n,
           InTransfer(calls'[c], chip', mem', req, k), OthersRest(c), CallTurns(c, calls'[c]),
           locked', IsStore(mem')
    PROVE  RegistersInv'
<1>1. /\ \A d \in Callers \ {c}: calls'[d] = calls[d]
      /\ calls' = [d \in Callers |-> calls'[d]]
  BY OthersStay
<1>2. OthersRest(c)'
  BY <1>1 DEF OthersRest
<1>3. TransferOf(c, req)'
  BY DEF TransferOf
<1> QED
  BY <1>1, <1>2, <1>3 DEF RegistersInv

\* Every step keeps the invariant.
LEMMA RegistersStep == RegistersInv /\ [Registers!Next]_(Registers!vars) => RegistersInv'
<1> SUFFICES ASSUME RegistersInv, [Registers!Next]_(Registers!vars) PROVE RegistersInv'
  OBVIOUS
<1>1. ASSUME NEW c \in Callers, NEW req \in Requests, Registers!Call(c, req) PROVE RegistersInv'
  <2>1. /\ calls[c] = Registers!Idle /\ CallTurns(c, Waiting(req))
        /\ UNCHANGED <<mem, chip, locked>>
    BY <1>1, CallIs
  <2>2. Rested(calls[c]) /\ Rested(Waiting(req))
    BY <2>1 DEF Rested
  <2> QED
    BY <2>1, <2>2, RestedStays
<1>2. ASSUME NEW c \in Callers, Registers!Begin(c) PROVE RegistersInv'
  <2>1. ~locked /\ locked' = TRUE /\ UNCHANGED <<mem, chip>>
    BY <1>2, BeginIs
  <2>2. PICK req \in Requests:
          CallTurns(c, [pc |-> "shifting", req |-> req, in |-> <<>>, out |-> Sent(req)])
    BY <1>2, BeginIs
  <2>3. calls'[c] = [pc |-> "shifting", req |-> req, in |-> <<>>, out |-> Sent(req)]
    BY <2>2, OthersStay
  <2>4. chip = Registers!Ready /\ IsStore(mem) /\ OthersRest(c)
    BY <2>1 DEF RegistersInv, OthersRest
  <2>5. InTransfer(calls'[c], chip', mem', req, 0)
    BY <2>1, <2>3, <2>4, NothingTaken DEF InTransfer
  <2>6. 0 \in 0..HeaderLen(req) + req.n /\ locked' /\ IsStore(mem') /\ CallTurns(c, calls'[c])
    BY <2>1, <2>2, <2>3, <2>4, RequestNumbers
  <2> QED
    BY <2>4, <2>5, <2>6, TransferStays
<1>3. ASSUME NEW c \in Callers, Registers!Shift(c) PROVE RegistersInv'
  <2>1. locked /\ OthersRest(c)
    BY <1>3, ShiftIs
  <2>2. PICK req \in Requests: Shifted(c, req)
    BY <1>3, ShiftIs
  <2>3. PICK k \in 0..HeaderLen(req) + req.n - 1: InTransfer(calls'[c], chip', mem', req, k + 1)
    BY <2>2 DEF Shifted
  <2>4. k + 1 \in 0..HeaderLen(req) + req.n
    BY RequestNumbers
  <2>5. CallTurns(c, calls'[c]) /\ IsStore(mem') /\ locked'
    BY <2>1, <2>2 DEF Shifted
  <2> QED
    BY <2>1, <2>3, <2>4, <2>5, TransferStays
<1>4. ASSUME NEW c \in Callers, Registers!End(c) PROVE RegistersInv'
  <2>1. OthersRest(c) /\ locked' = FALSE /\ chip' = Registers!Ready /\ UNCHANGED mem
    BY <1>4, EndIs
  <2>2. PICK value: CallTurns(c, Over(value))
    BY <1>4, EndIs DEF Finished
  <2>3. /\ calls'[c] = Over(value) /\ \A d \in Callers \ {c}: calls'[d] = calls[d]
        /\ calls' = [d \in Callers |-> calls'[d]]
    BY <2>2, OthersStay
  <2>4. \A d \in Callers: Rested(calls'[d])
    BY <2>1, <2>3 DEF OthersRest, Rested
  <2> QED
    BY <2>1, <2>3, <2>4 DEF RegistersInv
<1>5. ASSUME NEW c \in Callers, Registers!Return(c) PROVE RegistersInv'
  <2>1. CallTurns(c, Registers!Idle) /\ UNCHANGED <<mem, chip, locked>>
    BY <1>5, ReturnIs
  <2>2. Rested(calls[c]) /\ Rested(Registers!Idle)
    BY <1>5, ReturnIs DEF Rested
  <2> QED
    BY <2>1, <2>2, RestedStays
<1>6. CASE UNCHANGED Registers!vars
  BY <1>6 DEF Registers!vars, RegistersInv, OthersRest, TransferOf
<1> QED
  BY <1>1, <1>2, <1>3, <1>4, <1>5, <1>6 DEF Registers!Next

\* The invariant of the registers: at most one transfer is in progress, its
\* caller has decamutexon, and caller and chip agree on how far it is.
THEOREM RegistersInvariant == Registers!Spec => []RegistersInv
BY RegistersStart, RegistersStep, PTL DEF Registers!Spec

\* Where a caller is in an access, and the store, for any registers and calls.
AccessIn(m, call) ==
    CASE call.pc = "idle" -> [state |-> "none"]
      [] call.pc = "waiting" -> [state |-> "called", req |-> call.req]
      [] call.pc = "shifting" ->
           [state |-> "ended", value |-> IF call.req.op = "write" THEN call.req.value
                                         ELSE Registers!Found(m, call.req)]
      [] call.pc = "ended" -> [state |-> "ended", value |-> call.value]

WritersIn(cs) == {c \in Callers: cs[c].pc = "shifting" /\ cs[c].req.op = "write"}

StoreIn(m, cs) ==
    IF WritersIn(cs) = {} THEN m
    ELSE Registers!Stored(m, cs[CHOOSE c \in WritersIn(cs): TRUE].req)

\* What the refinement sees of a state.
LEMMA ViewIs ==
    /\ Registers!StoreOf = StoreIn(mem, calls)
    /\ \A c \in Callers: Registers!AccessOf(c) = AccessIn(mem, calls[c])
BY Zenon DEF Registers!StoreOf, Registers!Writers, StoreIn, WritersIn, Registers!AccessOf, AccessIn

\* And of the next one.
LEMMA ViewWillBe ==
    /\ Registers!StoreOf' = StoreIn(mem', calls')
    /\ \A c \in Callers: Registers!AccessOf(c)' = AccessIn(mem', calls'[c])
BY Zenon DEF Registers!StoreOf, Registers!Writers, StoreIn, WritersIn, Registers!AccessOf, AccessIn

\* Without a transfer the store is the registers, in one it is what they will be.
LEMMA StoreAtRest ==
    ASSUME NEW m, NEW cs, \A c \in Callers: cs[c].pc # "shifting"
    PROVE  StoreIn(m, cs) = m
<1>1. WritersIn(cs) = {}
  BY DEF WritersIn
<1> QED
  BY <1>1 DEF StoreIn

StoreIf(m, req) == IF req.op = "write" THEN Registers!Stored(m, req) ELSE m

\* With one caller shifting it is what that caller's value makes of it.
LEMMA StoreInTransfer ==
    ASSUME NEW m, NEW cs, NEW c \in Callers, NEW req, cs[c].pc = "shifting", cs[c].req = req,
           \A d \in Callers \ {c}: cs[d].pc # "shifting"
    PROVE  StoreIn(m, cs) = StoreIf(m, req)
<1>1. CASE req.op = "write"
  <2>1. WritersIn(cs) = {c}
    BY <1>1 DEF WritersIn
  <2>2. (CHOOSE d \in WritersIn(cs): TRUE) = c
    BY <2>1
  <2> QED
    BY <1>1, <2>1, <2>2 DEF StoreIn, StoreIf
<1>2. CASE req.op # "write"
  <2>1. WritersIn(cs) = {}
    BY <1>2 DEF WritersIn
  <2> QED
    BY <1>2, <2>1 DEF StoreIn, StoreIf
<1> QED
  BY <1>1, <1>2

\* The accesses of the calls: the forms they take, by name.
NoAccess == [state |-> "none"]
CalledWith(req) == [state |-> "called", req |-> req]
EndedWith(value) == [state |-> "ended", value |-> value]

\* No call is no access.
LEMMA AccessIdle == \A m: AccessIn(m, Registers!Idle) = NoAccess
BY DEF AccessIn, Registers!Idle, NoAccess

\* A call that waits has not had its access.
LEMMA AccessWaiting == \A m, req: AccessIn(m, Waiting(req)) = CalledWith(req)
BY DEF AccessIn, Waiting, CalledWith

\* A call that is over has had it.
LEMMA AccessOver == \A m, value: AccessIn(m, Over(value)) = EndedWith(value)
BY DEF AccessIn, Over, EndedWith

\* A transfer has taken effect.
LEMMA AccessInTransfer ==
    ASSUME NEW m, NEW call, NEW req, call.pc = "shifting", call.req = req
    PROVE  AccessIn(m, call) = EndedWith(IF req.op = "write" THEN req.value
                                         ELSE Registers!Found(m, req))
BY DEF AccessIn, EndedWith

\* A rested caller's access does not depend on the registers.
LEMMA AccessAtRest ==
    ASSUME NEW m, NEW m2, NEW call, Rested(call)
    PROVE  AccessIn(m, call) = AccessIn(m2, call)
<1>1. CASE call = Registers!Idle
  BY <1>1, AccessIdle
<1>2. ASSUME NEW req, call = Waiting(req) PROVE AccessIn(m, call) = AccessIn(m2, call)
  <2>1. AccessIn(m, Waiting(req)) = CalledWith(req) /\ AccessIn(m2, Waiting(req)) = CalledWith(req)
    BY AccessWaiting
  <2> QED
    BY <1>2, <2>1
<1>3. ASSUME NEW value, call = Over(value) PROVE AccessIn(m, call) = AccessIn(m2, call)
  <2>1. AccessIn(m, Over(value)) = EndedWith(value) /\ AccessIn(m2, Over(value)) = EndedWith(value)
    BY AccessOver
  <2> QED
    BY <1>3, <2>1
<1> QED
  BY <1>1, <1>2, <1>3 DEF Rested

\* How the view changes: the access of one caller, and the store.
ViewTurns(c, access) ==
    /\ Registers!AccessOf(c)' = access
    /\ \A d \in Callers \ {c}: Registers!AccessOf(d)' = Registers!AccessOf(d)

\* All accesses when that of one caller changes.
LEMMA AccessesTurn ==
    ASSUME NEW c \in Callers, NEW access, ViewTurns(c, access)
    PROVE  [d \in Callers |-> Registers!AccessOf(d)]'
             = [[d \in Callers |-> Registers!AccessOf(d)] EXCEPT ![c] = access]
<1>1. [d \in Callers |-> Registers!AccessOf(d)]' = [d \in Callers |-> Registers!AccessOf(d)']
  OBVIOUS
<1>2. \A d \in Callers: Registers!AccessOf(d)' = IF d = c THEN access ELSE Registers!AccessOf(d)
  BY DEF ViewTurns
<1>3. [d \in Callers |-> Registers!AccessOf(d)]'
        = [d \in Callers |-> IF d = c THEN access ELSE Registers!AccessOf(d)]
  BY <1>1, <1>2
<1> QED
  BY <1>3

\* The steps of the file of registers.
LEMMA FileCall ==
    ASSUME NEW c \in Callers, NEW req \in Requests, Registers!AccessOf(c) = NoAccess,
           ViewTurns(c, CalledWith(req)), Registers!StoreOf' = Registers!StoreOf
    PROVE  Registers!File!Next
<1> DEFINE A == [d \in Callers |-> Registers!AccessOf(d)]
<1>1. A[c] = NoAccess
  OBVIOUS
<1>2. A' = [A EXCEPT ![c] = CalledWith(req)]
  BY AccessesTurn
<1> HIDE DEF A
<1>3. Registers!File!Call(c, req)
  BY <1>1, <1>2 DEF Registers!File!Call, Registers!File!None, NoAccess, CalledWith, A
<1> QED
  BY <1>3 DEF Registers!File!Next

\* The store changes, or is read, at one moment.
LEMMA FileAccess ==
    ASSUME NEW c \in Callers, NEW req \in Requests,
           Registers!AccessOf(c) = CalledWith(req),
           ViewTurns(c, EndedWith(IF req.op = "write" THEN req.value
                                  ELSE Registers!Found(Registers!StoreOf, req))),
           Registers!StoreOf' = StoreIf(Registers!StoreOf, req)
    PROVE  Registers!File!Next
<1> DEFINE A == [d \in Callers |-> Registers!AccessOf(d)]
           v == IF req.op = "write" THEN req.value ELSE Registers!Found(Registers!StoreOf, req)
<1>1. A[c].state = "called" /\ A[c].req = req
  BY DEF CalledWith
<1>2. A' = [A EXCEPT ![c] = EndedWith(v)]
  BY AccessesTurn
<1> HIDE DEF A
<1>3. Registers!File!Access(c)
  <2>1. CASE req.op = "write"
    BY <1>1, <1>2, <2>1 DEF Registers!File!Access, A, StoreIf, EndedWith
  <2>2. CASE req.op # "write"
    BY <1>1, <1>2, <2>2 DEF Registers!File!Access, A, StoreIf, EndedWith
  <2> QED
    BY <2>1, <2>2
<1> QED
  BY <1>3 DEF Registers!File!Next

\* The value is returned.
LEMMA FileReturn ==
    ASSUME NEW c \in Callers, NEW value, Registers!AccessOf(c) = EndedWith(value),
           ViewTurns(c, NoAccess), Registers!StoreOf' = Registers!StoreOf
    PROVE  Registers!File!Next
<1> DEFINE A == [d \in Callers |-> Registers!AccessOf(d)]
<1>1. A[c].state = "ended"
  BY DEF EndedWith
<1>2. A' = [A EXCEPT ![c] = NoAccess]
  BY AccessesTurn
<1> HIDE DEF A
<1>3. Registers!File!Return(c)
  BY <1>1, <1>2 DEF Registers!File!Return, Registers!File!None, NoAccess, A
<1> QED
  BY <1>3 DEF Registers!File!Next

\* Nothing is seen.
LEMMA FileRests ==
    ASSUME \A c \in Callers: Registers!AccessOf(c)' = Registers!AccessOf(c),
           Registers!StoreOf' = Registers!StoreOf
    PROVE  UNCHANGED Registers!File!vars
BY DEF Registers!File!vars

\* What is seen of a call that turns while the registers stay.
LEMMA CallSeen ==
    ASSUME NEW c \in Callers, NEW new, CallTurns(c, new),
           \A d \in Callers \ {c}: AccessIn(mem', calls[d]) = AccessIn(mem, calls[d])
    PROVE  ViewTurns(c, AccessIn(mem', new))
<1>1. calls'[c] = new /\ \A d \in Callers \ {c}: calls'[d] = calls[d]
  BY OthersStay
<1>2. Registers!AccessOf(c)' = AccessIn(mem', new)
  BY <1>1, ViewWillBe
<1>3. ASSUME NEW d \in Callers \ {c} PROVE Registers!AccessOf(d)' = Registers!AccessOf(d)
  BY <1>1, ViewIs, ViewWillBe
<1> QED
  BY <1>2, <1>3 DEF ViewTurns

\* What is seen of the others while one transfers.
LEMMA OthersSeen ==
    ASSUME NEW c \in Callers, OthersRest(c)
    PROVE  /\ \A d \in Callers \ {c}: AccessIn(mem', calls[d]) = AccessIn(mem, calls[d])
           /\ \A d \in Callers \ {c}: calls[d].pc # "shifting"
BY AccessAtRest, RestedCall DEF OthersRest

\* The store while a caller that does not transfer turns.
LEMMA StoreStays ==
    ASSUME RegistersInv, NEW c \in Callers, Rested(calls[c]), NEW new, Rested(new),
           CallTurns(c, new), UNCHANGED mem
    PROVE  Registers!StoreOf' = Registers!StoreOf
<1>1. calls'[c] = new /\ \A d \in Callers \ {c}: calls'[d] = calls[d]
  BY OthersStay
<1>2. CASE ~locked
  <2>1. \A d \in Callers: calls[d].pc # "shifting"
    BY <1>2, RestedCall DEF RegistersInv
  <2>2. \A d \in Callers: calls'[d].pc # "shifting"
    BY <1>1, <2>1, RestedCall
  <2>3. StoreIn(mem, calls) = mem /\ StoreIn(mem', calls') = mem'
    BY <2>1, <2>2, StoreAtRest
  <2> QED
    BY <2>3, ViewIs, ViewWillBe
<1>3. CASE locked
  <2>1. PICK d \in Callers: OthersRest(d) /\ \E req \in Requests: TransferOf(d, req)
    BY <1>3 DEF RegistersInv
  <2>2. PICK req \in Requests: TransferOf(d, req)
    BY <2>1
  <2>3. calls[d].pc = "shifting" /\ calls[d].req = req
    BY <2>2 DEF TransferOf, InTransfer
  <2>4. d # c
    BY <2>3, RestedCall
  <2>5. \A e \in Callers \ {d}: calls[e].pc # "shifting"
    BY <2>1, OthersSeen
  <2>6. calls'[d] = calls[d] /\ \A e \in Callers \ {d}: calls'[e].pc # "shifting"
    BY <1>1, <2>4, <2>5, RestedCall
  <2>7. StoreIn(mem, calls) = StoreIf(mem, req) /\ StoreIn(mem', calls') = StoreIf(mem', req)
    BY <2>3, <2>5, <2>6, StoreInTransfer
  <2> QED
    BY <2>7, ViewIs, ViewWillBe
<1> QED
  BY <1>2, <1>3

\* A call is a call of the file.
LEMMA CallImplements ==
    ASSUME RegistersInv, NEW c \in Callers, NEW req \in Requests, Registers!Call(c, req)
    PROVE  Registers!File!Next
<1>1. /\ calls[c] = Registers!Idle /\ CallTurns(c, Waiting(req))
      /\ UNCHANGED <<mem, chip, locked>>
  BY CallIs
<1>2. Rested(calls[c]) /\ Rested(Waiting(req))
  BY <1>1 DEF Rested
<1>3. Registers!StoreOf' = Registers!StoreOf
  BY <1>1, <1>2, StoreStays
<1>4. ViewTurns(c, AccessIn(mem', Waiting(req)))
  BY <1>1, CallSeen
<1>5. Registers!AccessOf(c) = NoAccess
  <2>1. Registers!AccessOf(c) = AccessIn(mem, calls[c])
    BY ViewIs
  <2> QED
    BY <1>1, <2>1, AccessIdle
<1>6. ViewTurns(c, CalledWith(req))
  <2>1. AccessIn(mem', Waiting(req)) = CalledWith(req)
    BY AccessWaiting
  <2> QED
    BY <1>4, <2>1
<1> QED
  BY <1>3, <1>5, <1>6, FileCall

\* A return is one of the file.
LEMMA ReturnImplements ==
    ASSUME RegistersInv, NEW c \in Callers, Registers!Return(c)
    PROVE  Registers!File!Next
<1>1. PICK value: calls[c] = Over(value)
  BY ReturnIs
<1>2. CallTurns(c, Registers!Idle) /\ UNCHANGED <<mem, chip, locked>>
  BY ReturnIs
<1>3. Rested(calls[c]) /\ Rested(Registers!Idle)
  BY <1>1 DEF Rested
<1>4. Registers!StoreOf' = Registers!StoreOf
  BY <1>2, <1>3, StoreStays
<1>5. ViewTurns(c, AccessIn(mem', Registers!Idle))
  BY <1>2, CallSeen
<1>6. Registers!AccessOf(c) = EndedWith(value)
  <2>1. Registers!AccessOf(c) = AccessIn(mem, calls[c])
    BY ViewIs
  <2>2. AccessIn(mem, Over(value)) = EndedWith(value)
    BY AccessOver
  <2> QED
    BY <1>1, <2>1, <2>2
<1>7. ViewTurns(c, NoAccess)
  <2>1. AccessIn(mem', Registers!Idle) = NoAccess
    BY AccessIdle
  <2> QED
    BY <1>5, <2>1
<1> QED
  BY <1>4, <1>6, <1>7, FileReturn

\* The access happens when the transfer begins.
LEMMA BeginImplements ==
    ASSUME RegistersInv, NEW c \in Callers, Registers!Begin(c)
    PROVE  Registers!File!Next
<1>1. ~locked /\ UNCHANGED mem
  BY BeginIs
<1>2. PICK req \in Requests:
        /\ calls[c] = Waiting(req)
        /\ CallTurns(c, [pc |-> "shifting", req |-> req, in |-> <<>>, out |-> Sent(req)])
  BY BeginIs
<1> DEFINE new == [pc |-> "shifting", req |-> req, in |-> <<>>, out |-> Sent(req)]
<1>3. new.pc = "shifting" /\ new.req = req /\ CallTurns(c, new)
  BY <1>2
<1> HIDE DEF new
<1>4. \A d \in Callers: Rested(calls[d])
  BY <1>1 DEF RegistersInv
<1>5. \A d \in Callers: calls[d].pc # "shifting"
  BY <1>4, RestedCall
<1>6. Registers!StoreOf = mem
  <2>1. StoreIn(mem, calls) = mem
    BY <1>5, StoreAtRest
  <2> QED
    BY <2>1, ViewIs
<1>7. calls'[c] = new /\ \A d \in Callers \ {c}: calls'[d] = calls[d]
  BY <1>3, OthersStay
<1>8. StoreIn(mem', calls') = StoreIf(mem', req)
  BY <1>3, <1>5, <1>7, StoreInTransfer
<1>9. Registers!StoreOf' = StoreIf(Registers!StoreOf, req)
  <2>1. Registers!StoreOf' = StoreIn(mem', calls')
    BY ViewWillBe
  <2> QED
    BY <1>1, <1>6, <1>8, <2>1
<1>10. Registers!AccessOf(c) = CalledWith(req)
  <2>1. Registers!AccessOf(c) = AccessIn(mem, calls[c])
    BY ViewIs
  <2>2. AccessIn(mem, Waiting(req)) = CalledWith(req)
    BY AccessWaiting
  <2> QED
    BY <1>2, <2>1, <2>2
<1>11. ViewTurns(c, AccessIn(mem', new))
  BY <1>1, <1>3, CallSeen
<1>12. AccessIn(mem', new) = EndedWith(IF req.op = "write" THEN req.value
                                      ELSE Registers!Found(Registers!StoreOf, req))
  BY <1>1, <1>3, <1>6, AccessInTransfer
<1> QED
  BY <1>9, <1>10, <1>11, <1>12, FileAccess

\* Shifts are not seen.
LEMMA ShiftImplements ==
    ASSUME RegistersInv, NEW c \in Callers, Registers!Shift(c)
    PROVE  UNCHANGED Registers!File!vars
<1>1. OthersRest(c)
  BY ShiftIs
<1>2. PICK req \in Requests: Shifted(c, req)
  BY ShiftIs
<1>3. /\ calls[c].pc = "shifting" /\ calls[c].req = req
      /\ calls'[c].pc = "shifting" /\ calls'[c].req = req
  BY <1>2 DEF Shifted, InTransfer
<1>4. CallTurns(c, calls'[c])
  BY <1>2 DEF Shifted
<1>5. \A d \in Callers \ {c}: calls'[d] = calls[d]
  BY <1>4, OthersStay
<1>6. \A d \in Callers \ {c}: calls[d].pc # "shifting" /\ calls'[d].pc # "shifting"
  BY <1>1, <1>5, OthersSeen
<1>7. Registers!StoreOf = StoreIf(mem, req) /\ Registers!StoreOf' = StoreIf(mem', req)
  <2>1. StoreIn(mem, calls) = StoreIf(mem, req)
    <3>1. \A d \in Callers \ {c}: calls[d].pc # "shifting"
      BY <1>6
    <3>2. calls[c].pc = "shifting" /\ calls[c].req = req
      BY <1>3
    <3> QED
      BY <3>1, <3>2, StoreInTransfer
  <2>2. StoreIn(mem', calls') = StoreIf(mem', req)
    <3>1. \A d \in Callers \ {c}: calls'[d].pc # "shifting"
      BY <1>6
    <3>2. calls'[c].pc = "shifting" /\ calls'[c].req = req
      BY <1>3
    <3> QED
      BY <3>1, <3>2, StoreInTransfer
  <2>3. Registers!StoreOf = StoreIn(mem, calls) /\ Registers!StoreOf' = StoreIn(mem', calls')
    BY ViewIs, ViewWillBe
  <2> QED
    BY <2>1, <2>2, <2>3
<1>8. StoreIf(mem', req) = StoreIf(mem, req)
  BY <1>2 DEF Shifted, StoreIf
<1>9. ViewTurns(c, AccessIn(mem', calls'[c]))
  BY <1>1, <1>4, CallSeen, OthersSeen
<1>10. AccessIn(mem', calls'[c]) = AccessIn(mem, calls[c])
  <2>1. /\ AccessIn(mem, calls[c])
             = EndedWith(IF req.op = "write" THEN req.value ELSE Registers!Found(mem, req))
        /\ AccessIn(mem', calls'[c])
             = EndedWith(IF req.op = "write" THEN req.value ELSE Registers!Found(mem', req))
    BY <1>3, AccessInTransfer
  <2>2. req.op # "write" => mem' = mem
    BY <1>2 DEF Shifted
  <2> QED
    BY <2>1, <2>2
<1>11. \A d \in Callers: Registers!AccessOf(d)' = Registers!AccessOf(d)
  BY <1>9, <1>10, ViewIs DEF ViewTurns
<1> QED
  BY <1>7, <1>8, <1>11, FileRests

\* Nor is the end.
LEMMA EndImplements ==
    ASSUME RegistersInv, NEW c \in Callers, Registers!End(c)
    PROVE  UNCHANGED Registers!File!vars
<1>1. OthersRest(c) /\ UNCHANGED mem
  BY EndIs
<1>2. PICK req \in Requests: Finished(c, req)
  BY EndIs
<1> DEFINE value == IF req.op = "write" THEN req.value ELSE Registers!Found(mem, req)
<1>3. CallTurns(c, Over(value)) /\ StoreIf(mem, req) = mem
  BY <1>2 DEF Finished, StoreIf
<1>4. calls[c].pc = "shifting" /\ calls[c].req = req
  BY <1>2 DEF Finished, InTransfer
<1>5. AccessIn(mem, calls[c]) = EndedWith(value)
  BY <1>4, AccessInTransfer
<1> HIDE DEF value
<1>6. calls'[c] = Over(value) /\ \A d \in Callers \ {c}: calls'[d] = calls[d]
  BY <1>3, OthersStay
<1>7. \A d \in Callers \ {c}: calls[d].pc # "shifting"
  BY <1>1, OthersSeen
<1>8. \A d \in Callers: calls'[d].pc # "shifting"
  BY <1>6, <1>7 DEF Over
<1>9. Registers!StoreOf = StoreIf(mem, req) /\ Registers!StoreOf' = mem'
  <2>1. StoreIn(mem, calls) = StoreIf(mem, req)
    BY <1>4, <1>7, StoreInTransfer
  <2>2. StoreIn(mem', calls') = mem'
    BY <1>8, StoreAtRest
  <2>3. Registers!StoreOf = StoreIn(mem, calls) /\ Registers!StoreOf' = StoreIn(mem', calls')
    BY ViewIs, ViewWillBe
  <2> QED
    BY <2>1, <2>2, <2>3
<1>10. ViewTurns(c, AccessIn(mem', Over(value)))
  BY <1>1, <1>3, CallSeen, OthersSeen
<1>11. AccessIn(mem', Over(value)) = AccessIn(mem, calls[c])
  <2>1. AccessIn(mem', Over(value)) = EndedWith(value)
    BY AccessOver
  <2> QED
    BY <1>5, <2>1
<1>12. \A d \in Callers: Registers!AccessOf(d)' = Registers!AccessOf(d)
  BY <1>10, <1>11, ViewIs DEF ViewTurns
<1> QED
  BY <1>1, <1>3, <1>9, <1>12, FileRests

\* Each step of a transfer is one of the file of registers, or seen by nobody.
LEMMA RegistersImplementFile == Registers!Spec => Registers!ImplementsRegisterFile
<1>1. Registers!Init => Registers!File!Init
  <2>1. Registers!Init => Registers!StoreOf = mem
    BY DEF Registers!Init, Registers!StoreOf, Registers!Writers, Registers!Idle
  <2>2. Registers!Init => \A c \in Callers: Registers!AccessOf(c) = [state |-> "none"]
    BY DEF Registers!Init, Registers!AccessOf, Registers!Idle
  <2> QED
    BY <2>1, <2>2 DEF Registers!File!Init, Registers!File!None, Registers!Init
<1>2. RegistersInv /\ [Registers!Next]_(Registers!vars)
        => [Registers!File!Next]_(Registers!File!vars)
  <2> SUFFICES ASSUME RegistersInv, [Registers!Next]_(Registers!vars)
               PROVE  Registers!File!Next \/ UNCHANGED Registers!File!vars
    OBVIOUS
  <2>1. CASE UNCHANGED Registers!vars
    <3>1. mem' = mem /\ calls' = calls
      BY <2>1 DEF Registers!vars
    <3>2. Registers!StoreOf' = Registers!StoreOf
      BY <3>1, ViewIs, ViewWillBe
    <3>3. \A c \in Callers: Registers!AccessOf(c)' = Registers!AccessOf(c)
      BY <3>1, ViewIs, ViewWillBe
    <3> QED
      BY <3>2, <3>3, FileRests
  <2> QED
    BY <2>1, CallImplements, BeginImplements, ShiftImplements, EndImplements, ReturnImplements
    DEF Registers!Next
<1> QED
  BY <1>1, <1>2, RegistersInvariant, PTL
  DEF Registers!Spec, Registers!ImplementsRegisterFile, Registers!File!Spec

\* The registers, by themselves.
LEMMA RegistersRun == ServicesSpec => Registers!Spec
<1>1. ServicesInit => Registers!Init
  BY DEF ServicesInit
<1>2. [ServicesNext]_services => [Registers!Next]_(Registers!vars)
  BY DEF ServicesNext, services, registers, Registers!vars
<1> QED
  BY <1>1, <1>2, PTL DEF ServicesSpec, Registers!Spec

\* The functions that access registers implement RegisterFile: a value is read or
\* written as a whole at one moment, whatever the other callers do and however
\* the bytes of their transfers are shifted.
THEOREM ValuesAreWhole == ServicesSpec => ImplementsRegisterFile
BY RegistersRun, RegistersImplementFile, PTL DEF ImplementsRegisterFile

\* The values of the last bytes of a list, as ValueOf defines them.
Ends(bytes, from) ==
    from = [j \in 1..Len(bytes) + 1 |->
              IF j > Len(bytes) THEN 0 ELSE from[j + 1] * 256 + bytes[j]]

\* A function as in the definition exists, and ValueOf is the first of its values.
LEMMA ValueEnds ==
    ASSUME NEW bytes, NEW g, Ends(bytes, g)
    PROVE  \E from: Ends(bytes, from) /\ Registers!ValueOf(bytes) = from[1]
<1> DEFINE from == CHOOSE h: Ends(bytes, h)
<1>1. Ends(bytes, from)
  OBVIOUS
<1>2. Registers!ValueOf(bytes) = from[1]
  BY DEF Registers!ValueOf, Ends
<1> QED
  BY <1>1, <1>2

\* The value of one byte.
LEMMA ValueOfOne ==
    ASSUME NEW b, Len(b) = 1, b[1] \in Int
    PROVE  Registers!ValueOf(b) = b[1]
<1> DEFINE g == [j \in 1..2 |-> IF j = 2 THEN 0 ELSE b[1]]
<1>1. g[2] = 0 /\ g[1] = g[2] * 256 + b[1]
  OBVIOUS
<1>2. g = [j \in 1..2 |-> IF j > 1 THEN 0 ELSE g[j + 1] * 256 + b[j]]
  <2>1. \A j \in 1..2: (IF j = 2 THEN 0 ELSE b[1]) = IF j > 1 THEN 0 ELSE g[j + 1] * 256 + b[j]
    BY <1>1
  <2> QED
    BY <2>1
<1>3. Ends(b, g)
  BY <1>2 DEF Ends
<1>4. PICK from: Ends(b, from) /\ Registers!ValueOf(b) = from[1]
  BY <1>3, ValueEnds
<1>5. from[2] = 0 /\ from[1] = from[2] * 256 + b[1]
  BY <1>4 DEF Ends
<1> QED
  BY <1>4, <1>5

\* Of two bytes.
LEMMA ValueOfTwo ==
    ASSUME NEW b, Len(b) = 2, b[1] \in Int, b[2] \in Int
    PROVE  Registers!ValueOf(b) = b[2] * 256 + b[1]
<1> DEFINE g == [j \in 1..3 |-> IF j = 3 THEN 0 ELSE IF j = 2 THEN b[2] ELSE b[2] * 256 + b[1]]
<1>1. g[3] = 0 /\ g[2] = g[3] * 256 + b[2] /\ g[1] = g[2] * 256 + b[1]
  OBVIOUS
<1>2. g = [j \in 1..3 |-> IF j > 2 THEN 0 ELSE g[j + 1] * 256 + b[j]]
  <2>1. \A j \in 1..3: g[j] = IF j > 2 THEN 0 ELSE g[j + 1] * 256 + b[j]
    BY <1>1
  <2>2. g = [j \in 1..3 |-> g[j]]
    OBVIOUS
  <2> HIDE DEF g
  <2> QED
    BY <2>1, <2>2
<1> HIDE DEF g
<1>3. Ends(b, g)
  BY <1>2 DEF Ends
<1>4. PICK from: Ends(b, from) /\ Registers!ValueOf(b) = from[1]
  BY <1>3, ValueEnds
<1>5. from = [j \in 1..3 |-> IF j > 2 THEN 0 ELSE from[j + 1] * 256 + b[j]]
  BY <1>4 DEF Ends
<1>6. from[3] = 0 /\ from[2] = from[3] * 256 + b[2] /\ from[1] = from[2] * 256 + b[1]
  BY <1>5
<1> QED
  BY <1>4, <1>6

\* Of four bytes.
LEMMA ValueOfFour ==
    ASSUME NEW b, Len(b) = 4, b[1] \in Int, b[2] \in Int, b[3] \in Int, b[4] \in Int
    PROVE  Registers!ValueOf(b) = ((b[4] * 256 + b[3]) * 256 + b[2]) * 256 + b[1]
<1> DEFINE v4 == b[4]
           v3 == v4 * 256 + b[3]
           v2 == v3 * 256 + b[2]
           v1 == v2 * 256 + b[1]
           g == [j \in 1..5 |-> IF j = 5 THEN 0 ELSE IF j = 4 THEN v4 ELSE IF j = 3 THEN v3
                                ELSE IF j = 2 THEN v2 ELSE v1]
<1>1. /\ g[5] = 0 /\ g[4] = v4 /\ g[3] = v3 /\ g[2] = v2 /\ g[1] = v1
      /\ g = [j \in 1..5 |-> g[j]]
  <2> HIDE DEF v4, v3, v2, v1
  <2> QED
    OBVIOUS
<1> HIDE DEF g
<1>2. g[4] = g[5] * 256 + b[4] /\ g[3] = g[4] * 256 + b[3] /\ g[2] = g[3] * 256 + b[2]
      /\ g[1] = g[2] * 256 + b[1]
  BY <1>1
<1>3. \A j \in 1..5: g[j] = IF j > 4 THEN 0 ELSE g[j + 1] * 256 + b[j]
  BY <1>1, <1>2
<1>4. Ends(b, g)
  BY <1>1, <1>3 DEF Ends
<1>5. PICK from: Ends(b, from) /\ Registers!ValueOf(b) = from[1]
  BY <1>4, ValueEnds
<1>6. from = [j \in 1..5 |-> IF j > 4 THEN 0 ELSE from[j + 1] * 256 + b[j]]
  BY <1>5 DEF Ends
<1>7. /\ from[5] = 0 /\ from[4] = from[5] * 256 + b[4] /\ from[3] = from[4] * 256 + b[3]
      /\ from[2] = from[3] * 256 + b[2] /\ from[1] = from[2] * 256 + b[1]
  BY <1>6
<1> QED
  BY <1>5, <1>7

\* The bytes of a value have the value, as far as it has room in them.
LEMMA BytesHaveValue ==
    ASSUME NEW v \in Nat, NEW n \in {1, 2, 4}
    PROVE  Registers!ValueOf(Registers!BytesOf(v, n)) = v % (256 * Registers!Weight[n])
<1> DEFINE b == Registers!BytesOf(v, n)
<1>1. /\ Registers!Weight[1] = 1 /\ Registers!Weight[2] = 256
      /\ Registers!Weight[3] = 65536 /\ Registers!Weight[4] = 16777216
  BY DEF Registers!Weight
<1>2. Len(b) = n /\ \A j \in 1..n: b[j] = (v \div Registers!Weight[j]) % 256
  BY DEF Registers!BytesOf
<1> HIDE DEF b
<1>3. CASE n = 1
  <2>1. b[1] = v % 256
    BY <1>1, <1>2, <1>3
  <2>2. Registers!ValueOf(b) = b[1]
    BY <1>2, <1>3, <2>1, ValueOfOne
  <2> QED
    BY <1>1, <1>3, <2>1, <2>2 DEF b
<1>4. CASE n = 2
  <2>1. b[1] = v % 256 /\ b[2] = (v \div 256) % 256
    BY <1>1, <1>2, <1>4
  <2>2. Registers!ValueOf(b) = b[2] * 256 + b[1]
    BY <1>2, <1>4, <2>1, ValueOfTwo
  <2>3. ((v \div 256) % 256) * 256 + (v % 256) = v % 65536
    OBVIOUS
  <2> QED
    BY <1>1, <1>4, <2>1, <2>2, <2>3 DEF b
<1>5. CASE n = 4
  <2> DEFINE q1 == v \div 256
             q2 == v \div 65536
             q3 == v \div 16777216
  <2>1. b[1] = v % 256 /\ b[2] = q1 % 256 /\ b[3] = q2 % 256 /\ b[4] = q3 % 256
    BY <1>1, <1>2, <1>5
  <2>2. /\ b[1] \in Int /\ b[2] \in Int /\ b[3] \in Int /\ b[4] \in Int
    BY <2>1
  <2>3. Registers!ValueOf(b) = ((b[4] * 256 + b[3]) * 256 + b[2]) * 256 + b[1]
    BY <1>2, <1>5, <2>2, ValueOfFour
  <2>4. q1 \in Nat /\ q2 \in Nat /\ q3 \in Nat /\ q2 = q1 \div 256 /\ q3 = q2 \div 256
    OBVIOUS
  <2>5. (((q3 % 256) * 256 + (q2 % 256)) * 256 + (q1 % 256)) * 256 + (v % 256)
          = v % (256 * 16777216)
    <3>1. v = q1 * 256 + (v % 256) /\ v % 256 \in 0..255
      OBVIOUS
    <3>2. q1 = q2 * 256 + (q1 % 256) /\ q1 % 256 \in 0..255 /\ q2 = q3 * 256 + (q2 % 256) /\ q2 % 256 \in 0..255
      BY <2>4
    <3>3. q3 = (q3 \div 256) * 256 + (q3 % 256) /\ q3 % 256 \in 0..255 /\ q3 \div 256 \in Int
      BY <2>4
    <3> HIDE DEF q1, q2, q3
    <3> QED
      BY <2>4, <3>1, <3>2, <3>3
  <2> QED
    BY <1>1, <1>5, <2>1, <2>3, <2>5 DEF b
<1> QED
  BY <1>3, <1>4, <1>5

\* What is written is read: with the functions of the same width, at the same
\* place, a value that has room in its bytes comes back, whatever else the
\* registers hold.
THEOREM WrittenIsRead ==
    ASSUME NEW m, IsStore(m), NEW w \in Requests, NEW r \in Requests,
           w.op = "write", w.value < 256 * Registers!Weight[w.n],
           r.file = w.file, r.index = w.index, r.n = w.n
    PROVE  Registers!Found(Registers!Stored(m, w), r) = w.value
<1> DEFINE i == w.index
           n == w.n
           f == w.file
           B == Body(w)
           v == w.value
           m2 == Registers!Stored(m, w)
           found == [j \in 1..n |-> m2[f][i + j - 1]]
<1>1. /\ i \in Nat /\ n \in Nat
  BY RequestNumbers
<1>2. /\ f \in Files /\ n \in {1, 2, 4} /\ \A j \in 1..n: i + j - 1 \in Addresses
  BY RequestFits, Zenon
<1>3. m2 = [g \in Files |-> [a \in Addresses |->
          IF g = f /\ a \in i..i + n - 1 THEN B[a - i + 1] ELSE m[g][a]]]
  <2>1. m2 = StoreWith(m, w)
    BY StoredIs
  <2> QED
    BY <2>1, Zenon DEF StoreWith
<1>4. v \in Nat
  <2>1. Registers!RegistersAssumption
    BY ServicesAssumption
  <2> QED
    BY <2>1, Zenon DEF Registers!RegistersAssumption
<1>5. Registers!Found(m2, r) = Registers!ValueOf(found)
  BY DEF Registers!Found
<1>6. B = Registers!BytesOf(v, n) /\ v < 256 * Registers!Weight[n]
  BY DEF Body
<1>7. B = [j \in 1..n |-> B[j]]
  BY <1>6 DEF Registers!BytesOf
<1> HIDE DEF i, n, f, B, v, m2
<1>8. ASSUME NEW j \in 1..n PROVE m2[f][i + j - 1] = B[j]
  <2> DEFINE a == i + j - 1
  <2>1. a \in i..i + n - 1 /\ a - i + 1 = j
    BY <1>1
  <2>2. a \in Addresses
    BY <1>2
  <2> HIDE DEF a
  <2>3. m2[f][a] = B[j]
    BY <1>2, <1>3, <2>1, <2>2
  <2> QED
    BY <2>3 DEF a
<1>9. found = B
  BY <1>7, <1>8
<1>10. Registers!ValueOf(B) = v % (256 * Registers!Weight[n])
  BY <1>2, <1>4, <1>6, BytesHaveValue
<1>11. v % (256 * Registers!Weight[n]) = v
  <2>1. Registers!Weight[n] \in {1, 256, 16777216}
    BY <1>2 DEF Registers!Weight
  <2> DEFINE W == Registers!Weight[n]
  <2> HIDE DEF W
  <2>2. W \in {1, 256, 16777216} /\ v < 256 * W
    BY <1>6, <2>1 DEF W
  <2>3. v % (256 * W) = v
    BY <1>4, <2>2
  <2> QED
    BY <2>3 DEF W
<1> QED
  BY <1>5, <1>9, <1>10, <1>11 DEF m2, v

-----------------------------------------------------------------------------
(* The shared registers.                                                   *)

\* The fields of the copies and of the wishes.
Shapes ==
    /\ local = [sysCFGreg |-> local.sysCFGreg, longFrames |-> local.longFrames,
                dblbuffon |-> local.dblbuffon, txFCTRL |-> local.txFCTRL]
    /\ wanted = [ready |-> wanted.ready, mode |-> wanted.mode, long |-> wanted.long,
                 types |-> wanted.types, double |-> wanted.double, smart |-> wanted.smart,
                 autoAck |-> wanted.autoAck, timeout |-> wanted.timeout,
                 frame |-> wanted.frame, woken |-> wanted.woken, left |-> wanted.left]

\* While the driver may be used, its copy of SYS_CFG is what the register has,
\* and its copy of TX_FCTRL has the mode and no length but one left there.
CopiesAgree ==
    Config!Ready => /\ local.sysCFGreg = sysCfg
                    /\ local.txFCTRL = [mode |-> wanted.mode, frame |-> wanted.left]

ConfigInv ==
    /\ Shapes
    /\ CopiesAgree
    /\ FieldsAsAsked
    /\ RoutineKnows
    /\ FrameAsAsked

Fields == {"FFE", "RXM110K", "PHR_MODE", "DIS_DRXB", "DIS_STXP", "AUTOACK", "RXWTOE"}

\* A change of one bit leaves the others.
LEMMA OneBit ==
    ASSUME NEW bits, NEW bit \in Fields, NEW on \in BOOLEAN
    PROVE  /\ bit \in Config!Switched(bits, bit, on) <=> on
           /\ \A other \in Fields \ {bit}:
                 other \in Config!Switched(bits, bit, on) <=> other \in bits
           /\ Config!Switched(bits, bit, on) \cap Config!Types = bits \cap Config!Types
<1>1. bit \notin Config!Types
  BY DEF Fields, Config!Types
<1>2. CASE on
  BY <1>1, <1>2, Zenon DEF Config!Switched
<1>3. CASE ~on
  BY <1>1, <1>3, Zenon DEF Config!Switched
<1> QED BY <1>2, <1>3

LEMMA ConfigStarts == Config!Init => ConfigInv
<1> SUFFICES ASSUME Config!Init PROVE ConfigInv
  OBVIOUS
<1>1. Shapes
  BY DEF Config!Init, Shapes, Config!NothingAsked
<1>2. CopiesAgree /\ FieldsAsAsked /\ RoutineKnows /\ FrameAsAsked
  BY ServicesAssumption
  DEF Config!Init, CopiesAgree, FieldsAsAsked, Config!FieldsAsAsked, RoutineKnows,
      Config!RoutineKnows, FrameAsAsked, Config!FrameAsAsked, Config!SysCfgDefault,
      Config!TxFctrlDefault, Config!NothingAsked, Config!Ready, Config!ConfigAssumption
<1> QED BY <1>1, <1>2 DEF ConfigInv

\* Resets, and initialisations of either kind.
LEMMA InitialisationKeeps ==
    ASSUME ConfigInv, \/ Config!SoftReset \/ Config!InitialiseFails
                      \/ Config!Initialise \/ Config!InitialiseAfterWakeUp
    PROVE  ConfigInv'
<1>1. CASE Config!SoftReset \/ Config!Initialise
  <2>1. /\ sysCfg' = {"DIS_DRXB"} /\ txFctrl' = [mode |-> Config!Default, frame |-> {2, 3}]
        /\ \/ local' = local /\ wanted' = Config!NothingAsked
           \/ /\ local' = Config!Copied(sysCfg', txFctrl')
              /\ wanted' = [Config!NothingAsked EXCEPT !.ready = TRUE]
    BY <1>1 DEF Config!SoftReset, Config!Initialise, Config!SysCfgDefault, Config!TxFctrlDefault
  <2>2. Config!Default \notin SlowModes
    BY ServicesAssumption DEF Config!ConfigAssumption
  <2>3. Shapes'
    BY <2>1 DEF ConfigInv, Shapes, Config!NothingAsked, Config!Copied
  <2>4. /\ wanted'.types = {} /\ wanted'.mode = Config!Default /\ ~wanted'.long
        /\ ~wanted'.double /\ wanted'.smart /\ ~wanted'.autoAck /\ ~wanted'.timeout
        /\ wanted'.frame = {} /\ wanted'.left = {2, 3}
        /\ wanted'.ready => local' = Config!Copied(sysCfg', txFctrl')
    BY <2>1 DEF Config!NothingAsked, Config!TxFctrlDefault
  <2>5. FieldsAsAsked'
    BY <2>1, <2>2, <2>4 DEF FieldsAsAsked, Config!FieldsAsAsked
  <2>6. wanted'.ready =>
            /\ local'.txFCTRL = txFctrl' /\ local'.sysCFGreg = sysCfg' /\ local'.longFrames = ("PHR_MODE" \in sysCfg')
            /\ local'.dblbuffon = FALSE
    BY <2>4 DEF Config!Copied
  <2>7. CopiesAgree' /\ FrameAsAsked'
    BY <2>1, <2>4, <2>6 DEF CopiesAgree, FrameAsAsked, Config!FrameAsAsked, Config!Ready
  <2>8. RoutineKnows'
    BY <2>1, <2>6 DEF RoutineKnows, Config!RoutineKnows, Config!Ready
  <2> QED BY <2>3, <2>5, <2>7, <2>8 DEF ConfigInv
<1>2. CASE Config!InitialiseFails \/ Config!InitialiseAfterWakeUp
  <2>1. /\ UNCHANGED <<sysCfg, txFctrl>>
        /\ \/ /\ local' = [local EXCEPT !.dblbuffon = FALSE]
              /\ wanted' = [wanted EXCEPT !.ready = FALSE]
           \/ /\ local' = Config!Copied(sysCfg, txFctrl)
              /\ wanted' = [wanted EXCEPT !.ready = TRUE, !.woken = wanted.double,
                                         !.left = txFctrl.frame]
    BY <1>2 DEF Config!InitialiseFails, Config!InitialiseAfterWakeUp
  <2>2. Shapes'
    BY <2>1 DEF ConfigInv, Shapes, Config!Copied
  <2>3. /\ wanted'.types = wanted.types /\ wanted'.frame = wanted.frame
        /\ wanted'.mode = wanted.mode
        /\ wanted'.long = wanted.long /\ wanted'.double = wanted.double
        /\ wanted'.smart = wanted.smart /\ wanted'.autoAck = wanted.autoAck
        /\ wanted'.timeout = wanted.timeout
    BY <2>1 DEF ConfigInv, Shapes
  <2>4. FieldsAsAsked'
    BY <2>1, <2>3 DEF ConfigInv, FieldsAsAsked, Config!FieldsAsAsked
  <2>5. CopiesAgree' /\ FrameAsAsked'
    <3> DEFINE all == wanted.frame \cup wanted.left
    <3>1. txFctrl' = [mode |-> wanted.mode, frame |-> all] /\ txFctrl.frame = all
      BY <2>1 DEF ConfigInv, FrameAsAsked, Config!FrameAsAsked
    <3>2. ASSUME wanted' = [wanted EXCEPT !.ready = FALSE]
          PROVE  ~wanted'.ready /\ wanted'.left = wanted.left
      BY <3>2 DEF ConfigInv, Shapes
    <3>3. ASSUME wanted' = [wanted EXCEPT !.ready = TRUE, !.woken = wanted.double,
                                          !.left = txFctrl.frame]
          PROVE  wanted'.left = all
      BY <3>1, <3>3 DEF ConfigInv, Shapes
    <3>4. ASSUME local' = Config!Copied(sysCfg, txFctrl)
          PROVE  local'.sysCFGreg = sysCfg' /\ local'.txFCTRL = txFctrl'
      BY <2>1, <3>4 DEF Config!Copied
    <3>5. wanted'.frame = wanted.frame /\ wanted'.mode = wanted.mode
      BY <2>3
    <3>6. CASE wanted' = [wanted EXCEPT !.ready = FALSE]
      BY <3>1, <3>2, <3>5, <3>6 DEF CopiesAgree, FrameAsAsked, Config!FrameAsAsked, Config!Ready
    <3>7. CASE local' = Config!Copied(sysCfg, txFctrl) /\ wanted'.left = all
      <4>1. wanted'.frame \cup wanted'.left = all
        BY <3>5, <3>7
      <4> HIDE DEF all
      <4> QED BY <3>1, <3>4, <3>5, <3>7, <4>1
              DEF CopiesAgree, FrameAsAsked, Config!FrameAsAsked, Config!Ready
    <3> QED BY <2>1, <3>3, <3>6, <3>7
  <2>6. RoutineKnows'
    <3>1. \/ ~wanted'.ready
          \/ /\ local'.longFrames = ("PHR_MODE" \in sysCfg) /\ local'.dblbuffon = FALSE
             /\ wanted'.woken = wanted.double
      <4>1. ASSUME wanted' = [wanted EXCEPT !.ready = FALSE]
            PROVE  ~wanted'.ready
        BY <4>1 DEF ConfigInv, Shapes
      <4>2. ASSUME wanted' = [wanted EXCEPT !.ready = TRUE, !.woken = wanted.double,
                                            !.left = txFctrl.frame]
            PROVE  wanted'.woken = wanted.double
        BY <4>2 DEF ConfigInv, Shapes
      <4>3. ASSUME local' = Config!Copied(sysCfg, txFctrl)
            PROVE  local'.longFrames = ("PHR_MODE" \in sysCfg) /\ local'.dblbuffon = FALSE
        BY <4>3 DEF Config!Copied
      <4> QED BY <2>1, <4>1, <4>2, <4>3
    <3>2. "DIS_DRXB" \in sysCfg <=> ~wanted.double
      BY DEF ConfigInv, FieldsAsAsked, Config!FieldsAsAsked
    <3>3. sysCfg' = sysCfg
      BY <2>1
    <3>4. CASE ~wanted'.ready
      BY <3>4 DEF RoutineKnows, Config!RoutineKnows, Config!Ready
    <3>5. CASE wanted'.ready
      <4>1. /\ local'.longFrames = ("PHR_MODE" \in sysCfg) /\ local'.dblbuffon = FALSE
            /\ wanted'.woken = wanted.double
        BY <3>1, <3>5
      <4> QED BY <3>2, <3>3, <4>1, Zenon DEF RoutineKnows, Config!RoutineKnows
    <3> QED BY <3>4, <3>5
  <2> QED BY <2>2, <2>4, <2>5, <2>6 DEF ConfigInv
<1> QED BY <1>1, <1>2

\* The configuration, and the frames.
LEMMA ConfigureKeeps ==
    ASSUME ConfigInv, NEW mode \in PhyModes, NEW long \in BOOLEAN, Config!Configure(mode, long)
    PROVE  ConfigInv'
<1> DEFINE slow == Config!Switched(local.sysCFGreg, "RXM110K", mode \in SlowModes)
           bits == Config!Switched(slow, "PHR_MODE", long)
           fctrl == [mode |-> mode, frame |-> {}]
<1>1. /\ Config!Ready /\ sysCfg' = bits /\ txFctrl' = fctrl
      /\ local' = [local EXCEPT !.sysCFGreg = bits, !.longFrames = long, !.txFCTRL = fctrl]
      /\ wanted' = [wanted EXCEPT !.mode = mode, !.long = long, !.frame = {}, !.left = {}]
  BY DEF Config!Configure
<1>2. local.sysCFGreg = sysCfg
  BY <1>1 DEF ConfigInv, CopiesAgree
<1>a. (mode \in SlowModes) \in BOOLEAN /\ "RXM110K" \in Fields /\ "PHR_MODE" \in Fields
  BY DEF Fields
<1>3. /\ "RXM110K" \in slow <=> mode \in SlowModes
      /\ \A other \in Fields \ {"RXM110K"}: other \in slow <=> other \in sysCfg
      /\ slow \cap Config!Types = sysCfg \cap Config!Types
  BY <1>2, <1>a, OneBit
<1> HIDE DEF slow
<1>4. /\ "PHR_MODE" \in bits <=> long
      /\ \A other \in Fields \ {"PHR_MODE"}: other \in bits <=> other \in slow
      /\ bits \cap Config!Types = slow \cap Config!Types
  BY <1>a, OneBit
<1> HIDE DEF bits
<1>5. Shapes'
  BY <1>1, <1>4 DEF ConfigInv, Shapes
<1>6. /\ wanted'.types = wanted.types /\ wanted'.mode = mode /\ wanted'.long = long
      /\ wanted'.double = wanted.double /\ wanted'.smart = wanted.smart
      /\ wanted'.autoAck = wanted.autoAck /\ wanted'.timeout = wanted.timeout
      /\ wanted'.frame = {} /\ wanted'.left = {} /\ wanted'.woken = wanted.woken
      /\ local'.sysCFGreg = bits /\ local'.longFrames = long /\ local'.txFCTRL = fctrl
      /\ local'.dblbuffon = local.dblbuffon
  BY <1>1 DEF ConfigInv, Shapes
<1>7. FieldsAsAsked'
  BY <1>1, <1>3, <1>4, <1>6 DEF ConfigInv, FieldsAsAsked, Config!FieldsAsAsked, Fields
<1>8. RoutineKnows'
  BY <1>1, <1>3, <1>4, <1>6 DEF ConfigInv, RoutineKnows, Config!RoutineKnows, Fields
<1>9. CopiesAgree' /\ FrameAsAsked'
  BY <1>1, <1>6 DEF CopiesAgree, FrameAsAsked, Config!FrameAsAsked
<1> QED BY <1>5, <1>7, <1>8, <1>9 DEF ConfigInv

LEMMA FrameKeeps ==
    ASSUME ConfigInv, NEW frame \in Frames, Config!WriteTxFctrl(frame)
    PROVE  ConfigInv'
<1>1. /\ Config!Ready /\ UNCHANGED <<sysCfg, local>>
      /\ txFctrl' = [local.txFCTRL EXCEPT !.frame = @ \cup frame]
      /\ wanted' = [wanted EXCEPT !.frame = frame]
  BY DEF Config!WriteTxFctrl
<1>3. txFctrl' = [mode |-> wanted.mode, frame |-> frame \cup wanted.left]
  <2>1. local.txFCTRL = [mode |-> wanted.mode, frame |-> wanted.left]
    BY <1>1 DEF ConfigInv, CopiesAgree
  <2>2. ASSUME NEW mode, NEW left
        PROVE  [[mode |-> mode, frame |-> left] EXCEPT !.frame = @ \cup frame]
                  = [mode |-> mode, frame |-> left \cup frame]
    OBVIOUS
  <2>3. wanted.left \cup frame = frame \cup wanted.left
    OBVIOUS
  <2>4. txFctrl' = [[mode |-> wanted.mode, frame |-> wanted.left] EXCEPT !.frame = @ \cup frame]
    BY <1>1, <2>1, Zenon
  <2> QED BY <2>2, <2>3, <2>4, Zenon
<1>4. Shapes'
  BY <1>1, <1>3 DEF ConfigInv, Shapes
<1>5. /\ wanted'.types = wanted.types /\ wanted'.mode = wanted.mode /\ wanted'.ready = wanted.ready
      /\ wanted'.long = wanted.long /\ wanted'.double = wanted.double
      /\ wanted'.smart = wanted.smart /\ wanted'.autoAck = wanted.autoAck
      /\ wanted'.timeout = wanted.timeout /\ wanted'.woken = wanted.woken
      /\ wanted'.frame = frame /\ wanted'.left = wanted.left
  BY <1>1 DEF ConfigInv, Shapes
<1>6. CopiesAgree' /\ FrameAsAsked'
  BY <1>1, <1>3, <1>5 DEF ConfigInv, CopiesAgree, FrameAsAsked, Config!FrameAsAsked, Config!Ready
<1>7. FieldsAsAsked' /\ RoutineKnows'
  BY <1>1, <1>5 DEF ConfigInv, FieldsAsAsked, Config!FieldsAsAsked, RoutineKnows,
                    Config!RoutineKnows, Config!Ready
<1> QED BY <1>4, <1>6, <1>7 DEF ConfigInv

\* A function that changes one field in register and copy alike.
LEMMA FieldKeeps ==
    ASSUME ConfigInv, Config!Ready,
           NEW bit \in {"DIS_DRXB", "DIS_STXP", "AUTOACK", "RXWTOE"}, NEW on \in BOOLEAN,
           UNCHANGED txFctrl,
           sysCfg' = Config!Switched(sysCfg, bit, on),
           local' = [local EXCEPT !.sysCFGreg = sysCfg',
                                  !.dblbuffon = IF bit = "DIS_DRXB" THEN ~on ELSE @],
           \/ bit = "DIS_DRXB" /\ wanted' = [wanted EXCEPT !.double = ~on, !.woken = FALSE]
           \/ bit = "DIS_STXP" /\ wanted' = [wanted EXCEPT !.smart = ~on]
           \/ bit = "AUTOACK" /\ wanted' = [wanted EXCEPT !.autoAck = on]
           \/ bit = "RXWTOE" /\ wanted' = [wanted EXCEPT !.timeout = on]
    PROVE  ConfigInv'
<1>1. bit \in Fields
  BY DEF Fields
<1>2. /\ bit \in sysCfg' <=> on
      /\ \A other \in Fields \ {bit}: other \in sysCfg' <=> other \in sysCfg
      /\ sysCfg' \cap Config!Types = sysCfg \cap Config!Types
  BY <1>1, OneBit
<1>3. Shapes'
  BY <1>2 DEF ConfigInv, Shapes
<1>4. /\ wanted'.types = wanted.types /\ wanted'.mode = wanted.mode /\ wanted'.ready = wanted.ready
      /\ wanted'.long = wanted.long /\ wanted'.frame = wanted.frame /\ wanted'.left = wanted.left
      /\ wanted'.double = IF bit = "DIS_DRXB" THEN ~on ELSE wanted.double
      /\ wanted'.woken = IF bit = "DIS_DRXB" THEN FALSE ELSE wanted.woken
      /\ wanted'.smart = IF bit = "DIS_STXP" THEN ~on ELSE wanted.smart
      /\ wanted'.autoAck = IF bit = "AUTOACK" THEN on ELSE wanted.autoAck
      /\ wanted'.timeout = IF bit = "RXWTOE" THEN on ELSE wanted.timeout
  BY DEF ConfigInv, Shapes
<1>5. /\ local'.sysCFGreg = sysCfg' /\ local'.longFrames = local.longFrames
      /\ local'.dblbuffon = (IF bit = "DIS_DRXB" THEN ~on ELSE local.dblbuffon)
      /\ local'.txFCTRL = local.txFCTRL
  BY DEF ConfigInv, Shapes
<1>6. FieldsAsAsked'
  BY <1>2, <1>4 DEF ConfigInv, FieldsAsAsked, Config!FieldsAsAsked, Fields
<1>7. RoutineKnows'
  BY <1>2, <1>4, <1>5 DEF ConfigInv, RoutineKnows, Config!RoutineKnows, Config!Ready, Fields
<1>8. CopiesAgree' /\ FrameAsAsked'
  BY <1>4, <1>5 DEF ConfigInv, CopiesAgree, FrameAsAsked, Config!FrameAsAsked, Config!Ready
<1> QED BY <1>3, <1>6, <1>7, <1>8 DEF ConfigInv

LEMMA FieldsKeep ==
    ASSUME ConfigInv, NEW on \in BOOLEAN,
           \/ Config!SetSmartTxPower(on) \/ Config!SetDblRxBuffMode(on)
           \/ Config!SetRxTimeout(on) \/ (Config!EnableAutoAck /\ on)
    PROVE  ConfigInv'
<1>1. Config!Ready /\ local.sysCFGreg = sysCfg /\ Shapes
  BY DEF ConfigInv, Shapes, CopiesAgree, Config!SetSmartTxPower, Config!SetDblRxBuffMode,
         Config!SetRxTimeout, Config!EnableAutoAck
<1>2. CASE Config!SetSmartTxPower(on)
  <2>1. local' = [local EXCEPT !.sysCFGreg = sysCfg',
                    !.dblbuffon = IF "DIS_STXP" = "DIS_DRXB" THEN ~~on ELSE @]
    BY <1>1, <1>2 DEF Config!SetSmartTxPower
  <2> QED BY <1>1, <1>2, <2>1, FieldKeeps DEF Config!SetSmartTxPower
<1>3. CASE Config!SetDblRxBuffMode(on)
  <2>1. local' = [local EXCEPT !.sysCFGreg = sysCfg',
                    !.dblbuffon = IF "DIS_DRXB" = "DIS_DRXB" THEN ~~on ELSE @]
    BY <1>1, <1>3 DEF Config!SetDblRxBuffMode
  <2> QED BY <1>1, <1>3, <2>1, FieldKeeps DEF Config!SetDblRxBuffMode
<1>4. CASE Config!SetRxTimeout(on)
  <2>1. local' = [local EXCEPT !.sysCFGreg = sysCfg',
                    !.dblbuffon = IF "RXWTOE" = "DIS_DRXB" THEN ~on ELSE @]
    BY <1>1, <1>4 DEF Config!SetRxTimeout
  <2> QED BY <1>1, <1>4, <2>1, FieldKeeps DEF Config!SetRxTimeout
<1>5. CASE Config!EnableAutoAck /\ on
  <2>1. local' = [local EXCEPT !.sysCFGreg = sysCfg',
                    !.dblbuffon = IF "AUTOACK" = "DIS_DRXB" THEN ~on ELSE @]
    BY <1>1, <1>5 DEF Config!EnableAutoAck
  <2> QED BY <1>1, <1>5, <2>1, FieldKeeps DEF Config!EnableAutoAck
<1> QED BY <1>2, <1>3, <1>4, <1>5

\* The filter of frames.
LEMMA FilterKeeps ==
    ASSUME ConfigInv, NEW mask \in Masks, Config!EnableFrameFilter(mask)
    PROVE  ConfigInv'
<1>1. /\ Config!Ready /\ UNCHANGED txFctrl
      /\ sysCfg' = IF mask # {} THEN (sysCfg \ Config!Types) \cup mask \cup {"FFE"}
                   ELSE sysCfg \ {"FFE"}
      /\ local' = [local EXCEPT !.sysCFGreg = sysCfg']
      /\ wanted' = [wanted EXCEPT !.types = mask]
  BY DEF Config!EnableFrameFilter
<1>2. mask \in SUBSET Config!Types
  BY ServicesAssumption DEF Config!ConfigAssumption
<1>4. /\ "FFE" \in sysCfg' <=> mask # {}
      /\ mask # {} => sysCfg' \cap Config!Types = mask
      /\ \A other \in Fields \ {"FFE"}: other \in sysCfg' <=> other \in sysCfg
  BY <1>1, <1>2 DEF Config!Types, Fields
<1>5. Shapes'
  BY <1>1 DEF ConfigInv, Shapes
<1>6. /\ wanted'.types = mask /\ wanted'.mode = wanted.mode /\ wanted'.ready = wanted.ready
      /\ wanted'.long = wanted.long /\ wanted'.double = wanted.double
      /\ wanted'.smart = wanted.smart /\ wanted'.autoAck = wanted.autoAck
      /\ wanted'.timeout = wanted.timeout /\ wanted'.woken = wanted.woken
      /\ wanted'.frame = wanted.frame /\ wanted'.left = wanted.left
      /\ local'.sysCFGreg = sysCfg' /\ local'.longFrames = local.longFrames
      /\ local'.dblbuffon = local.dblbuffon /\ local'.txFCTRL = local.txFCTRL
  BY <1>1 DEF ConfigInv, Shapes
<1>7. FieldsAsAsked'
  BY <1>4, <1>6 DEF ConfigInv, FieldsAsAsked, Config!FieldsAsAsked, Fields
<1>8. RoutineKnows'
  BY <1>1, <1>4, <1>6 DEF ConfigInv, RoutineKnows, Config!RoutineKnows, Config!Ready, Fields
<1>9. CopiesAgree' /\ FrameAsAsked'
  BY <1>1, <1>6 DEF ConfigInv, CopiesAgree, FrameAsAsked, Config!FrameAsAsked, Config!Ready
<1> QED BY <1>5, <1>7, <1>8, <1>9 DEF ConfigInv

\* The invariant of the shared registers: while the driver may be used its copies are what
\* the registers have, and the copy the frames start from has no length but one left there.
THEOREM ConfigInvariant == Config!Spec => []ConfigInv
<1>1. ConfigInv /\ [Config!Next]_(Config!vars) => ConfigInv'
  <2> SUFFICES ASSUME ConfigInv, [Config!Next]_(Config!vars) PROVE ConfigInv'
    OBVIOUS
  <2>1. CASE Config!SoftReset \/ Config!InitialiseFails \/ Config!Initialise
             \/ Config!InitialiseAfterWakeUp
    BY <2>1, InitialisationKeeps
  <2>2. ASSUME NEW mode \in PhyModes, NEW long \in BOOLEAN, Config!Configure(mode, long)
        PROVE  ConfigInv'
    BY <2>2, ConfigureKeeps
  <2>3. ASSUME NEW frame \in Frames, Config!WriteTxFctrl(frame) PROVE ConfigInv'
    BY <2>3, FrameKeeps
  <2>4. ASSUME NEW mask \in Masks, Config!EnableFrameFilter(mask) PROVE ConfigInv'
    BY <2>4, FilterKeeps
  <2>5. ASSUME NEW on \in BOOLEAN,
               \/ Config!SetSmartTxPower(on) \/ Config!SetDblRxBuffMode(on)
               \/ Config!SetRxTimeout(on)
        PROVE  ConfigInv'
    BY <2>5, FieldsKeep
  <2>6. CASE Config!EnableAutoAck
    <3>1. TRUE \in BOOLEAN
      OBVIOUS
    <3> QED BY <2>6, <3>1, FieldsKeep
  <2>7. CASE UNCHANGED Config!vars
    <3>1. UNCHANGED <<sysCfg, txFctrl, local, wanted>>
      BY <2>7 DEF Config!vars
    <3> QED BY <3>1 DEF ConfigInv, Shapes, CopiesAgree, FieldsAsAsked, Config!FieldsAsAsked,
                        RoutineKnows, Config!RoutineKnows, FrameAsAsked, Config!FrameAsAsked,
                        Config!Ready
  <2> QED BY <2>1, <2>2, <2>3, <2>4, <2>5, <2>6, <2>7 DEF Config!Next
<1> QED BY <1>1, ConfigStarts, PTL DEF Config!Spec

\* The services contain a behaviour of the shared registers.
LEMMA ConfigRuns == ServicesSpec => Config!Spec
<1>1. ServicesInit => Config!Init
  BY DEF ServicesInit
<1>2. [ServicesNext]_services => [Config!Next]_(Config!vars)
  BY DEF ServicesNext, services, config, Config!vars, registers, clocks, sleep
<1> QED
  BY <1>1, <1>2, PTL DEF ServicesSpec, Config!Spec

\* Whichever functions the client calls in whatever order, also over wake-ups: each field
\* of SYS_CFG is as it was asked for last, none is undone by a copy that is out of date;
\* the routine knows of long frames and double buffering, but for double buffering from
\* before a wake-up at which the driver was initialised; and every frame is sent with its
\* own length, to which one from before the wake-up is added until dwt_configure is called.
THEOREM RegistersAreAsAsked == ServicesSpec => []RegistersAsAsked
<1>1. ConfigInv => RegistersAsAsked
  BY DEF ConfigInv, RegistersAsAsked, Config!RegistersAsAsked, FieldsAsAsked, RoutineKnows,
         FrameAsAsked
<1> QED BY <1>1, ConfigInvariant, ConfigRuns, PTL
=============================================================================
