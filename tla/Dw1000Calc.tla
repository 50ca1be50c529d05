----------------------------- MODULE Dw1000Calc -----------------------------
(***************************************************************************)
(* The computations of the DW1000 driver and of two-way ranging: the range *)
(* bias, the correction of the transmitter's bandwidth and power over      *)
(* temperature, and the timestamps of an exchange.  A loop of the code is  *)
(* an action that is taken once per iteration.                             *)
(*                                                                         *)
(* In the code a timestamp has five digits to the base 256; the base is a  *)
(* parameter, as are the delays.                                           *)
(***************************************************************************)
EXTENDS Dw1000Tables, FiniteSets

CONSTANTS
  Quarters,       \* ranges, truncated to units of 25 cm
  Counts,         \* what the pulse generator can count, by its setting
  Targets,        \* counts to reach
  Deltas,         \* differences of two raw temperatures, each a byte
  Bytes,          \* bytes of TX_POWER
  Base,           \* base of a digit of a timestamp
  ReplyDelay,     \* UUS_TO_DWT_TIME * SS_POLL_RX_RESP_TX_DLY_UUS
  AntennaDelay,   \* TX_ANT_DLY
  Times,          \* times at which a poll arrives
  Flights         \* times of flight

ASSUME CalcAssumption ==
  /\ Base \in Nat /\ Base > 1
  /\ ReplyDelay \in Nat /\ AntennaDelay \in Nat
  /\ ReplyDelay >= 2 * Base
  /\ Deltas \subseteq -255..255 /\ Bytes \subseteq 0..255
  /\ Quarters \subseteq Int /\ Targets \subseteq Int
  /\ Times \subseteq Int /\ Flights \subseteq Nat

\* The search over the settings of the pulse generator presupposes that the
\* count does not rise with the setting.
ASSUME CountsFall ==
  \A count \in Counts: /\ count \in [128..255 -> Int]
                       /\ \A a, b \in 128..255: a <= b => count[a] >= count[b]

VARIABLE calc     \* the computation under way: fn, done, and its variables

None == [fn |-> "none", done |-> TRUE]

Init == calc = None

Runs(fn) == calc.fn = fn /\ ~calc.done

-----------------------------------------------------------------------------
\* Mutant of GetRangeBias: the range is not brought into the table.
GetRangeBiasUncapped(chan, prf, quarters) ==
    /\ calc' = [fn |-> "bias", done |-> FALSE, chan |-> chan, prf |-> prf,
                quarters |-> quarters, i |-> 0]

\* dwt_getrangebias.  All rows end in 255: a longer range is cut.
GetRangeBias(chan, prf, quarters) ==
    /\ calc' = [fn |-> "bias", done |-> FALSE, chan |-> chan, prf |-> prf,
                quarters |-> IF quarters > 255 THEN 255 ELSE quarters, i |-> 0]

Row == BiasRow(calc.chan, calc.prf)

Beyond == calc.quarters > At(Row, calc.i)

Look ==
    /\ Runs("bias")
    /\ calc' = IF Beyond THEN [calc EXCEPT !.i = @ + 1] ELSE [calc EXCEPT !.done = TRUE]

\* Correction in centimetres.
Bias == calc.i + BiasOffset(calc.chan, calc.prf)

-----------------------------------------------------------------------------
\* dwt_calcbandwidthtempadj: a bitwise search over the seven lower bits of
\* PG_DELAY.  bit is the bit tried last.
LargestDifference == 300

CalcBandwidthTempAdj(count, target) ==
    /\ calc' = [fn |-> "bandwidth", done |-> FALSE, count |-> count, target |-> target,
                bw |-> 128, bit |-> 128, best |-> 0, lowest |-> LargestDifference]

Distance(a, b) == IF a > b THEN a - b ELSE b - a

\* Mutant of Test: the count rises with the setting.
TestReversed ==
    LET bit == calc.bit \div 2
        bw == calc.bw + bit
        raw == calc.count[bw]
        delta == Distance(raw, calc.target)
    IN  /\ Runs("bandwidth")
        /\ calc' = [calc EXCEPT !.bit = bit, !.done = bit = 1,
                                !.bw = IF raw < calc.target THEN bw ELSE bw - bit,
                                !.best = IF delta < calc.lowest THEN bw ELSE @,
                                !.lowest = IF delta < @ THEN delta ELSE @]

Test ==
    LET bit == calc.bit \div 2
        bw == calc.bw + bit
        raw == calc.count[bw]
        delta == Distance(raw, calc.target)
    IN  /\ Runs("bandwidth")
        /\ calc' = [calc EXCEPT !.bit = bit, !.done = bit = 1,
                                !.bw = IF raw > calc.target THEN bw ELSE bw - bit,
                                !.best = IF delta < calc.lowest THEN bw ELSE @,
                                !.lowest = IF delta < @ THEN delta ELSE @]

-----------------------------------------------------------------------------
\* dwt_calcpowertempadj and, for one byte of the register,
\* _dwt_computetxpowersetting: bits 7 to 5 are the attenuation of the driver
\* amplifier, bits 4 to 0 the gain of the mixer; one step of the attenuation
\* weighs as much as five of the gain.
TEMP_COMP_FACTOR == [c \in {2, 5} |-> IF c = 5 THEN 607 ELSE 327]
MIX_DA_FACTOR == 5
BestGains == 4..20

PowerDifference(chan, delta) ==
    IF delta < 0 THEN -((-delta * TEMP_COMP_FACTOR[chan]) \div 4096)
                 ELSE (delta * TEMP_COMP_FACTOR[chan]) \div 4096

CalcPowerTempAdj(chan, delta, byte) ==
    /\ LET adj == PowerDifference(chan, delta)
       IN  calc' = [fn |-> "power", done |-> adj = 0, adj |-> adj,
                    da |-> byte \div 32, gain |-> byte % 32, daChange |-> 0, gainChange |-> adj]

Gain == calc.gain + calc.gainChange

\* Mutant of LowerAttenuation: the best of the high gains is not used.
LowerAttenuationEarly ==
    /\ Runs("power") /\ Gain >= 20
    /\ calc' = IF calc.daChange - 1 = 0
               THEN [calc EXCEPT !.daChange = 1, !.done = TRUE]
               ELSE [calc EXCEPT !.daChange = @ - 1, !.gainChange = @ - MIX_DA_FACTOR]

\* The attenuation is decreased when the gain is too high and increased when
\* it is too low.  What is compared with its limits is the change.
LowerAttenuation ==
    /\ Runs("power") /\ Gain > 20
    /\ calc' = IF calc.daChange - 1 = 0
               THEN [calc EXCEPT !.daChange = 1, !.done = TRUE]
               ELSE [calc EXCEPT !.daChange = @ - 1, !.gainChange = @ - MIX_DA_FACTOR]

RaiseAttenuation ==
    /\ Runs("power") /\ Gain < 4
    /\ calc' = IF calc.daChange + 1 = 8
               THEN [calc EXCEPT !.daChange = 7, !.done = TRUE]
               ELSE [calc EXCEPT !.daChange = @ + 1, !.gainChange = @ + MIX_DA_FACTOR]

Settle ==
    /\ Runs("power") /\ Gain \in BestGains
    /\ calc' = [calc EXCEPT !.done = TRUE]

\* The new byte of the register.
NewAttenuation == (calc.da + calc.daChange) % 8
NewGain == Gain % 32

-----------------------------------------------------------------------------
\* An exchange.  The counter of a transceiver has five digits; delayed
\* transmission is programmed without the last one and without bit 0 of the
\* rest; a response carries the last four digits of two timestamps.
Lower == Base * Base * Base * Base
Wrap == Base * Lower

\* The four digits that are sent are enough for the length of an exchange.
ASSUME ExchangesFit ==
  \A flight \in Flights: ReplyDelay + AntennaDelay + 2 * flight < Lower

TS_TO_DT(ts) == LET dt == (ts \div Base) % Lower IN dt - (dt % 2)
DT_TO_TS(dt) == dt * Base

\* The response of the anchor (uwb_anchor_twr_ss) to a poll at the given time:
\* the time at which it is sent, and the two timestamps in it.
SendingTime(time) ==
    LET dt == TS_TO_DT((time % Wrap) + ReplyDelay)
        wait == (DT_TO_TS(dt) - (time % Wrap)) % Wrap
    IN  time + wait + AntennaDelay

Response(time) ==
    LET ts == time % Wrap
        dt == TS_TO_DT(ts + ReplyDelay)
    IN  [poll |-> ts % Lower, sent |-> (DT_TO_TS(dt) + AntennaDelay) % Lower]

\* Mutant of Elapsed: the difference is not reduced to 32 bits.
ElapsedUnreduced(from, to) == to - from

\* The difference of two 32 bit timestamps.
Elapsed(from, to) == (to - from) % Lower

\* uwb_tag_twr_ss.  offset is the time of the tag's counter ahead of the
\* anchor's; the two run equally fast here.
Exchange(time, flight, offset) ==
    LET response == Response(time)
        pollSent == (time - flight + offset) % Lower
        received == (SendingTime(time) + flight + offset) % Lower
    IN  calc' = [fn |-> "exchange", done |-> TRUE, flight |-> flight,
                 interval |-> SendingTime(time) - time,
                 tag |-> Elapsed(pollSent, received),
                 anchor |-> Elapsed(response.poll, response.sent)]

-----------------------------------------------------------------------------
Return == calc # None /\ calc.done /\ calc' = None

\* One computation at a time.
Call ==
    /\ calc = None
    /\ \/ \E chan \in Channels, prf \in {DWT_PRF_16M, DWT_PRF_64M}, q \in Quarters:
             GetRangeBias(chan, prf, q)
       \/ \E count \in Counts, target \in Targets: CalcBandwidthTempAdj(count, target)
       \/ \E chan \in {2, 5}, delta \in Deltas, byte \in Bytes: CalcPowerTempAdj(chan, delta, byte)
       \/ \E time, offset \in Times, flight \in Flights: Exchange(time, flight, offset)

Next == \/ Call
        \/ Look
        \/ Test
        \/ LowerAttenuation
        \/ RaiseAttenuation
        \/ Settle
        \/ Return

Spec == Init /\ [][Next]_calc

-----------------------------------------------------------------------------
\* The loop of dwt_getrangebias has no bound of its own: it stays in the row
\* because all rows end in 255 and the range is at most that,
LookupInRow == calc.fn = "bias" => calc.i \in 0..Len(Row) - 1

\* and the bias it finds is one centimetre for each entry of the row that the
\* range exceeds, so it does not fall when the range grows.
BiasFound ==
    /\ LookupInRow
    /\ calc.fn = "bias" /\ calc.done =>
          calc.i = Cardinality({k \in DOMAIN Row: Row[k] < calc.quarters})

\* When the count falls with the setting, the search over seven bits finds one
\* of the best settings there are, if any is good enough, without trying all.
BestBandwidth ==
    calc.fn = "bandwidth" /\ calc.done =>
        LET Off(bw) == Distance(calc.count[bw], calc.target)
        IN  IF \E bw \in 129..255: Off(bw) < LargestDifference
            THEN calc.best \in 129..255 /\ \A bw \in 129..255: Off(calc.best) <= Off(bw)
            ELSE calc.best = 0

\* The power of a setting, in the unit of the gain.
PowerOf(attenuation, gain) == gain - MIX_DA_FACTOR * attenuation

\* The byte that is written has the power of the byte there was, changed by
\* what was asked for, and one of the best gains, whenever any byte has both:
\* the loop, which tries one attenuation after the other, finds it, and
\* neither field is cut.  When nothing is to be changed the byte stays.
PowerKept ==
    calc.fn = "power" /\ calc.done =>
        LET target == PowerOf(calc.da, calc.gain) + calc.adj
        IN  IF calc.adj = 0 THEN NewAttenuation = calc.da /\ NewGain = calc.gain
            ELSE (\E a \in 0..7, g \in BestGains: PowerOf(a, g) = target)
                    => PowerOf(NewAttenuation, NewGain) = target /\ NewGain \in BestGains

\* The attenuation stops at its limits, as the comments of the code say, and
\* does not wrap around to the other end of its range.
AttenuationStops ==
    calc.fn = "power" /\ calc.done => calc.da + calc.daChange \in 0..7

\* The difference of two truncated timestamps is the time that has passed,
\* wherever the counters of the two ends wrap in between, and the response is
\* sent no more than two digits of the programmable time early.
TimesAgree ==
    calc.fn = "exchange" =>
        /\ calc.anchor = calc.interval
        /\ calc.tag = calc.interval + 2 * calc.flight
        /\ calc.interval - AntennaDelay \in ReplyDelay - 2 * Base + 1..ReplyDelay
=============================================================================
