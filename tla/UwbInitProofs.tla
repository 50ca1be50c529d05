---------------------------- MODULE UwbInitProofs ----------------------------
(***************************************************************************)
(* Proofs of the safety properties of UwbInit: for every timeout, every    *)
(* set of wake-ups, and any number of attempts and restarts.               *)
(***************************************************************************)
EXTENDS UwbInit, TLAPS

LEMMA ClockTypes ==
    ASSUME NEW clk \in Clocks, NEW c \in {"ENABLE_ALL_SEQ", "FORCE_SYS_XTI", "FORCE_LDE"}
    PROVE  EnableClocks(clk, c) \in Clocks
BY DEF EnableClocks, Clocks, Automatic

LEMMA ResetTypes ==
    ASSUME NEW p \in {"off", "starting", "ready"}
    PROVE  ResetChip(p) \in Chips
BY DEF ResetChip, Chips, Clocks, SysCfgs, Automatic, DefaultCfg, Words

LEMMA SameChip ==
    ASSUME NEW c \in Chips, NEW d \in Chips,
           c.power = d.power, c.pll = d.pll, c.clk = d.clk, c.seq = d.seq,
           c.cfg = d.cfg, c.radio = d.radio, c.addressed = d.addressed,
           c.code = d.code, c.run = d.run, c.ldo = d.ldo, c.trim = d.trim
    PROVE  c = d
BY DEF Chips

LEMMA Started ==
    ASSUME NEW c \in Chips, c = ResetChip("starting")
    PROVE  [c EXCEPT !.power = "ready"] = ResetChip("ready")
<1> DEFINE d == [c EXCEPT !.power = "ready"]
           r == ResetChip("ready")
<1>1. d \in Chips /\ r \in Chips
  BY ResetTypes DEF Chips
<1>2. /\ d.power = r.power /\ d.pll = r.pll /\ d.clk = r.clk /\ d.seq = r.seq
      /\ d.cfg = r.cfg /\ d.radio = r.radio /\ d.addressed = r.addressed
      /\ d.code = r.code /\ d.run = r.run /\ d.ldo = r.ldo /\ d.trim = r.trim
  <2>1. /\ r.power = "ready" /\ r.pll = FALSE /\ r.clk = Automatic /\ r.seq = TRUE
        /\ r.cfg = DefaultCfg /\ r.radio = "default" /\ r.addressed = FALSE
        /\ r.code = FALSE /\ r.run = TRUE /\ r.ldo = FALSE /\ r.trim = "default"
    BY DEF ResetChip
  <2>2. /\ c.pll = FALSE /\ c.clk = Automatic /\ c.seq = TRUE
        /\ c.cfg = DefaultCfg /\ c.radio = "default" /\ c.addressed = FALSE
        /\ c.code = FALSE /\ c.run = TRUE /\ c.ldo = FALSE /\ c.trim = "default"
    BY DEF ResetChip
  <2>3. /\ d.power = "ready" /\ d.pll = c.pll /\ d.clk = c.clk /\ d.seq = c.seq
        /\ d.cfg = c.cfg /\ d.radio = c.radio /\ d.addressed = c.addressed
        /\ d.code = c.code /\ d.run = c.run /\ d.ldo = c.ldo /\ d.trim = c.trim
    BY DEF Chips
  <2> HIDE DEF d, r
  <2> QED BY <2>1, <2>2, <2>3
<1> HIDE DEF d, r
<1>3. d = r
  BY <1>1, <1>2, SameChip
<1> QED BY <1>3 DEF d, r

LEMMA ReadingTypes ==
    ASSUME NEW word \in Words
    PROVE  Readings(word) \subseteq Words
BY DEF Readings, Words

LEMMA Constants == Timeout \in Nat /\ MaxRestarts \in Nat
BY UwbInitAssumption

LEMMA TypeInit == Init => TypeOK
<1> SUFFICES ASSUME Init PROVE TypeOK
  OBVIOUS
<1>1. local \in Locals
  BY DEF Init, ZeroLocal, Locals, ZeroCfg, SysCfgs
<1>2. chip \in Chips /\ wanted \in Modes /\ config \subseteq Flags /\ pc \in {"pin", "devid"}
  <2>1. CASE SwitchedOn
    BY <2>1, ResetTypes DEF SwitchedOn
  <2>2. CASE Woken
    <3>1. ResetChip("ready") \in Chips
      BY ResetTypes
    <3>2. [base |-> TRUE, r110 |-> wanted = "ds", ff |-> TRUE] \in SysCfgs
      BY DEF SysCfgs
    <3>3. PICK code \in BOOLEAN, ldo \in BOOLEAN, trim \in {"value", "midrange"}:
            chip = [ResetChip("ready") EXCEPT
                      !.pll = TRUE, !.radio = wanted, !.addressed = TRUE,
                      !.cfg = [base |-> TRUE, r110 |-> wanted = "ds", ff |-> TRUE],
                      !.code = code, !.run = code, !.ldo = ldo, !.trim = trim]
      BY <2>2 DEF Woken
    <3>4. wanted \in Modes
      BY <2>2 DEF Woken
    <3>5. chip \in Chips
      <4> DEFINE cfg == [base |-> TRUE, r110 |-> wanted = "ds", ff |-> TRUE]
                 woken == [ResetChip("ready") EXCEPT !.pll = TRUE, !.radio = wanted,
                                                     !.addressed = TRUE, !.cfg = cfg]
      <4>1. woken \in Chips
        <5> HIDE DEF cfg
        <5> QED
          BY <3>1, <3>2, <3>4 DEF Chips, cfg
      <4>2. chip = [woken EXCEPT !.code = code, !.run = code, !.ldo = ldo, !.trim = trim]
        BY <3>3
      <4> HIDE DEF woken
      <4> QED
        BY <4>1, <4>2 DEF Chips, Words
    <3> QED BY <2>2, <3>4, <3>5, UwbInitAssumption DEF Woken
  <2> QED BY <2>1, <2>2 DEF Init
<1>3. elapsed \in 0..Timeout /\ restarts \in 0..MaxRestarts
  BY Constants DEF Init
<1>4. res \in BOOLEAN
  BY DEF Init
<1> QED BY <1>1, <1>2, <1>3, <1>4 DEF Init, TypeOK

LEMMA TypeStep == ASSUME TypeOK, [Next]_vars PROVE TypeOK'
<1> USE Constants DEF TypeOK
<1>1. CASE ReadDevId /\ UNCHANGED <<spi, wanted, mode, elapsed, restarts>>
  BY <1>1 DEF ReadDevId, Locals
<1>2. CASE DisableSequencing /\ UNCHANGED <<spi, wanted, mode, elapsed, restarts>>
  BY <1>2, ClockTypes DEF DisableSequencing, Chips
<1>3. CASE ResetAll /\ UNCHANGED <<spi, wanted, mode, elapsed, restarts>>
  BY <1>3, ResetTypes DEF ResetAll, Chips
<1>4. CASE ForceCrystal /\ UNCHANGED <<spi, wanted, mode, elapsed, restarts>>
  BY <1>4, ClockTypes DEF ForceCrystal, Chips
<1>5. CASE TuneLdo /\ UNCHANGED <<spi, wanted, mode, elapsed, restarts>>
  <2>1. PICK kicked \in BOOLEAN:
          /\ local' = [local EXCEPT !.sleep = IF kicked THEN @ \cup {"LLDO"} ELSE @]
          /\ chip' = [chip EXCEPT !.ldo = kicked]
    BY <1>5 DEF TuneLdo, Chips
  <2>2. local' \in Locals
    BY <2>1 DEF Locals
  <2>3. chip' \in Chips
    BY <2>1 DEF Chips
  <2> QED BY <1>5, <2>2, <2>3 DEF TuneLdo
<1>6. CASE TrimCrystal /\ UNCHANGED <<spi, wanted, mode, elapsed, restarts>>
  BY <1>6, ReadingTypes DEF TrimCrystal, Chips, Locals, Words
<1>7. CASE ReadIds /\ UNCHANGED <<spi, wanted, mode, elapsed, restarts>>
  BY <1>7, ReadingTypes DEF ReadIds, Locals, Words
<1>8. CASE SetUpCode /\ UNCHANGED <<spi, wanted, mode, elapsed, restarts>>
  <2>1. local' \in Locals
    BY <1>8 DEF SetUpCode, Locals
  <2>2. chip' \in Chips
    <3> DEFINE clk == EnableClocks(chip.clk, "FORCE_LDE")
    <3>1. clk \in Clocks
      BY ClockTypes DEF Chips
    <3>2. \/ chip' = chip
          \/ chip' = [chip EXCEPT !.clk = clk]
          \/ chip' = [chip EXCEPT !.run = FALSE]
      BY <1>8 DEF SetUpCode
    <3> HIDE DEF clk
    <3>3. [chip EXCEPT !.clk = clk] \in Chips
      BY <3>1 DEF Chips
    <3>4. [chip EXCEPT !.run = FALSE] \in Chips
      BY DEF Chips
    <3> QED BY <3>2, <3>3, <3>4
  <2> QED BY <1>8, <2>1, <2>2 DEF SetUpCode
<1>9. CASE LoadUcode /\ UNCHANGED <<spi, wanted, mode, elapsed, restarts>>
  BY <1>9, ClockTypes DEF LoadUcode, Chips, Locals, Clocks
<1>10. CASE SequenceClocks /\ UNCHANGED <<spi, wanted, mode, elapsed, restarts>>
  BY <1>10, ClockTypes DEF SequenceClocks, Chips
<1>11. CASE CopyRegisters /\ UNCHANGED <<spi, wanted, mode, elapsed, restarts>>
  <2>1. local' \in Locals
    BY <1>11 DEF CopyRegisters, Chips, Locals
  <2> QED BY <1>11, <2>1 DEF CopyRegisters
<1>12. CASE PullReset \/ ReleaseReset \/ SlowRate \/ Attempted \/ FastRate \/ SetMode
  BY <1>12, ResetTypes DEF PullReset, ReleaseReset, SlowRate, Attempted, FastRate, SetMode, Later, Flags
<1>13. CASE ConfigureSystem
  <2>1. local' \in Locals
    BY <1>13 DEF ConfigureSystem, Locals, SysCfgs
  <2>2. chip' \in Chips
    BY <1>13, <2>1 DEF ConfigureSystem, Chips, Locals
  <2> QED BY <1>13, <2>1, <2>2 DEF ConfigureSystem
<1>14. CASE ConfigureRadio \/ SetAddresses
  <2>1. CASE ConfigureRadio
    <3>1. [local EXCEPT !.fctrl = wanted] \in Locals
      BY DEF Locals
    <3>2. [chip EXCEPT !.radio = wanted] \in Chips
      BY DEF Chips
    <3> QED BY <2>1, <3>1, <3>2 DEF ConfigureRadio
  <2>2. CASE SetAddresses
    <3>1. [chip EXCEPT !.addressed = TRUE] \in Chips
      BY DEF Chips
    <3> QED BY <2>2, <3>1 DEF SetAddresses
  <2> QED BY <1>14, <2>1, <2>2
<1>15. CASE EnableFrameFilter
  <2>1. local' \in Locals
    BY <1>15 DEF EnableFrameFilter, Chips, Locals, SysCfgs
  <2>2. chip' \in Chips
    BY <1>15, <2>1 DEF EnableFrameFilter, Chips, Locals
  <2> QED BY <1>15, <2>1, <2>2 DEF EnableFrameFilter
<1>16. CASE Restart
  <2>1. local' \in Locals
    BY <1>16 DEF Restart, ZeroLocal, Locals, ZeroCfg, SysCfgs
  <2>2. chip' \in Chips
    BY <1>16, ResetTypes DEF Restart
  <2>3. elapsed' \in 0..Timeout /\ restarts' \in 0..MaxRestarts
    BY <1>16 DEF Restart
  <2>4. res' \in BOOLEAN
    BY <1>16 DEF Restart
  <2> QED BY <1>16, <2>1, <2>2, <2>3, <2>4 DEF Restart
<1>17. CASE Start
  BY <1>17 DEF Start, PowerUp, Chips
<1>18. CASE Tick \/ UNCHANGED vars
  BY <1>18 DEF Tick, driver, vars
<1> QED BY <1>1, <1>2, <1>3, <1>4, <1>5, <1>6, <1>7, <1>8, <1>9, <1>10, <1>11, <1>12,
           <1>13, <1>14, <1>15, <1>16, <1>17, <1>18 DEF Next, Thread, Driver, Initialise

\* The types of the initialisation.
THEOREM TypeCorrect == Spec => []TypeOK
BY TypeInit, TypeStep, PTL DEF Spec

-----------------------------------------------------------------------------
\* The inductive invariant.  The thread of a chip that was reset and the one
\* that a chip woke up for go different ways.

LEMMA InvariantInit == Init => InitInvariant
<1> SUFFICES ASSUME Init PROVE InitInvariant
  OBVIOUS
<1>1. local.sleep = {}
  BY DEF Init, ZeroLocal
<1>2. CASE SwitchedOn
  BY <1>1, <1>2 DEF Init, SwitchedOn, InitInvariant, Staged, StagedAwake, Remembered, Announced,
                    Waking, Underway, Initialised, Chosen, Tuned, Addressed, Filtered, Loaded, Untuned
<1>3. CASE Woken
  <2>1. Waking /\ pc = "devid"
    BY <1>3, UwbInitAssumption DEF Woken, Waking
  <2>2. /\ chip.power = "ready" /\ chip.trim # "wrong"
        /\ chip.code <=> "WUP_NO_UCODE" \notin config
        /\ chip.ldo <=> otp.ldo = "value"
    BY <1>3 DEF Woken, ResetChip
  <2> QED BY <1>1, <2>1, <2>2 DEF Init, InitInvariant, Staged, StagedAwake, Remembered, Announced,
                                 Waking, Underway, Initialised, Chosen, Tuned, Addressed, Filtered, Loaded, Untuned
<1> QED BY <1>2, <1>3 DEF Init

LEMMA StagedStep == ASSUME TypeOK, InitInvariant, [Next]_vars PROVE Staged'
<1> USE DEF TypeOK, InitInvariant, Staged, Waking, Underway, Untuned, Loaded, Initialised, Chosen,
            Tuned, Addressed, Filtered, Modes, Chips, Clocks, SysCfgs
<1>1. CASE ReadDevId /\ UNCHANGED <<spi, wanted, mode, elapsed, restarts>>
  <2>1. ~Waking /\ chip.power = "ready" => chip = ResetChip("ready")
    BY <1>1 DEF ReadDevId, ResetChip
  <2> QED BY <1>1, <2>1 DEF ReadDevId, ResetChip, Automatic, DefaultCfg
<1>2. CASE DisableSequencing /\ UNCHANGED <<spi, wanted, mode, elapsed, restarts>>
  BY <1>2 DEF DisableSequencing, EnableClocks, StagedAwake
<1>3. CASE ResetAll /\ UNCHANGED <<spi, wanted, mode, elapsed, restarts>>
  BY <1>3 DEF ResetAll, ResetChip, Automatic, DefaultCfg
<1>4. CASE ForceCrystal /\ UNCHANGED <<spi, wanted, mode, elapsed, restarts>>
  BY <1>4 DEF ForceCrystal, EnableClocks
<1>5. CASE TuneLdo /\ UNCHANGED <<spi, wanted, mode, elapsed, restarts>>
  BY <1>5 DEF TuneLdo, Readings, ResetChip, Automatic
<1>6. CASE TrimCrystal /\ UNCHANGED <<spi, wanted, mode, elapsed, restarts>>
  BY <1>6 DEF TrimCrystal, Readings, ResetChip, Automatic
<1>7. CASE ReadIds /\ UNCHANGED <<spi, wanted, mode, elapsed, restarts>>
  BY <1>7 DEF ReadIds
<1>8. CASE SetUpCode /\ UNCHANGED <<spi, wanted, mode, elapsed, restarts>>
  BY <1>8 DEF SetUpCode, EnableClocks, Announced, ResetChip, Automatic
<1>9. CASE LoadUcode /\ UNCHANGED <<spi, wanted, mode, elapsed, restarts>>
  BY <1>9 DEF LoadUcode, EnableClocks, ResetChip, Automatic
<1>10. CASE SequenceClocks /\ UNCHANGED <<spi, wanted, mode, elapsed, restarts>>
  BY <1>10 DEF SequenceClocks, EnableClocks, ResetChip, Automatic
<1>11. CASE CopyRegisters /\ UNCHANGED <<spi, wanted, mode, elapsed, restarts>>
  BY <1>11 DEF CopyRegisters
<1>12. CASE PullReset \/ ReleaseReset \/ SlowRate \/ Restart
  BY <1>12 DEF PullReset, ReleaseReset, SlowRate, Restart, StagedAwake
<1>13. CASE Attempted \/ FastRate
  BY <1>13 DEF Attempted, FastRate
<1>14. CASE ConfigureSystem
  BY <1>14 DEF ConfigureSystem, Remembered, Initialised, ResetChip, DefaultCfg
<1>15. CASE ConfigureRadio
  BY <1>15 DEF ConfigureRadio
<1>16. CASE SetAddresses
  BY <1>16 DEF SetAddresses
<1>17. CASE EnableFrameFilter
  BY <1>17 DEF EnableFrameFilter, ResetChip, DefaultCfg
<1>18. CASE SetMode
  BY <1>18 DEF SetMode
<1>19. CASE Start
  <2>1. ~Underway /\ ~Underway'
    BY <1>19 DEF Start, PowerUp, Underway
  <2>2. chip = ResetChip("starting") => chip' = ResetChip("ready")
    BY <1>19, Started DEF Start, PowerUp
  <2>3. chip # ResetChip("ready")
    BY <1>19 DEF Start, PowerUp, ResetChip
  <2> QED BY <1>19, <2>1, <2>2, <2>3 DEF Start, PowerUp
<1>20. CASE Tick \/ UNCHANGED vars
  BY <1>20 DEF Tick, driver, vars
<1> QED BY <1>1, <1>2, <1>3, <1>4, <1>5, <1>6, <1>7, <1>8, <1>9, <1>10, <1>11, <1>12,
           <1>13, <1>14, <1>15, <1>16, <1>17, <1>18, <1>19, <1>20
        DEF Next, Thread, Driver, Initialise

LEMMA StagedAwakeStep == ASSUME TypeOK, InitInvariant, [Next]_vars PROVE StagedAwake'
<1> USE DEF TypeOK, InitInvariant, StagedAwake, Waking, Chips
<1>1. CASE ReadDevId /\ UNCHANGED <<spi, wanted, mode, elapsed, restarts>>
  BY <1>1 DEF ReadDevId
<1>2. CASE (DisableSequencing \/ ResetAll \/ LoadUcode) /\ UNCHANGED <<spi, wanted, mode, elapsed, restarts>>
  BY <1>2 DEF DisableSequencing, ResetAll, LoadUcode
<1>3. CASE ForceCrystal /\ UNCHANGED <<spi, wanted, mode, elapsed, restarts>>
  BY <1>3 DEF ForceCrystal
<1>4. CASE TuneLdo /\ UNCHANGED <<spi, wanted, mode, elapsed, restarts>>
  BY <1>4 DEF TuneLdo
<1>5. CASE TrimCrystal /\ UNCHANGED <<spi, wanted, mode, elapsed, restarts>>
  BY <1>5 DEF TrimCrystal
<1>6. CASE (ReadIds \/ CopyRegisters) /\ UNCHANGED <<spi, wanted, mode, elapsed, restarts>>
  BY <1>6 DEF ReadIds, CopyRegisters
<1>7. CASE SetUpCode /\ UNCHANGED <<spi, wanted, mode, elapsed, restarts>>
  BY <1>7 DEF SetUpCode
<1>8. CASE SequenceClocks /\ UNCHANGED <<spi, wanted, mode, elapsed, restarts>>
  BY <1>8 DEF SequenceClocks
<1>9. CASE PullReset \/ ReleaseReset \/ SlowRate \/ Restart \/ Attempted
  BY <1>9 DEF PullReset, ReleaseReset, SlowRate, Restart, Attempted
<1>10. CASE FastRate \/ ConfigureSystem \/ ConfigureRadio \/ SetAddresses \/ EnableFrameFilter \/ SetMode
  BY <1>10 DEF FastRate, ConfigureSystem, ConfigureRadio, SetAddresses, EnableFrameFilter, SetMode
<1>11. CASE Start
  BY <1>11 DEF Start, PowerUp
<1>12. CASE Tick \/ UNCHANGED vars
  BY <1>12 DEF Tick, driver, vars
<1> QED BY <1>1, <1>2, <1>3, <1>4, <1>5, <1>6, <1>7, <1>8, <1>9, <1>10, <1>11, <1>12
        DEF Next, Thread, Driver, Initialise

LEMMA RememberedStep == ASSUME TypeOK, InitInvariant, [Next]_vars PROVE Remembered'
<1> USE DEF TypeOK, InitInvariant, Remembered, Waking, Loaded, Initialised, Chosen,
            Tuned, Addressed, Filtered, Chips, Locals
<1>1. CASE ReadDevId /\ UNCHANGED <<spi, wanted, mode, elapsed, restarts>>
  BY <1>1 DEF ReadDevId
<1>2. CASE (DisableSequencing \/ ResetAll) /\ UNCHANGED <<spi, wanted, mode, elapsed, restarts>>
  BY <1>2 DEF DisableSequencing, ResetAll
<1>3. CASE ForceCrystal /\ UNCHANGED <<spi, wanted, mode, elapsed, restarts>>
  BY <1>3 DEF ForceCrystal
<1>4. CASE TuneLdo /\ UNCHANGED <<spi, wanted, mode, elapsed, restarts>>
  <2>1. "LLDO" \notin local.sleep
    BY <1>4 DEF TuneLdo
  <2> QED BY <1>4, <2>1 DEF TuneLdo
<1>5. CASE TrimCrystal /\ UNCHANGED <<spi, wanted, mode, elapsed, restarts>>
  BY <1>5 DEF TrimCrystal
<1>6. CASE ReadIds /\ UNCHANGED <<spi, wanted, mode, elapsed, restarts>>
  BY <1>6 DEF ReadIds
<1>7. CASE SetUpCode /\ UNCHANGED <<spi, wanted, mode, elapsed, restarts>>
  <2>1. chip'.code = chip.code /\ chip'.ldo = chip.ldo
    BY <1>7 DEF SetUpCode
  <2>2. pc = "code" /\ pc' \in {"load", "clocks"} /\ (pc' = "load" => ~Waking)
    BY <1>7 DEF SetUpCode
  <2>3. "LLDO" \in local'.sleep <=> "LLDO" \in local.sleep
    BY <1>7 DEF SetUpCode
  <2>4. "LLDE" \in local'.sleep <=> Waking /\ "WUP_NO_UCODE" \notin config
    BY <1>7 DEF SetUpCode
  <2>5. pc' = "clocks" => (chip.code <=> Waking /\ "WUP_NO_UCODE" \notin config)
    BY <1>7 DEF SetUpCode, Staged, StagedAwake, Announced, Underway
  <2> QED BY <2>1, <2>2, <2>3, <2>4, <2>5
<1>8. CASE LoadUcode /\ UNCHANGED <<spi, wanted, mode, elapsed, restarts>>
  BY <1>8 DEF LoadUcode, Staged, StagedAwake, Underway
<1>9. CASE SequenceClocks /\ UNCHANGED <<spi, wanted, mode, elapsed, restarts>>
  BY <1>9 DEF SequenceClocks
<1>10. CASE CopyRegisters /\ UNCHANGED <<spi, wanted, mode, elapsed, restarts>>
  BY <1>10 DEF CopyRegisters
<1>11. CASE PullReset \/ ReleaseReset \/ SlowRate
  BY <1>11 DEF PullReset, ReleaseReset, SlowRate
<1>12. CASE Attempted \/ FastRate
  BY <1>12 DEF Attempted, FastRate
<1>13. CASE ConfigureSystem
  BY <1>13 DEF ConfigureSystem
<1>14. CASE ConfigureRadio \/ SetAddresses \/ SetMode
  BY <1>14 DEF ConfigureRadio, SetAddresses, SetMode
<1>15. CASE EnableFrameFilter
  BY <1>15 DEF EnableFrameFilter
<1>16. CASE Restart
  BY <1>16 DEF Restart, ZeroLocal
<1>17. CASE Start
  <2>1. pc \notin {"trim", "ids", "code", "load"} \cup Loaded \/ (pc = "returned" /\ ~res)
    BY <1>17 DEF Start, PowerUp, Staged, StagedAwake, Underway
  <2> QED BY <1>17, <2>1 DEF Start, PowerUp
<1>18. CASE Tick \/ UNCHANGED vars
  BY <1>18 DEF Tick, driver, vars
<1> QED BY <1>1, <1>2, <1>3, <1>4, <1>5, <1>6, <1>7, <1>8, <1>9, <1>10, <1>11, <1>12,
           <1>13, <1>14, <1>15, <1>16, <1>17, <1>18
        DEF Next, Thread, Driver, Initialise

LEMMA AnnouncedStep == ASSUME TypeOK, InitInvariant, [Next]_vars PROVE Announced'
<1> USE DEF TypeOK, InitInvariant, Announced, Waking, Initialised, Chosen, Tuned, Addressed, Filtered
<1>1. CASE Initialise /\ UNCHANGED <<spi, wanted, mode, elapsed, restarts>>
  <2>1. /\ pc \notin Initialised \cup {"pin", "pulled", "slow"}
        /\ config' = config
    BY <1>1 DEF Initialise, ReadDevId, DisableSequencing, ResetAll, ForceCrystal, TuneLdo,
                TrimCrystal, ReadIds, SetUpCode, LoadUcode, SequenceClocks, CopyRegisters
  <2> QED BY <1>1, <2>1
<1>2. CASE PullReset \/ ReleaseReset \/ SlowRate \/ Attempted
  BY <1>2 DEF PullReset, ReleaseReset, SlowRate, Attempted
<1>3. CASE FastRate \/ ConfigureSystem \/ ConfigureRadio
  BY <1>3 DEF FastRate, ConfigureSystem, ConfigureRadio
<1>4. CASE SetAddresses \/ EnableFrameFilter \/ SetMode
  BY <1>4 DEF SetAddresses, EnableFrameFilter, SetMode
<1>5. CASE Restart
  BY <1>5 DEF Restart
<1>6. CASE Start \/ Tick \/ UNCHANGED vars
  BY <1>6 DEF Start, PowerUp, Tick, driver, vars
<1> QED BY <1>1, <1>2, <1>3, <1>4, <1>5, <1>6 DEF Next, Thread, Driver

\* What the chip is at every place of the thread, what the driver remembers
\* of it, and what the module has announced.
THEOREM InvariantHolds == Spec => []InitInvariant
<1>1. TypeOK /\ InitInvariant /\ [Next]_vars => InitInvariant'
  BY StagedStep, StagedAwakeStep, RememberedStep, AnnouncedStep DEF InitInvariant
<1> QED BY <1>1, InvariantInit, TypeCorrect, PTL DEF Spec

LEMMA SameClocks ==
    ASSUME NEW c \in Clocks, c.sys = "auto", ~c.lde
    PROVE  c = Automatic
BY DEF Clocks, Automatic

LEMMA SameCfg ==
    ASSUME NEW c \in SysCfgs, NEW b \in BOOLEAN, c.base, c.r110 = b, c.ff
    PROVE  c = [base |-> TRUE, r110 |-> b, ff |-> TRUE]
BY DEF SysCfgs

\* The bus is fast only while the chip runs on its PLL.
THEOREM RateHolds == Spec => []RateWithinClock
<1>1. TypeOK /\ InitInvariant => RateWithinClock
  <2> SUFFICES ASSUME TypeOK, InitInvariant, spi = "fast" PROVE RateWithinClock
    BY DEF RateWithinClock
  <2>1. pc \in Initialised
    BY DEF InitInvariant, Announced
  <2>2. Underway
    BY <2>1 DEF InitInvariant, StagedAwake, Underway, Loaded, Initialised, Chosen, Tuned, Addressed, Filtered
  <2>3. chip.power = "ready" /\ chip.pll /\ chip.clk.sys = "auto" /\ ~chip.clk.lde
    BY <2>1, <2>2 DEF InitInvariant, Staged, TypeOK, Chips, Clocks,
                      Initialised, Chosen, Tuned, Addressed, Filtered
  <2>4. chip.clk \in Clocks
    BY DEF TypeOK, Chips
  <2> QED BY <2>3, <2>4, SameClocks DEF RateWithinClock
<1> QED BY <1>1, TypeCorrect, InvariantHolds, PTL

\* The chip that a reset chip r becomes.
ConfiguredFrom(r, cfg, m, l, t) ==
    [r EXCEPT !.pll = TRUE, !.radio = m, !.addressed = TRUE, !.cfg = cfg,
              !.code = TRUE, !.ldo = l, !.trim = t]

\* A mode that is set is that of a chip initialised and configured in full.
THEOREM ModeHolds == Spec => []ModeMeansConfigured
<1>1. TypeOK /\ InitInvariant => ModeMeansConfigured
  <2> SUFFICES ASSUME TypeOK, InitInvariant, mode # "none" PROVE ModeMeansConfigured
    BY DEF ModeMeansConfigured
  <2> DEFINE d == Configured(mode)
             b == (mode = "ds")
             cfg == [base |-> TRUE, r110 |-> b, ff |-> TRUE]
             l == (otp.ldo = "value")
             trim == IF otp.trim = "blank" THEN "midrange" ELSE "value"
             r == ResetChip("ready")
  <2>1. pc = "done" /\ mode = wanted
    BY DEF InitInvariant, Announced
  <2>2. Underway
    BY <2>1 DEF InitInvariant, StagedAwake, Underway, Loaded, Initialised, Chosen, Tuned, Addressed, Filtered
  <2>3. /\ chip.power = "ready" /\ chip.pll = TRUE /\ chip.seq = TRUE
        /\ chip.clk.sys = "auto" /\ chip.clk.lde = FALSE
        /\ chip.cfg.base = TRUE /\ chip.cfg.r110 = b /\ chip.cfg.ff = TRUE
    BY <2>1, <2>2 DEF InitInvariant, Staged, TypeOK, Chips, Clocks, SysCfgs,
                      Untuned, Loaded, Initialised, Chosen, Tuned, Addressed, Filtered
  <2>4. /\ chip.radio = mode /\ chip.addressed = TRUE /\ chip.code = TRUE /\ chip.run = TRUE
        /\ chip.ldo = l /\ chip.trim = trim
    BY <2>1, <2>2 DEF InitInvariant, Staged, TypeOK, Chips,
                      Untuned, Loaded, Initialised, Chosen, Tuned, Addressed, Filtered
  <2>5. chip.clk = Automatic /\ chip.cfg = cfg
    BY <2>3, SameClocks, SameCfg DEF TypeOK, Chips
  <2>6. /\ r \in Chips /\ cfg \in SysCfgs /\ mode \in Modes
        /\ l \in BOOLEAN /\ trim \in {"midrange", "value"}
    BY <2>1, ResetTypes DEF SysCfgs, TypeOK
  <2>7. d = ConfiguredFrom(r, cfg, mode, l, trim)
    BY DEF Configured, ConfiguredFrom
  <2>8. r.power = "ready" /\ r.clk = Automatic /\ r.seq = TRUE /\ r.run = TRUE
    BY DEF ResetChip
  <2>9. chip = d
    <3>1. chip \in Chips
      BY DEF TypeOK
    <3> HIDE DEF d, cfg, trim, b, l, r
    <3>2. /\ d \in Chips
          /\ d.power = "ready" /\ d.pll = TRUE /\ d.clk = Automatic /\ d.seq = TRUE
          /\ d.cfg = cfg /\ d.radio = mode /\ d.addressed = TRUE
          /\ d.code = TRUE /\ d.run = TRUE /\ d.ldo = l /\ d.trim = trim
      <4>1. /\ d \in Chips
            /\ d.power = r.power /\ d.pll = TRUE /\ d.clk = r.clk /\ d.seq = r.seq
            /\ d.cfg = cfg /\ d.radio = mode /\ d.addressed = TRUE
            /\ d.code = TRUE /\ d.run = r.run /\ d.ldo = l /\ d.trim = trim
        BY <2>6, <2>7 DEF ConfiguredFrom, Chips, Words
      <4> QED BY <2>8, <4>1
    <3> QED BY <2>3, <2>4, <2>5, <3>1, <3>2, SameChip
  <2>10. local.cfg = chip.cfg /\ local.fctrl = chip.radio
    BY <2>1 DEF InitInvariant, Remembered, Initialised, Chosen, Tuned, Addressed, Filtered
  <2> QED BY <2>9, <2>10 DEF ModeMeansConfigured
<1> QED BY <1>1, TypeCorrect, InvariantHolds, PTL

\* What is to be reloaded at a wake-up is what was loaded.
THEOREM SleepModeHolds == Spec => []SleepModeMatches
<1>1. InitInvariant => SleepModeMatches
  BY DEF InitInvariant, Remembered, SleepModeMatches, Loaded
<1> QED BY <1>1, InvariantHolds, PTL

\* The words of the OTP that the driver uses are read reliably, as long as no
\* application asks for them after a wake-up.
THEOREM OtpHolds ==
    ASSUME \A c \in WakeConfigs: c \cap OtpFlags = {}
    PROVE  Spec => []OtpReliable
<1> DEFINE Quiet == OtpReliable /\ (Waking => config \cap OtpFlags = {})
<1>1. Init => Quiet
  <2> SUFFICES ASSUME Init PROVE Quiet
    OBVIOUS
  <2>1. local.otprev # "wrong" /\ local.ids # "wrong"
    BY DEF Init, ZeroLocal
  <2>2. CASE SwitchedOn
    BY <2>1, <2>2 DEF SwitchedOn, OtpReliable, ResetChip, Waking
  <2>3. CASE Woken
    BY <2>1, <2>3, InvariantInit DEF Woken, OtpReliable, InitInvariant, StagedAwake
  <2> QED BY <2>2, <2>3 DEF Init
<1>2. TypeOK /\ InitInvariant /\ Quiet /\ [Next]_vars => Quiet'
  <2> SUFFICES ASSUME TypeOK, InitInvariant, Quiet, [Next]_vars PROVE Quiet'
    OBVIOUS
  <2> USE DEF OtpReliable, Waking, TypeOK, Chips, Locals
  <2>1. CASE TrimCrystal /\ UNCHANGED <<spi, wanted, mode, elapsed, restarts>>
    <3>1. ~Waking => chip.clk.sys = "xti" /\ otp.trim # "wrong"
      BY <2>1 DEF TrimCrystal, InitInvariant, Staged, Underway
    <3>2. Waking => "WUP_RD_OTPREV" \notin config
      BY DEF OtpFlags
    <3> QED BY <2>1, <3>1, <3>2 DEF TrimCrystal, Readings
  <2>2. CASE ReadIds /\ UNCHANGED <<spi, wanted, mode, elapsed, restarts>>
    <3>1. "READ_OTP" \notin config
      BY DEF OtpFlags, InitInvariant, Announced
    <3> QED BY <2>2, <3>1 DEF ReadIds
  <2>3. CASE ReadDevId /\ UNCHANGED <<spi, wanted, mode, elapsed, restarts>>
    BY <2>3 DEF ReadDevId
  <2>4. CASE (DisableSequencing \/ ForceCrystal \/ SequenceClocks) /\ UNCHANGED <<spi, wanted, mode, elapsed, restarts>>
    BY <2>4 DEF DisableSequencing, ForceCrystal, SequenceClocks
  <2>5. CASE ResetAll /\ UNCHANGED <<spi, wanted, mode, elapsed, restarts>>
    BY <2>5 DEF ResetAll, ResetChip
  <2>6. CASE TuneLdo /\ UNCHANGED <<spi, wanted, mode, elapsed, restarts>>
    <3>1. PICK kicked: /\ local' = [local EXCEPT !.sleep = IF kicked THEN @ \cup {"LLDO"} ELSE @]
                       /\ chip' = [chip EXCEPT !.ldo = kicked]
      BY <2>6 DEF TuneLdo
    <3>2. local'.otprev = local.otprev /\ local'.ids = local.ids /\ chip'.trim = chip.trim
      BY <3>1
    <3>3. config' = config
      BY <2>6 DEF TuneLdo
    <3> HIDE DEF TypeOK, Chips, Locals
    <3> QED BY <3>2, <3>3
  <2>7. CASE (SetUpCode \/ LoadUcode \/ CopyRegisters) /\ UNCHANGED <<spi, wanted, mode, elapsed, restarts>>
    <3>1. CASE SetUpCode
      <4>1. /\ local'.otprev = local.otprev /\ local'.ids = local.ids
            /\ config' = config
        BY <3>1 DEF SetUpCode
      <4>2. chip'.trim = chip.trim
        BY <3>1 DEF SetUpCode
      <4> HIDE DEF TypeOK, Chips, Locals
      <4> QED BY <4>1, <4>2
    <3>2. CASE LoadUcode
      BY <3>2 DEF LoadUcode
    <3>3. CASE CopyRegisters
      BY <3>3 DEF CopyRegisters
    <3> QED BY <2>7, <3>1, <3>2, <3>3
  <2>8. CASE PullReset \/ ReleaseReset \/ SlowRate \/ Attempted \/ FastRate \/ SetMode
    BY <2>8 DEF PullReset, ReleaseReset, SlowRate, Attempted, FastRate, SetMode, ResetChip
  <2>9. CASE ConfigureSystem \/ ConfigureRadio \/ SetAddresses \/ EnableFrameFilter
    BY <2>9 DEF ConfigureSystem, ConfigureRadio, SetAddresses, EnableFrameFilter
  <2>10. CASE Restart
    BY <2>10 DEF Restart, ZeroLocal, ResetChip
  <2>11. CASE Start
    BY <2>11 DEF Start, PowerUp
  <2>12. CASE Tick \/ UNCHANGED vars
    BY <2>12 DEF Tick, driver, vars
  <2> QED BY <2>1, <2>2, <2>3, <2>4, <2>5, <2>6, <2>7, <2>8, <2>9, <2>10, <2>11, <2>12
          DEF Next, Thread, Driver, Initialise
<1>3. Quiet => OtpReliable
  OBVIOUS
<1> HIDE DEF Quiet
<1> QED BY <1>1, <1>2, <1>3, TypeCorrect, InvariantHolds, PTL DEF Spec

-----------------------------------------------------------------------------
\* The attempts that can still be made, the present one included: the time is
\* looked at after an attempt, and a reset takes a millisecond of it.
AttemptsLeft ==
    IF pc \notin {"pin", "pulled"} THEN Timeout - elapsed + 1
    ELSE IF elapsed < Timeout THEN Timeout - elapsed
    ELSE 1

\* The steps from a place of the thread to the end of its program.
PlacesLeft(place) ==
    CASE place = "pin" -> 21      [] place = "pulled" -> 20     [] place = "slow" -> 19
      [] place = "devid" -> 18    [] place = "softreset" -> 17  [] place = "reset" -> 16
      [] place = "crystal" -> 15  [] place = "ldo" -> 14        [] place = "trim" -> 13
      [] place = "ids" -> 12      [] place = "code" -> 11       [] place = "load" -> 10
      [] place = "clocks" -> 9    [] place = "copy" -> 8        [] place = "returned" -> 7
      [] place = "fast" -> 6      [] place = "syscfg" -> 5      [] place = "radio" -> 4
      [] place = "addresses" -> 3 [] place = "filter" -> 2      [] place = "mode" -> 1
      [] place \in {"done", "failed"} -> 0

WorkLeft == 22 * AttemptsLeft + PlacesLeft(pc)

\* What InitialisationEnds needs besides the fairness of the thread: every step
\* of it comes closer to the end, also the one that begins another attempt, and
\* neither the clock nor the chip puts the end off.
Nearer == /\ Thread => WorkLeft' < WorkLeft
          /\ Start \/ Tick => WorkLeft' <= WorkLeft

LEMMA PlaceValues ==
    /\ PlacesLeft("pin") = 21      /\ PlacesLeft("pulled") = 20     /\ PlacesLeft("slow") = 19
    /\ PlacesLeft("devid") = 18    /\ PlacesLeft("softreset") = 17  /\ PlacesLeft("reset") = 16
    /\ PlacesLeft("crystal") = 15  /\ PlacesLeft("ldo") = 14        /\ PlacesLeft("trim") = 13
    /\ PlacesLeft("ids") = 12      /\ PlacesLeft("code") = 11       /\ PlacesLeft("load") = 10
    /\ PlacesLeft("clocks") = 9    /\ PlacesLeft("copy") = 8        /\ PlacesLeft("returned") = 7
    /\ PlacesLeft("fast") = 6      /\ PlacesLeft("syscfg") = 5      /\ PlacesLeft("radio") = 4
    /\ PlacesLeft("addresses") = 3 /\ PlacesLeft("filter") = 2      /\ PlacesLeft("mode") = 1
    /\ PlacesLeft("done") = 0      /\ PlacesLeft("failed") = 0
BY DEF PlacesLeft

LEMMA PlacesAreFew == TypeOK => PlacesLeft(pc) \in Nat /\ PlacesLeft(pc) <= 21
BY PlaceValues DEF TypeOK

\* Attempts weigh more than places.
LEMMA Weighed ==
    ASSUME NEW a \in Nat, NEW b \in Nat, NEW p \in Nat, NEW q \in Nat
    PROVE  /\ 22 * a + p \in Nat
           /\ a <= b /\ p <= q => 22 * a + p <= 22 * b + q
           /\ a <= b /\ p < q => 22 * a + p < 22 * b + q
           /\ b = a + 1 /\ p < q + 22 => 22 * a + p < 22 * b + q
OBVIOUS

\* Where a step of the thread leads, within an attempt,
LEMMA Forward ==
    ASSUME TypeOK, Thread, ~ ReleaseReset, ~ (Attempted /\ pc' = "pin")
    PROVE  /\ elapsed' = elapsed
           /\ PlacesLeft(pc') \in Nat /\ PlacesLeft(pc') < PlacesLeft(pc)
           /\ pc' \in {"pin", "pulled"} <=> pc \in {"pin", "pulled"}
<1> USE PlaceValues
<1>1. CASE PullReset \/ SlowRate
  BY <1>1 DEF PullReset, SlowRate
<1>2. CASE Driver
  <2>1. elapsed' = elapsed
    BY <1>2 DEF Driver
  <2>2. CASE ReadDevId
    <3>1. pc = "devid" /\ pc' \in {"crystal", "softreset", "returned"}
      BY <2>2 DEF ReadDevId
    <3> QED BY <2>1, <3>1
  <2>3. CASE DisableSequencing \/ ResetAll \/ ForceCrystal
    BY <2>1, <2>3 DEF DisableSequencing, ResetAll, ForceCrystal
  <2>4. CASE TuneLdo \/ TrimCrystal \/ ReadIds
    BY <2>1, <2>4 DEF TuneLdo, TrimCrystal, ReadIds
  <2>5. CASE SetUpCode
    <3>1. pc = "code" /\ pc' \in {"load", "clocks"}
      BY <2>5 DEF SetUpCode
    <3> QED BY <2>1, <3>1
  <2>6. CASE LoadUcode \/ SequenceClocks \/ CopyRegisters
    BY <2>1, <2>6 DEF LoadUcode, SequenceClocks, CopyRegisters
  <2> QED BY <1>2, <2>2, <2>3, <2>4, <2>5, <2>6 DEF Driver, Initialise
<1>3. CASE Attempted
  <2>1. /\ pc = "returned" /\ pc' \in {"fast", "failed"}
        /\ elapsed' = elapsed
    BY <1>3 DEF Attempted
  <2> QED BY <2>1
<1>4. CASE FastRate \/ ConfigureSystem \/ ConfigureRadio
  BY <1>4 DEF FastRate, ConfigureSystem, ConfigureRadio
<1>5. CASE SetAddresses \/ EnableFrameFilter \/ SetMode
  BY <1>5 DEF SetAddresses, EnableFrameFilter, SetMode
<1> QED BY <1>1, <1>2, <1>3, <1>4, <1>5 DEF Thread

\* and how many remain.
LEMMA NearerStep ==
    ASSUME TypeOK
    PROVE  WorkLeft \in Nat /\ WorkLeft <= 22 * (Timeout + 1) + 21 /\ Nearer
<1>1. elapsed \in Nat /\ elapsed <= Timeout
  BY Constants DEF TypeOK
<1>2. PlacesLeft(pc) \in Nat /\ PlacesLeft(pc) <= 21
  BY PlacesAreFew
<1>3. AttemptsLeft \in Nat /\ Timeout + 1 \in Nat /\ AttemptsLeft <= Timeout + 1
  BY <1>1, Constants DEF AttemptsLeft
<1>4. WorkLeft' = 22 * AttemptsLeft' + PlacesLeft(pc')
  BY DEF WorkLeft, PlacesLeft
<1>5. ASSUME Thread PROVE WorkLeft' < WorkLeft
  <2>1. CASE ReleaseReset
    <3>1. /\ pc = "pulled" /\ pc' = "slow"
          /\ elapsed' = IF elapsed < Timeout THEN elapsed + 1 ELSE elapsed
      BY <2>1 DEF ReleaseReset, Later
    <3>2. AttemptsLeft' = AttemptsLeft
      BY <1>1, <3>1, Constants DEF AttemptsLeft
    <3>3. PlacesLeft(pc') \in Nat /\ PlacesLeft(pc') < PlacesLeft(pc)
      BY <3>1, PlaceValues
    <3> QED BY <1>2, <1>3, <1>4, <3>2, <3>3, Weighed DEF WorkLeft
  <2>2. CASE Attempted /\ pc' = "pin"
    <3>1. pc = "returned" /\ pc' = "pin" /\ elapsed < Timeout /\ elapsed' = elapsed
      BY <2>2 DEF Attempted
    <3>2. AttemptsLeft' \in Nat /\ AttemptsLeft = AttemptsLeft' + 1
      BY <1>1, <3>1, Constants DEF AttemptsLeft
    <3>3. PlacesLeft(pc') \in Nat /\ PlacesLeft(pc') < PlacesLeft(pc) + 22
      BY <3>1, PlaceValues
    <3> QED BY <1>2, <1>3, <1>4, <3>2, <3>3, Weighed DEF WorkLeft
  <2>3. CASE ~ ReleaseReset /\ ~ (Attempted /\ pc' = "pin")
    <3>1. /\ elapsed' = elapsed
          /\ PlacesLeft(pc') \in Nat /\ PlacesLeft(pc') < PlacesLeft(pc)
          /\ pc' \in {"pin", "pulled"} <=> pc \in {"pin", "pulled"}
      BY <1>5, <2>3, Forward
    <3>2. AttemptsLeft' = AttemptsLeft
      BY <3>1 DEF AttemptsLeft
    <3> QED BY <1>2, <1>3, <1>4, <3>1, <3>2, Weighed DEF WorkLeft
  <2> QED BY <2>1, <2>2, <2>3
<1>6. ASSUME Start \/ Tick PROVE WorkLeft' <= WorkLeft
  <2>1. /\ pc' = pc
        /\ elapsed' = elapsed \/ (elapsed < Timeout /\ elapsed' = elapsed + 1)
    BY <1>6 DEF Start, PowerUp, Tick, driver
  <2>2. AttemptsLeft' \in Nat /\ AttemptsLeft' <= AttemptsLeft
    BY <1>1, <2>1, Constants DEF AttemptsLeft
  <2>3. PlacesLeft(pc') = PlacesLeft(pc) /\ PlacesLeft(pc) <= PlacesLeft(pc)
    BY <1>2, <2>1
  <2> QED BY <1>2, <1>3, <1>4, <2>2, <2>3, Weighed DEF WorkLeft
<1>7. WorkLeft \in Nat /\ WorkLeft <= 22 * (Timeout + 1) + 21
  BY <1>2, <1>3, Weighed DEF WorkLeft
<1> QED BY <1>5, <1>6, <1>7 DEF Nearer

\* After a start of the host the initialisation takes a bounded number of steps,
\* 22 for each millisecond of its timeout and those of a last attempt, and only
\* another restart has it begin again.
THEOREM Progress ==
    Spec => [](WorkLeft \in Nat /\ WorkLeft <= 22 * (Timeout + 1) + 21) /\ [][Nearer]_vars
<1>1. TypeOK => /\ WorkLeft \in Nat /\ WorkLeft <= 22 * (Timeout + 1) + 21
                /\ [Nearer]_vars
  BY NearerStep
<1> QED BY <1>1, TypeCorrect, PTL
=============================================================================
