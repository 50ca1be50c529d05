----------------------------- MODULE Dw1000Sleep -----------------------------
(***************************************************************************)
(* Sleep of the DW1000: the sleep configuration the driver writes into the *)
(* registers, its upload into the part of the chip that stays powered, the *)
(* ways to fall asleep (at once, after a transmission, between the phases  *)
(* of low-power listening) and to wake up, and the interrupt routine for   *)
(* low-power listening.                                                    *)
(*                                                                         *)
(* The client follows the notes of the driver: it calibrates the sleep     *)
(* counter before it sets it, sets it before it configures sleep, gives a  *)
(* source to wake by, and talks to a sleeping chip only to wake it.  It    *)
(* calibrates with sleep disabled (the upload would put the chip to sleep) *)
(* and writes PMSC_CTRL1 from the thread only when it does not listen.  It *)
(* transmits outside the functions below and the routine, and without      *)
(* automatic acknowledgement, so that no transmission ends in them.        *)
(***************************************************************************)
EXTENDS Naturals, Sequences

CONSTANT Counts        \* values of the sleep counter

SleepAssumption == Counts \subseteq Nat \ {0}

\* on-wake modes and wake-up parameters
DWT_PRESRV_SLEEP == "PRESRV_SLEEP"
DWT_CONFIG == "CONFIG"
DWT_RX_EN == "RX_EN"
AON_WCFG_ONW_LLDE == "ONW_LLDE"
DWT_SLP_EN == "SLP_EN"
DWT_WAKE_SLPCNT == "WAKE_SLPCNT"
DWT_WAKE_CS == "WAKE_CS"
\* The WAKEUP pin (DWT_WAKE_WK) wakes the chip as the chip select does.
Sources == {DWT_WAKE_SLPCNT, DWT_WAKE_CS}

VARIABLES
  hif,        \* AON_WCFG, AON_CFG0 (wake, tim), AON_CFG1 (cen), PMSC_CTRL1 (ctrl1)
  aon,        \* what was uploaded, and the time the counter runs for
  power,      \* on or asleep
  ucode,      \* is the microcode of the leading edge detection in the RAM?
  sleep_mode,
  todo,       \* writes of the driver's function or routine still to come
  irq,        \* a good frame waits in the receive buffer
  asked       \* what the client asked for: count, whether to listen and
              \* whether to sleep after a transmission

vars == <<hif, aon, power, ucode, sleep_mode, todo, irq, asked>>

-----------------------------------------------------------------------------
Reset == [wcfg |-> {}, wake |-> {}, tim |-> 0, cen |-> FALSE, ctrl1 |-> {}]

\* dwt_initialise loads the microcode, has it reloaded at every wake-up, and
\* clears AON_CFG1; or the client does without it.
Init ==
    /\ hif = Reset
    /\ aon = Reset
    /\ power = "on"
    /\ ucode \in BOOLEAN
    /\ sleep_mode = IF ucode THEN {AON_WCFG_ONW_LLDE} ELSE {}
    /\ todo = <<>>
    /\ irq = FALSE
    /\ asked = [count |-> 0, listening |-> FALSE, afterTx |-> FALSE]

Write(reg, value) == [do |-> "write", reg |-> reg, value |-> value]
Do(what) == [do |-> what]

\* Bits of PMSC_CTRL1 are switched: the register is read and written, with no
\* other write to it in between.
Switch(on, bits) == [do |-> "switch", on |-> on, bits |-> bits]

\* Mutant of ConfigureSleepCnt: the new time is uploaded with the counter on.
ConfigureSleepCntOn(n) ==
    <<Write("wake", {}), Write("tim", n), Write("cen", TRUE), Do("upload")>>

\* dwt_configuresleepcnt
ConfigureSleepCnt(n) ==
    <<Write("wake", {}), Write("tim", 0), Write("cen", FALSE), Do("upload"),
      Write("tim", n), Do("upload"),
      Write("cen", TRUE), Do("upload")>>

\* dwt_calibratesleepcnt: AON_CFG1 is overwritten twice, without SLEEP_CEN.
CalibrateSleepCnt == <<Write("cen", FALSE), Do("upload"), Write("cen", FALSE), Do("upload")>>

\* Mutant of ConfigureSleep: the predefined settings are forgotten.
ConfigureSleepPlain(mode, wake) == <<Write("wcfg", mode), Write("wake", wake)>>

\* dwt_configuresleep
ConfigureSleep(mode, wake) == <<Write("wcfg", mode \cup sleep_mode), Write("wake", wake)>>

\* Mutant of SetLowPowerListening: the register is overwritten.
SetLowPowerListeningAlone(on) ==
    <<Switch(FALSE, {"ATXSLP"}), Switch(on, {"ARXSLP", "SNOZE"})>>

\* dwt_setlowpowerlistening, dwt_entersleepaftertx: each changes its own bits.
SetLowPowerListening(on) == <<Switch(on, {"ARXSLP", "SNOZE"})>>
EnterSleepAfterTx(on) == <<Switch(on, {"ATXSLP"})>>

\* Mutant of LowPowerListenIsr: the interrupt is cleared first.
LowPowerListenIsrLate == <<Do("clear")>> \o SetLowPowerListening(FALSE) \o <<Do("frame"), Do("cbRxOk")>>

\* dwt_lowpowerlistenisr
LowPowerListenIsr == SetLowPowerListening(FALSE) \o <<Do("clear"), Do("frame"), Do("cbRxOk")>>

-----------------------------------------------------------------------------
\* The chip takes over its configuration; the counter takes its time only
\* while it is disabled.  With SLP_EN it falls asleep.
Upload ==
    /\ aon' = [hif EXCEPT !.tim = IF aon.cen THEN aon.tim ELSE hif.tim]
    /\ IF DWT_SLP_EN \in hif.wake THEN power' = "asleep" /\ ucode' = FALSE ELSE UNCHANGED <<power, ucode>>

Running == todo = <<>> /\ power = "on"

Call(steps) == todo' = steps

Calibrate ==
    /\ Running /\ ~irq /\ DWT_SLP_EN \notin hif.wake
    /\ Call(CalibrateSleepCnt)
    /\ asked' = [asked EXCEPT !.count = 0]
    /\ UNCHANGED <<hif, aon, power, ucode, sleep_mode, irq>>

SetCount(n) ==
    /\ Running /\ ~irq /\ ~asked.listening
    /\ Call(ConfigureSleepCnt(n))
    /\ asked' = [asked EXCEPT !.count = n]
    /\ UNCHANGED <<hif, aon, power, ucode, sleep_mode, irq>>

Configure(mode, wake) ==
    /\ Running /\ ~irq /\ ~asked.listening
    /\ DWT_WAKE_SLPCNT \in wake => asked.count # 0
    /\ Call(ConfigureSleep(mode, wake))
    /\ UNCHANGED <<hif, aon, power, ucode, sleep_mode, irq, asked>>

SleepAfterTx(on) ==
    /\ Running /\ ~irq /\ ~asked.listening
    /\ Call(EnterSleepAfterTx(on))
    /\ asked' = [asked EXCEPT !.afterTx = on]
    /\ UNCHANGED <<hif, aon, power, ucode, sleep_mode, irq>>

Listen ==
    /\ Running /\ ~irq /\ ~asked.listening
    /\ {DWT_PRESRV_SLEEP, DWT_CONFIG, DWT_RX_EN} \subseteq hif.wcfg
    /\ {DWT_WAKE_SLPCNT, DWT_SLP_EN} \subseteq hif.wake
    /\ Call(SetLowPowerListening(TRUE))
    /\ asked' = [asked EXCEPT !.listening = TRUE]
    /\ UNCHANGED <<hif, aon, power, ucode, sleep_mode, irq>>

\* dwt_entersleep
EnterSleep ==
    /\ Running /\ ~irq
    /\ Call(<<Do("upload")>>)
    /\ UNCHANGED <<hif, aon, power, ucode, sleep_mode, irq, asked>>

Interrupt ==
    /\ Running /\ irq /\ asked.listening
    /\ Call(LowPowerListenIsr)
    /\ UNCHANGED <<hif, aon, power, ucode, sleep_mode, irq, asked>>

\* A write of the function that runs; a sleeping chip does not take it.
Step ==
    /\ todo # <<>>
    /\ todo' = Tail(todo)
    /\ LET s == Head(todo)
       IN  CASE power = "asleep" -> UNCHANGED <<hif, aon, power, ucode, irq, asked>>
             [] s.do = "write" /\ power = "on" ->
                  hif' = [hif EXCEPT ![s.reg] = s.value] /\ UNCHANGED <<aon, power, ucode, irq, asked>>
             [] s.do = "switch" /\ power = "on" ->
                  /\ hif' = [hif EXCEPT !.ctrl1 = IF s.on THEN @ \cup s.bits ELSE @ \ s.bits]
                  /\ UNCHANGED <<aon, power, ucode, irq, asked>>
             [] s.do = "upload" /\ power = "on" -> Upload /\ UNCHANGED <<hif, irq, asked>>
             [] s.do = "clear" /\ power = "on" -> irq' = FALSE /\ UNCHANGED <<hif, aon, power, ucode, asked>>
             [] s.do = "frame" /\ power = "on" -> UNCHANGED <<hif, aon, power, ucode, irq, asked>>
             [] s.do = "cbRxOk" /\ power = "on" ->
                  asked' = [asked EXCEPT !.listening = FALSE] /\ UNCHANGED <<hif, aon, power, ucode, irq>>
    /\ UNCHANGED sleep_mode

-----------------------------------------------------------------------------
\* The chip sends a frame, or ends a phase of listening without one.
FallAsleep ==
    /\ power = "on" /\ ~irq
    /\ \/ "ATXSLP" \in hif.ctrl1 /\ todo = <<>>
       \/ "ARXSLP" \in hif.ctrl1
    /\ DWT_SLP_EN \in hif.wake
    /\ Upload
    /\ UNCHANGED <<hif, sleep_mode, todo, irq, asked>>

\* The configuration is kept with ONW_LDC, the sleep bits with PRES_SLEEP; what
\* is lost the client asks for again.
Woken ==
    /\ power = "asleep" /\ todo = <<>>
    /\ power' = "on"
    /\ ucode' = (AON_WCFG_ONW_LLDE \in aon.wcfg)
    /\ hif' = IF DWT_CONFIG \notin aon.wcfg THEN Reset
              ELSE IF DWT_PRESRV_SLEEP \in aon.wcfg THEN hif ELSE [hif EXCEPT !.ctrl1 = {}]
    /\ asked' = [asked EXCEPT !.count = IF DWT_CONFIG \in aon.wcfg THEN @ ELSE 0,
                              !.afterTx = @ /\ {DWT_CONFIG, DWT_PRESRV_SLEEP} \subseteq aon.wcfg]
    /\ UNCHANGED <<aon, sleep_mode, todo, irq>>

\* dwt_spicswakeup, or the counter.
WakeUp == /\ \/ DWT_WAKE_CS \in aon.wake
             \/ DWT_WAKE_SLPCNT \in aon.wake /\ aon.cen
          /\ Woken

GoodFrame ==
    /\ power = "on" /\ ~irq /\ todo = <<>> /\ "ARXSLP" \in hif.ctrl1
    /\ irq' = TRUE
    /\ UNCHANGED <<hif, aon, power, ucode, sleep_mode, todo, asked>>

Modes == {{}, {DWT_CONFIG}, {DWT_PRESRV_SLEEP, DWT_CONFIG, DWT_RX_EN}}
Wakes == {wake \cup {DWT_SLP_EN}: wake \in (SUBSET Sources) \ {{}}} \cup {{}}

Next == \/ Calibrate
        \/ \E n \in Counts: SetCount(n)
        \/ \E mode \in Modes, wake \in Wakes: Configure(mode, wake)
        \/ \E on \in BOOLEAN: SleepAfterTx(on)
        \/ Listen
        \/ EnterSleep
        \/ Interrupt
        \/ Step
        \/ FallAsleep
        \/ WakeUp
        \/ GoodFrame

Spec == Init /\ [][Next]_vars

-----------------------------------------------------------------------------
\* A sleeping chip can be woken by what the client asked for: the uploaded
\* configuration names a source, and the counter, where it is one, is enabled
\* with the count last set.  No function uploads a configuration half changed.
SleepWakes ==
    power = "asleep" =>
       /\ aon.wake \cap Sources # {}
       /\ DWT_WAKE_SLPCNT \in aon.wake => aon.cen /\ aon.tim = asked.count

\* A chip that the driver talks to is awake and complete: woken up, it has the
\* microcode in its RAM if the client had it loaded when it initialised the
\* chip, for every configuration of sleep reloads it; and while the routine of
\* low-power listening reads the frame and calls back, the chip stays awake and
\* has left the listening, although the interrupt that kept it awake has been
\* cleared.  Between the functions it sleeps after a transmission, and
\* between receptions, exactly if the client asked for it: the functions and
\* the routine, which write one register, keep each other's bits.
AwakeComplete ==
    /\ power = "on" => (ucode <=> sleep_mode # {})
    /\ todo # <<>> /\ Head(todo).do \in {"frame", "cbRxOk"} =>
          power = "on" /\ hif.ctrl1 \cap {"ARXSLP", "SNOZE"} = {}
    /\ power = "on" /\ todo = <<>> =>
          /\ "ATXSLP" \in hif.ctrl1 <=> asked.afterTx
          /\ "ARXSLP" \in hif.ctrl1 <=> asked.listening
          /\ "SNOZE" \in hif.ctrl1 <=> asked.listening
=============================================================================
