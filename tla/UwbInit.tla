------------------------------- MODULE UwbInit -------------------------------
(***************************************************************************)
(* uwb_module_initialize: it resets the chip and has the driver initialise *)
(* it, over and over until that works or INIT_TIMEOUT_MS have passed, then *)
(* raises the rate of the SPI bus and configures the chip.                 *)
(*                                                                         *)
(* The host may restart at any time, by a fault or a reset button.  It     *)
(* loses its memory then, and the chip keeps its registers until the reset *)
(* pin is pulled.  The other caller of dwt_initialise is an application    *)
(* whose chip woke up from a deep sleep during which the host lost its     *)
(* memory, the case for which the driver has its WAKE_UP flags.            *)
(***************************************************************************)
EXTENDS Dw1000Init

CONSTANTS Timeout,      \* INIT_TIMEOUT_MS
          WakeConfigs,  \* what applications pass after a wake-up
          MaxRestarts   \* bound: restarts of the host

ASSUME UwbInitAssumption ==
    /\ Timeout \in Nat
    /\ \A c \in WakeConfigs: c \subseteq Flags /\ "WAKE_UP" \in c
    /\ MaxRestarts \in Nat

VARIABLES
  spi,      \* spi_selected_config
  wanted,   \* the parameter mode
  mode,     \* uwb_current_mode
  elapsed,  \* k_uptime_get() - start, up to Timeout
  restarts  \* of the host

vars == <<driver, spi, wanted, mode, elapsed, restarts>>

Later(t) == IF t < Timeout THEN t + 1 ELSE t

\* Power is switched on,
SwitchedOn ==
    /\ pc = "pin" /\ config = {}
    /\ chip = ResetChip("starting")
    /\ wanted \in Modes

\* or the chip woke up as it was configured before.  Its clocks are automatic
\* and the PLL is locked; the application tells the driver the truth about
\* the microcode.
Woken ==
    /\ pc = "devid" /\ config \in WakeConfigs
    /\ wanted \in Modes
    /\ \E code, ldo \in BOOLEAN, trim \in {"value", "midrange"}:
         /\ code <=> "WUP_NO_UCODE" \notin config
         /\ ldo <=> otp.ldo = "value"
         /\ trim = "midrange" <=> otp.trim = "blank"
         /\ chip = [ResetChip("ready") EXCEPT
                      !.pll = TRUE, !.radio = wanted, !.addressed = TRUE,
                      !.cfg = [base |-> TRUE, r110 |-> wanted = "ds", ff |-> TRUE],
                      !.code = code, !.run = code, !.ldo = ldo, !.trim = trim]

Init == /\ otp \in [ldo: {"blank", "value"}, trim: {"blank", "value"}]
        /\ SwitchedOn \/ Woken
        /\ local = ZeroLocal /\ res = FALSE
        /\ spi = "slow" /\ mode = "none"
        /\ elapsed = 0 /\ restarts = 0

-----------------------------------------------------------------------------
\* try_initalizing

\* reset_DW1000 pulls the reset pin
PullReset ==
    /\ pc = "pin"
    /\ chip' = ResetChip("off")
    /\ pc' = "pulled"
    /\ UNCHANGED <<config, res, otp, local, spi, wanted, mode, elapsed, restarts>>

\* and releases it a millisecond later.
ReleaseReset ==
    /\ pc = "pulled"
    /\ chip' = ResetChip("starting")
    /\ elapsed' = Later(elapsed)
    /\ pc' = "slow"
    /\ UNCHANGED <<config, res, otp, local, spi, wanted, mode, restarts>>

SlowRate ==
    /\ pc = "slow"
    /\ spi' = "slow"
    /\ config' = {"LOADUCODE"}
    /\ pc' = "devid"
    /\ UNCHANGED <<res, chip, otp, local, wanted, mode, elapsed, restarts>>

-----------------------------------------------------------------------------
\* uwb_module_initialize

\* Mutant of Attempted: the time is not looked at.
AttemptedForever ==
    /\ pc = "returned" /\ ~Waking
    /\ pc' = IF res THEN "fast" ELSE "pin"
    /\ UNCHANGED <<config, res, chip, otp, local, spi, wanted, mode, elapsed, restarts>>

\* The loop around try_initalizing.
Attempted ==
    /\ pc = "returned" /\ ~Waking
    /\ pc' = CASE res -> "fast"
               [] ~res /\ elapsed < Timeout -> "pin"
               [] OTHER -> "failed"
    /\ UNCHANGED <<config, res, chip, otp, local, spi, wanted, mode, elapsed, restarts>>

FastRate ==
    /\ pc = "fast"
    /\ spi' = "fast"
    /\ pc' = "syscfg"
    /\ UNCHANGED <<config, res, chip, otp, local, wanted, mode, elapsed, restarts>>

\* dwt_configure derives SYS_CFG from the driver's copy
ConfigureSystem ==
    /\ pc = "syscfg"
    /\ local' = [local EXCEPT !.cfg.r110 = wanted = "ds"]
    /\ chip' = [chip EXCEPT !.cfg = local'.cfg]
    /\ pc' = "radio"
    /\ UNCHANGED <<config, res, otp, spi, wanted, mode, elapsed, restarts>>

\* and writes the other registers, TX_FCTRL among them.
ConfigureRadio ==
    /\ pc = "radio"
    /\ local' = [local EXCEPT !.fctrl = wanted]
    /\ chip' = [chip EXCEPT !.radio = wanted]
    /\ pc' = "addresses"
    /\ UNCHANGED <<config, res, otp, spi, wanted, mode, elapsed, restarts>>

SetAddresses ==
    /\ pc = "addresses"
    /\ chip' = [chip EXCEPT !.addressed = TRUE]
    /\ pc' = "filter"
    /\ UNCHANGED <<config, res, otp, local, spi, wanted, mode, elapsed, restarts>>

\* dwt_enableframefilter derives SYS_CFG from the register.
EnableFrameFilter ==
    /\ pc = "filter"
    /\ local' = [local EXCEPT !.cfg = [chip.cfg EXCEPT !.ff = TRUE]]
    /\ chip' = [chip EXCEPT !.cfg = local'.cfg]
    /\ pc' = "mode"
    /\ UNCHANGED <<config, res, otp, spi, wanted, mode, elapsed, restarts>>

SetMode ==
    /\ pc = "mode"
    /\ mode' = wanted
    /\ pc' = "done"
    /\ UNCHANGED <<config, res, chip, otp, local, spi, wanted, elapsed, restarts>>

-----------------------------------------------------------------------------
Driver == Initialise /\ UNCHANGED <<spi, wanted, mode, elapsed, restarts>>

Thread == \/ PullReset \/ ReleaseReset \/ SlowRate \/ Driver \/ Attempted
          \/ FastRate \/ ConfigureSystem \/ ConfigureRadio \/ SetAddresses
          \/ EnableFrameFilter \/ SetMode

\* The reset pin is released when the host restarts.
Restart ==
    /\ restarts < MaxRestarts
    /\ restarts' = restarts + 1
    /\ pc' = "pin" /\ config' = {} /\ res' = FALSE /\ local' = ZeroLocal
    /\ spi' = "slow" /\ mode' = "none" /\ elapsed' = 0
    /\ wanted' \in Modes
    /\ chip' = IF chip.power = "off" THEN ResetChip("starting") ELSE chip
    /\ UNCHANGED otp

Start == PowerUp /\ UNCHANGED <<spi, wanted, mode, elapsed, restarts>>

Tick == /\ elapsed < Timeout
        /\ elapsed' = elapsed + 1
        /\ UNCHANGED <<driver, spi, wanted, mode, restarts>>

Next == Thread \/ Restart \/ Start \/ Tick

Spec == Init /\ [][Next]_vars

\* The thread runs and time goes on.  A chip may never start.
FairSpec == Spec /\ WF_vars(Thread) /\ WF_vars(Tick)
-----------------------------------------------------------------------------
TypeOK ==
    /\ pc \in {"pin", "pulled", "slow", "devid", "softreset", "reset", "crystal",
               "ldo", "trim", "ids", "code", "load", "clocks", "copy", "returned",
               "fast", "syscfg", "radio", "addresses", "filter", "mode", "done", "failed"}
    /\ config \subseteq Flags
    /\ res \in BOOLEAN
    /\ chip \in Chips
    /\ otp \in [ldo: {"blank", "value"}, trim: {"blank", "value"}]
    /\ local \in Locals
    /\ spi \in {"slow", "fast"}
    /\ wanted \in Modes
    /\ mode \in Modes \cup {"none"}
    /\ elapsed \in 0..Timeout
    /\ restarts \in 0..MaxRestarts

\* The chip is spoken to at the fast rate only while its system clock is the
\* PLL's; the crystal's is too slow for it (the driver: "has to be < 3MHz").
RateWithinClock ==
    spi = "fast" => /\ chip.power = "ready"
                    /\ chip.pll /\ chip.clk = Automatic

\* The chip as it is configured for a mode.
Configured(m) ==
    [ResetChip("ready") EXCEPT
       !.pll = TRUE, !.radio = m, !.addressed = TRUE,
       !.cfg = [base |-> TRUE, r110 |-> m = "ds", ff |-> TRUE],
       !.code = TRUE, !.ldo = otp.ldo = "value",
       !.trim = IF otp.trim = "blank" THEN "midrange" ELSE "value"]

\* A mode that is set is that of a chip initialised and configured in full,
\* whatever the chip was doing when the host started, and after any number
\* of failed attempts.  The driver's copies agree with the registers.
ModeMeansConfigured ==
    mode # "none" =>
      /\ chip = Configured(mode)
      /\ local.cfg = chip.cfg /\ local.fctrl = chip.radio

\* The inductive invariant behind these: the places of the thread after each
\* part of the configuration,
Filtered == {"mode", "done"}
Addressed == Filtered \cup {"filter"}
Tuned == Addressed \cup {"addresses"}
Chosen == Tuned \cup {"radio"}
Initialised == Chosen \cup {"fast", "syscfg"}
Loaded == Initialised \cup {"clocks", "copy", "returned"}

Untuned == {"softreset", "reset", "crystal", "ldo"}

\* whether the thread is past the first answer of a chip that it has reset,
Underway == ~Waking /\ pc \in Untuned \cup {"trim", "ids", "code", "load"} \cup Loaded
                    /\ (pc = "returned" => res)

\* the chip as it then is,
Staged ==
    /\ ~Waking /\ pc \in {"slow", "devid"} =>
         chip \in {ResetChip("starting"), ResetChip("ready")}
    /\ Underway =>
         /\ chip.power = "ready"
         /\ chip.pll <=> pc \notin {"softreset", "reset"}
         /\ chip.seq <=> pc # "reset"
         /\ chip.clk.sys = IF pc \in {"reset", "ldo", "trim", "ids", "code", "load"} THEN "xti" ELSE "auto"
         /\ chip.clk.lde <=> pc = "load"
         /\ chip.cfg.base
         /\ chip.cfg.r110 <=> pc \in Chosen /\ wanted = "ds"
         /\ chip.cfg.ff <=> pc \in Filtered
         /\ chip.radio = IF pc \in Tuned THEN wanted ELSE "default"
         /\ chip.addressed <=> pc \in Addressed
         /\ chip.run
         /\ chip.code <=> pc \in Loaded
         /\ chip.ldo <=> pc \notin Untuned /\ otp.ldo = "value"
         /\ chip.trim = CASE pc \in Untuned \cup {"trim"} -> "default"
                          [] OTHER -> IF otp.trim = "blank" THEN "midrange" ELSE "value"

\* a chip that woke up as the driver finds it,
StagedAwake ==
    Waking => /\ chip.power = "ready" /\ chip.trim # "wrong"
              /\ chip.code <=> "WUP_NO_UCODE" \notin config
              /\ chip.ldo <=> otp.ldo = "value"
              /\ pc \in {"devid", "crystal", "ldo", "trim", "ids", "code", "clocks", "copy", "returned"}

\* the memory of the driver,
Remembered ==
    /\ pc \in Initialised \/ (pc = "returned" /\ res) =>
         local.cfg = chip.cfg /\ local.fctrl = chip.radio
    /\ "LLDO" \in local.sleep <=>
         /\ pc \in {"trim", "ids", "code", "load"} \cup Loaded /\ (pc = "returned" => res)
         /\ chip.ldo
    /\ "LLDE" \in local.sleep <=>
         /\ pc \in Loaded /\ (pc = "returned" => res)
         /\ chip.code

\* and what belongs to the module itself.
Announced ==
    /\ config = {"LOADUCODE"} \/ Waking \/ config = {}
    /\ config = {} => pc \in {"pin", "pulled", "slow"}
    /\ spi = "fast" => pc \in Initialised
    /\ mode # "none" => pc = "done" /\ mode = wanted

InitInvariant == Staged /\ StagedAwake /\ Remembered /\ Announced

\* The initialisation ends, in success or failure.
InitialisationEnds == pc = "pin" ~> pc \in {"done", "failed"}
=============================================================================
