----------------------------- MODULE Dw1000Init -----------------------------
(***************************************************************************)
(* dwt_initialise of the DW1000 driver against the chip: reset, clocks,    *)
(* one-time programmable memory (OTP), microcode and the copies of         *)
(* registers that the driver keeps.                                        *)
(*                                                                         *)
(* There is one action for each transfer to the chip, or group of          *)
(* transfers, after which the chip is in another state.  Whoever calls     *)
(* dwt_initialise sets pc to "devid", and finds pc "returned" afterwards;  *)
(* module UwbInit is such a caller.                                        *)
(***************************************************************************)
EXTENDS Naturals

VARIABLES
  pc,      \* where the calling thread is
  config,  \* the argument of dwt_initialise, a set of flags
  res,     \* its result: DWT_SUCCESS?
  chip,    \* the registers of the chip
  otp,     \* whether the LDO tune and the crystal trim were programmed
  local    \* dw1000local

driver == <<pc, config, res, chip, otp, local>>

Modes == {"ss", "ds"}

\* READ_OTP stands for the four flags that ask for identifiers and for the
\* reference values of the temperature and the battery.
Flags == {"LOADUCODE", "WAKE_UP", "WUP_NO_UCODE", "WUP_RD_OTPREV", "READ_OTP"}

OtpFlags == {"WUP_RD_OTPREV", "READ_OTP"}

Words == {"blank", "value", "wrong"}

-----------------------------------------------------------------------------
\* The chip.  The system clock is on the crystal if forced so, or as long as
\* the PLL is not locked.  lde is the clock that FORCE_LDE turns on; the bit
\* for the clock of the OTP, which it leaves behind, is not told apart.

Clocks == [sys: {"auto", "xti"}, lde: BOOLEAN]

Automatic == [sys |-> "auto", lde |-> FALSE]

\* SYS_CFG: the bits that are set by default, 110 kb/s, and the frame filter.
SysCfgs == [base: BOOLEAN, r110: BOOLEAN, ff: BOOLEAN]

DefaultCfg == [base |-> TRUE, r110 |-> FALSE, ff |-> FALSE]
ZeroCfg == [base |-> FALSE, r110 |-> FALSE, ff |-> FALSE]

Chips == [power: {"off", "starting", "ready"},
          pll: BOOLEAN, clk: Clocks,
          seq: BOOLEAN,                           \* the sequencing of its blocks
          cfg: SysCfgs,
          radio: Modes \cup {"default"},          \* what dwt_configure writes besides
          addressed: BOOLEAN,                     \* addresses and antenna delays
          code: BOOLEAN, run: BOOLEAN,            \* microcode loaded, LDERUN
          ldo: BOOLEAN,                           \* LDO tune loaded
          trim: Words \cup {"default", "midrange"}]

ResetChip(power) ==
    [power |-> power, pll |-> FALSE, clk |-> Automatic, seq |-> TRUE,
     cfg |-> DefaultCfg, radio |-> "default", addressed |-> FALSE,
     code |-> FALSE, run |-> TRUE, ldo |-> FALSE, trim |-> "default"]

\* What a read of the OTP may return: the word, if the system clock is the crystal.
Readings(word) == IF chip.clk.sys = "xti" THEN {word} ELSE Words

\* The crystal has started.
PowerUp == /\ chip.power = "starting"
           /\ chip' = [chip EXCEPT !.power = "ready"]
           /\ UNCHANGED <<pc, config, res, otp, local>>

-----------------------------------------------------------------------------
\* The driver.

Locals == [sleep: SUBSET {"LLDO", "LLDE"},        \* sleep_mode
           otprev: Words \cup {"none"},
           ids: Words \cup {"none"},              \* partID, lotID, vBatP, tempP
           cfg: SysCfgs,                          \* sysCFGreg
           fctrl: Modes \cup {"default", "zero"}] \* txFCTRL

ZeroLocal == [sleep |-> {}, otprev |-> "none", ids |-> "none",
              cfg |-> ZeroCfg, fctrl |-> "zero"]

\* Mutant of EnableClocks: the clocks are not given back.
EnableClocksForced(clk, clocks) ==
    CASE clocks = "ENABLE_ALL_SEQ" -> [clk EXCEPT !.lde = FALSE]
      [] clocks = "FORCE_SYS_XTI"  -> [clk EXCEPT !.sys = "xti"]
      [] clocks = "FORCE_LDE"      -> [sys |-> "xti", lde |-> TRUE]

\* _dwt_enableclocks, as far as the initialisation uses it
EnableClocks(clk, clocks) ==
    CASE clocks = "ENABLE_ALL_SEQ" -> Automatic
      [] clocks = "FORCE_SYS_XTI"  -> [clk EXCEPT !.sys = "xti"]
      [] clocks = "FORCE_LDE"      -> [sys |-> "xti", lde |-> TRUE]

Waking == "WAKE_UP" \in config

\* A chip that has not started does not return its identity.
ReadDevId ==
    /\ pc = "devid"
    /\ local' = [local EXCEPT !.sleep = {}]
    /\ IF chip.power = "ready"
         THEN /\ pc' = IF Waking THEN "crystal" ELSE "softreset"
              /\ UNCHANGED res
         ELSE /\ pc' = "returned"
              /\ res' = FALSE
    /\ UNCHANGED <<config, chip, otp>>

\* dwt_softreset stops the sequencing of the chip's blocks,
DisableSequencing ==
    /\ pc = "softreset"
    /\ chip' = [chip EXCEPT !.seq = FALSE, !.clk = EnableClocks(@, "FORCE_SYS_XTI")]
    /\ pc' = "reset"
    /\ UNCHANGED <<config, res, otp, local>>

\* and resets it.  The PLL locks while the thread sleeps.
ResetAll ==
    /\ pc = "reset"
    /\ chip' = [ResetChip("ready") EXCEPT !.pll = TRUE]
    /\ pc' = "crystal"
    /\ UNCHANGED <<config, res, otp, local>>

\* Mutant of ForceCrystal: the OTP is read on the system clock there is.
ForceCrystalNever ==
    /\ pc = "crystal"
    /\ pc' = "ldo"
    /\ UNCHANGED <<config, res, chip, otp, local>>

ForceCrystal ==
    /\ pc = "crystal"
    /\ chip' = IF Waking /\ config \cap OtpFlags # {}
                 THEN chip
                 ELSE [chip EXCEPT !.clk = EnableClocks(@, "FORCE_SYS_XTI")]
    /\ pc' = "ldo"
    /\ UNCHANGED <<config, res, otp, local>>

\* The kick has the chip load the value from the OTP by itself.
TuneLdo ==
    /\ pc = "ldo"
    /\ \E kicked \in IF Waking THEN {chip.ldo}
                               ELSE {word # "blank": word \in Readings(otp.ldo)}:
         /\ local' = [local EXCEPT !.sleep = IF kicked THEN @ \cup {"LLDO"} ELSE @]
         /\ chip' = [chip EXCEPT !.ldo = kicked]
    /\ pc' = "trim"
    /\ UNCHANGED <<config, res, otp>>

\* One word holds the trim of the crystal and the revision of the OTP.
TrimCrystal ==
    /\ pc = "trim"
    /\ IF Waking /\ "WUP_RD_OTPREV" \notin config
         THEN /\ local' = [local EXCEPT !.otprev = "none"]
              /\ UNCHANGED chip
         ELSE \E word \in Readings(otp.trim):
                /\ local' = [local EXCEPT !.otprev = word]
                /\ chip' = IF Waking THEN chip
                           ELSE [chip EXCEPT !.trim = IF word = "blank" THEN "midrange" ELSE word]
    /\ pc' = "ids"
    /\ UNCHANGED <<config, res, otp>>

ReadIds ==
    /\ pc = "ids"
    /\ \E word \in IF "READ_OTP" \in config THEN Readings("value") ELSE {"none"}:
         local' = [local EXCEPT !.ids = word]
    /\ pc' = "code"
    /\ UNCHANGED <<config, res, chip, otp>>

\* Mutant of SetUpCode: a driver that lost its memory assumes no microcode.
SetUpCodeForgotten ==
    /\ pc = "code"
    /\ UNCHANGED local
    /\ IF ~Waking /\ "LOADUCODE" \in config
         THEN /\ chip' = [chip EXCEPT !.clk = EnableClocks(@, "FORCE_LDE")]
              /\ pc' = "load"
         ELSE /\ chip' = IF Waking THEN chip ELSE [chip EXCEPT !.run = FALSE]
              /\ pc' = "clocks"
    /\ UNCHANGED <<config, res, otp>>

\* The microcode is loaded, or its use disabled, or assumed to be loaded.
SetUpCode ==
    /\ pc = "code"
    /\ local' = IF Waking /\ "WUP_NO_UCODE" \notin config
                  THEN [local EXCEPT !.sleep = @ \cup {"LLDE"}] ELSE local
    /\ IF ~Waking /\ "LOADUCODE" \in config
         THEN /\ chip' = [chip EXCEPT !.clk = EnableClocks(@, "FORCE_LDE")]
              /\ pc' = "load"
         ELSE /\ chip' = IF Waking THEN chip ELSE [chip EXCEPT !.run = FALSE]
              /\ pc' = "clocks"
    /\ UNCHANGED <<config, res, otp>>

\* _dwt_loaducodefromrom; the chip needs its LDE clock for it.
LoadUcode ==
    /\ pc = "load"
    /\ chip' = [chip EXCEPT !.code = chip.clk.lde, !.clk = EnableClocks(@, "ENABLE_ALL_SEQ")]
    /\ local' = [local EXCEPT !.sleep = @ \cup {"LLDE"}]
    /\ pc' = "clocks"
    /\ UNCHANGED <<config, res, otp>>

SequenceClocks ==
    /\ pc = "clocks"
    /\ chip' = [chip EXCEPT !.clk = EnableClocks(@, "ENABLE_ALL_SEQ")]
    /\ pc' = "copy"
    /\ UNCHANGED <<config, res, otp, local>>

CopyRegisters ==
    /\ pc = "copy"
    /\ local' = [local EXCEPT !.cfg = chip.cfg, !.fctrl = chip.radio]
    /\ res' = TRUE
    /\ pc' = "returned"
    /\ UNCHANGED <<config, chip, otp>>

\* dwt_initialise
Initialise == \/ ReadDevId \/ DisableSequencing \/ ResetAll \/ ForceCrystal
              \/ TuneLdo \/ TrimCrystal \/ ReadIds \/ SetUpCode \/ LoadUcode
              \/ SequenceClocks \/ CopyRegisters
-----------------------------------------------------------------------------
\* What the driver took from the OTP is what the OTP holds: the comments in
\* dwt_initialise say that the reads are reliable on the crystal only.
OtpReliable == /\ local.otprev # "wrong" /\ local.ids # "wrong"
               /\ chip.trim # "wrong"

\* sleep_mode has the chip reload at its next wake-up what it has loaded now,
\* the microcode and the LDO tune, also when the driver had to reconstruct it
\* after the host lost its memory.
SleepModeMatches ==
    pc = "returned" /\ res => /\ "LLDE" \in local.sleep <=> chip.code
                              /\ "LLDO" \in local.sleep <=> chip.ldo
=============================================================================
