---------------------------- MODULE Dw1000Clocks ----------------------------
(***************************************************************************)
(* The services of the DW1000 driver that change the chip's clocks for a   *)
(* time, run by a thread that the interrupt routine interrupts between any *)
(* two transfers: the routine resets the receiver, or its callback reads   *)
(* the accumulator, which needs clocks of its own.  PMSC_CTRL0 is the set  *)
(* of its bits.                                                            *)
(*                                                                         *)
(* A service is the list of its steps.  The client lets only the routine   *)
(* read the accumulator, and resets the chip after a test mode.  The chip  *)
(* comes out of a reset with none of these bits set.                       *)
(***************************************************************************)
EXTENDS Naturals, Sequences

CONSTANT Tries       \* how often a word of the OTP is programmed, 10 in the code

ClocksAssumption == Tries \in Nat \ {0}

VARIABLES
  chip,      \* PMSC_CTRL0; whether PMSC_CTRL1 sequences the blocks of the
             \* chip and whether RF_CONF forces those of the transmitter on
  jobs,      \* of the thread and the routine: service, steps to come, variables
  otp,       \* a word of the OTP, the mode registers and the attempts to program it
  steady     \* what the services that have returned leave on, each by itself

vars == <<chip, jobs, otp, steady>>

-----------------------------------------------------------------------------
\* The two bytes that _dwt_enableclocks reads and writes; the third one has
\* the clocks of the pins, the fourth one PLL2_SEQ_EN and the resets.
SysClks == {"SYS_XTI", "SYS_PLL"}
RxClks == {"RX_XTI", "RX_PLL"}
TxClks == {"TX_XTI", "TX_PLL"}
Low == SysClks \cup RxClks \cup TxClks \cup {"FACE"}
High == {"LDE", "OTP", "ACC", "TX_TEST"}
Third == {"GPCE", "GPRN", "GPDCE", "KHZCLEN"}
Fourth == {"PLL2_SEQ_EN"}

\* _dwt_enableclocks: what becomes of the bytes that were read.
NewLow(clocks, reg) ==
    CASE clocks = "ENABLE_ALL_SEQ" -> {}
      [] clocks = "FORCE_SYS_XTI" -> {"SYS_XTI"} \cup ((reg \cap Low) \ SysClks)
      [] clocks = "FORCE_SYS_PLL" -> {"SYS_PLL"} \cup ((reg \cap Low) \ SysClks)
      [] clocks = "READ_ACC_ON" -> {"FACE", "RX_PLL"} \cup ((reg \cap Low) \ RxClks)
      [] clocks = "READ_ACC_OFF" -> (reg \cap Low) \ ({"FACE"} \cup RxClks)
      [] clocks = "FORCE_TX_PLL" -> {"TX_PLL"} \cup ((reg \cap Low) \ TxClks)
      [] clocks = "FORCE_LDE" -> {"SYS_XTI"}

\* Mutant of NewHigh: the clock of the accumulator is left on.
NewHighKept(clocks, reg) ==
    CASE clocks = "ENABLE_ALL_SEQ" -> (reg \cap High) \ {"LDE"}
      [] clocks = "READ_ACC_ON" -> (reg \cap High) \cup {"ACC"}
      [] clocks = "FORCE_LDE" -> {"LDE", "OTP"}
      [] OTHER -> reg \cap High

NewHigh(clocks, reg) ==
    CASE clocks = "ENABLE_ALL_SEQ" -> (reg \cap High) \ {"LDE"}
      [] clocks = "READ_ACC_ON" -> (reg \cap High) \cup {"ACC"}
      [] clocks = "READ_ACC_OFF" -> (reg \cap High) \ {"ACC"}
      [] clocks = "FORCE_LDE" -> {"LDE", "OTP"}
      [] OTHER -> reg \cap High

-----------------------------------------------------------------------------
\* Steps.  "get" reads PMSC_CTRL0, "low" and "high" write a byte of what was
\* read as _dwt_enableclocks changes it, "byte" writes a byte as given, "put"
\* writes all of what was read with bits set or cleared.  "use" is the access
\* for which the clocks were changed.
Step(do, arg) == [do |-> do, arg |-> arg]
Enable(clocks) == <<Step("get", "CTRL0"), Step("low", clocks), Step("high", clocks)>>
Use(unit) == <<Step("use", unit)>>
Set(bits) == <<Step("get", "CTRL0"), Step("set", bits)>>
Clear(bits) == <<Step("get", "CTRL0"), Step("clear", bits)>>
LowByte(bits) == <<Step("lowbyte", bits)>>
HighByte(bits) == <<Step("highbyte", bits)>>
Sequencing(on) == <<Step("ctrl1", on)>>
Blocks(on) == <<Step("rf", on)>>

DisableSequencing == Enable("FORCE_SYS_XTI") \o Sequencing(FALSE)

\* Mutant of OtpRead: the word is read on the clock there is.
OtpReadUnforced == Use("otp") \o Enable("ENABLE_ALL_SEQ")

OtpRead == Enable("FORCE_SYS_XTI") \o Use("otp") \o Enable("ENABLE_ALL_SEQ")

LoadOpsetTab == Enable("FORCE_LDE") \o Use("ops") \o Enable("ENABLE_ALL_SEQ")

ReadTempVbat(fastSPI) ==
    IF fastSPI THEN Use("bias")
    ELSE Use("bias") \o Enable("FORCE_SYS_XTI") \o Use("sar") \o Enable("ENABLE_ALL_SEQ")

\* Both calibrations of the pulse generator.
CountPulses ==
    <<Step("save", "CTRL0"), Step("save", "CTRL1"), Step("save", "RF_CONF")>>
    \o LowByte({"SYS_XTI"}) \o Sequencing(FALSE) \o Blocks(TRUE)
    \o LowByte({"SYS_PLL", "TX_PLL"}) \o Use("pg") \o Use("pg")
    \o <<Step("restore", "CTRL0"), Step("restore", "CTRL1"), Step("restore", "RF_CONF")>>

ConfigCwMode ==
    DisableSequencing \o Blocks(TRUE) \o LowByte({"SYS_PLL", "TX_PLL"})
    \o HighByte({"LDE", "OTP", "TX_TEST"}) \o Use("tx")

ConfigContinuousFrameMode ==
    DisableSequencing \o Blocks(TRUE)
    \o Enable("FORCE_SYS_PLL") \o Enable("FORCE_TX_PLL") \o Use("tx")

\* Mutant of OtpWriteAndVerify: the word is verified as it was programmed.
OtpVerifiedAtOnce ==
    Enable("FORCE_SYS_XTI")
    \o <<Step("mode", 1), Step("program", 1), Step("check", 1), Step("verify", 1), Step("mode", 0)>>

OtpWriteAndVerify ==
    Enable("FORCE_SYS_XTI")
    \o <<Step("mode", 1), Step("program", 1), Step("check", 1),
         Step("mode", 4), Step("verify", 4), Step("mode", 0)>>

\* dwt_softreset: all registers are reset, with the clocks.
SoftReset == DisableSequencing \o <<Step("softreset", "ALL"), Step("softreset", "CLEAR")>>

\* dwt_readaccdata of a callback, and dwt_rxreset of the routine.
ReadAccData == Enable("READ_ACC_ON") \o Use("acc") \o Enable("READ_ACC_OFF")
RxReset == <<Step("rxreset", "RX"), Step("rxreset", "CLEAR")>>

EnableGpioClocks == Set({"GPCE", "GPRN"})
SetLeds == Set({"GPDCE", "KHZCLEN"})

Services == {"otpread", "loadopsettabfromotp", "readtempvbat_slow", "readtempvbat_fast",
             "calcbandwidthtempadj", "enablegpioclocks", "setleds", "softreset",
             "sniff_on", "sniff_off", "configcwmode", "configcontinuousframemode",
             "otpwriteandverify"}

Steps(service) ==
    CASE service = "otpread" -> OtpRead
      [] service = "loadopsettabfromotp" -> LoadOpsetTab
      [] service = "readtempvbat_slow" -> ReadTempVbat(FALSE)
      [] service = "readtempvbat_fast" -> ReadTempVbat(TRUE)
      [] service = "calcbandwidthtempadj" -> CountPulses
      [] service = "enablegpioclocks" -> EnableGpioClocks
      [] service = "setleds" -> SetLeds
      [] service = "softreset" -> SoftReset
      [] service = "sniff_on" -> Set({"PLL2_SEQ_EN"})
      [] service = "sniff_off" -> Clear({"PLL2_SEQ_EN"})
      [] service = "configcwmode" -> ConfigCwMode
      [] service = "configcontinuousframemode" -> ConfigContinuousFrameMode
      [] service = "otpwriteandverify" -> OtpWriteAndVerify
      [] service = "readaccdata" -> ReadAccData
      [] service = "rxreset" -> RxReset

\* Services after which the blocks of the chip stay under the control of the driver.
TestModes == {"configcwmode", "configcontinuousframemode"}

\* What a service leaves on, where on was before it.  ENABLE_ALL_SEQ switches off
\* what FORCE_LDE switched on but for the clock of the OTP; nothing switches off
\* the clock dwt_otpwriteandverify forces; and dwt_rxreset writes the whole of
\* the fourth byte.
Leaves(service, on) ==
    CASE service \in {"otpread", "readtempvbat_slow"} -> on \ Low
      [] service = "loadopsettabfromotp" -> (on \ Low) \cup {"OTP"}
      [] service = "otpwriteandverify" -> on \cup {"SYS_XTI"}
      [] service = "enablegpioclocks" -> on \cup {"GPCE", "GPRN"}
      [] service = "setleds" -> on \cup {"GPDCE", "KHZCLEN"}
      [] service = "sniff_on" -> on \cup Fourth
      [] service \in {"sniff_off", "rxreset"} -> on \ Fourth
      [] service = "configcwmode" ->
           (on \ (Low \cup High)) \cup {"SYS_PLL", "TX_PLL", "LDE", "OTP", "TX_TEST"}
      [] service = "configcontinuousframemode" -> (on \ Low) \cup {"SYS_PLL", "TX_PLL"}
      [] service = "softreset" -> {}
      [] OTHER -> on

-----------------------------------------------------------------------------
Sequenced == [CTRL0 |-> {}, CTRL1 |-> TRUE, RF_CONF |-> FALSE]
Idle == [service |-> "none", steps |-> <<>>, reg |-> {}, saved |-> Sequenced]
BlankWord == [word |-> "blank", mode |-> 0, tries |-> 0, result |-> "none"]

Init ==
    /\ chip = Sequenced
    /\ jobs = [who \in {"thread", "routine"} |-> Idle]
    /\ otp = BlankWord
    /\ steady = {}

Busy(who) == jobs[who].steps # <<>>
Start(who, service) ==
    jobs' = [jobs EXCEPT ![who] = [Idle EXCEPT !.service = service, !.steps = Steps(service)]]

\* After a test mode the client calls nothing but dwt_softreset.  Each word of
\* the OTP is programmed once.
Call(service) ==
    /\ ~Busy("thread") /\ ~Busy("routine")
    /\ jobs["thread"].service \in TestModes => service = "softreset"
    /\ Start("thread", service)
    /\ otp' = BlankWord
    /\ UNCHANGED <<chip, steady>>

\* There is no reception, and no interrupt, once the blocks are not sequenced.
Interrupt(service) ==
    /\ ~Busy("routine") /\ chip.CTRL1
    /\ Start("routine", service)
    /\ UNCHANGED <<chip, otp, steady>>

-----------------------------------------------------------------------------
\* PMSC_CTRL0 after a step of a job, and the other registers.
Ctrl0After(s, job) ==
    CASE s.do = "low" -> (chip.CTRL0 \ Low) \cup NewLow(s.arg, job.reg)
      [] s.do = "high" -> (chip.CTRL0 \ High) \cup NewHigh(s.arg, job.reg)
      [] s.do = "set" -> job.reg \cup s.arg
      [] s.do = "clear" -> job.reg \ s.arg
      [] s.do = "lowbyte" -> (chip.CTRL0 \ Low) \cup s.arg
      [] s.do = "highbyte" -> (chip.CTRL0 \ High) \cup s.arg
      [] s.do = "rxreset" -> chip.CTRL0 \ Fourth
      [] OTHER -> chip.CTRL0

ChipAfter(s, job) ==
    CASE s.do = "ctrl1" -> [chip EXCEPT !.CTRL1 = s.arg]
      [] s.do = "rf" -> [chip EXCEPT !.RF_CONF = s.arg]
      [] s.do = "restore" ->
           [chip EXCEPT ![s.arg] = IF s.arg = "CTRL0" THEN (@ \ Low) \cup (job.saved.CTRL0 \cap Low)
                                   ELSE job.saved[s.arg]]
      [] s.do = "softreset" -> Sequenced
      [] OTHER -> [chip EXCEPT !.CTRL0 = Ctrl0After(s, job)]

\* What a job keeps of a read.
JobAfter(s, job) ==
    CASE s.do = "get" -> [job EXCEPT !.reg = chip.CTRL0]
      [] s.do = "save" -> [job EXCEPT !.saved[s.arg] = chip[s.arg]]
      [] OTHER -> job

\* With the low margin of mode 4 only a well programmed word reads as the value.
Reads == IF otp.mode = 4 THEN otp.word = "value" ELSE otp.word # "blank"

Programmed == CASE otp.word = "blank" -> {"blank", "weak", "value"}
                [] otp.word = "weak" -> {"weak", "value"}
                [] otp.word = "value" -> {"value"}

OtpAfter(s) ==
    CASE s.do = "mode" -> {[otp EXCEPT !.mode = s.arg]}
      [] s.do = "program" -> {[otp EXCEPT !.word = w, !.tries = @ + 1]: w \in Programmed}
      [] s.do = "verify" -> {[otp EXCEPT !.result = IF Reads THEN "success" ELSE "error"]}
      [] OTHER -> {otp}

\* A word that does not read as the value is programmed again.
StepsAfter(s, rest) ==
    IF s.do = "check" /\ ~Reads /\ otp.tries < Tries THEN <<Step("program", 1), s>> \o rest ELSE rest

\* The routine runs to its end before the thread goes on.
Advance(who) ==
    /\ Busy(who)
    /\ who = "thread" => ~Busy("routine")
    /\ LET job == jobs[who]
           s == Head(job.steps)
           rest == StepsAfter(s, Tail(job.steps))
       IN  /\ chip' = ChipAfter(s, job)
           /\ otp' \in OtpAfter(s)
           /\ jobs' = [jobs EXCEPT ![who] = [JobAfter(s, job) EXCEPT !.steps = rest]]
           /\ steady' = IF rest = <<>> THEN Leaves(job.service, steady) ELSE steady

Next == \/ \E service \in Services: Call(service)
        \/ \E service \in {"readaccdata", "rxreset"}: Interrupt(service)
        \/ \E who \in {"thread", "routine"}: Advance(who)

Spec == Init /\ [][Next]_vars

-----------------------------------------------------------------------------
\* The clocks without which a unit gives no reliable answer.
Needs == [otp |-> {"SYS_XTI"}, sar |-> {"SYS_XTI"}, ops |-> {"SYS_XTI", "LDE"},
          pg |-> {"SYS_PLL", "TX_PLL"}, tx |-> {"SYS_PLL", "TX_PLL"},
          acc |-> {"FACE", "ACC", "RX_PLL"}, bias |-> {}]

\* The unit a step of a job accesses; the OTP is programmed and verified, too.
Accesses(s) == CASE s.do = "use" -> {s.arg}
                 [] s.do \in {"program", "check", "verify"} -> {"otp"}
                 [] OTHER -> {}

\* Whenever a service accesses the unit it changed the clocks for, those clocks
\* are on, whatever the interrupt routine did to the same register since: the
\* OTP is read and programmed and the temperature read on the crystal, the pulse
\* generator runs on the PLL with the blocks under the control of the driver.
RightClock ==
    \A who \in DOMAIN jobs: Busy(who) =>
       \A unit \in Accesses(Head(jobs[who].steps)):
          /\ Needs[unit] \subseteq chip.CTRL0
          /\ unit \in {"pg", "tx"} => ~chip.CTRL1 /\ chip.RF_CONF

\* When no service runs, the clocks that are on are exactly those that the
\* services called so far leave on, each by itself: no clock that a service or
\* the routine forced for a time stays on because the other wrote a byte as it
\* had read it before, and none that is to stay on is lost.  The blocks are
\* sequenced by the chip but in a test mode.  PLL2_SEQ_EN may come back with a
\* register read before dwt_rxreset cleared it, but is not lost otherwise.
ClocksGivenBack ==
    ~Busy("thread") /\ ~Busy("routine") =>
       /\ chip.CTRL0 \cap (Low \cup High \cup Third) = steady \cap (Low \cup High \cup Third)
       /\ steady \cap Fourth \subseteq chip.CTRL0
       /\ chip.CTRL1 <=> jobs["thread"].service \notin TestModes
       /\ chip.RF_CONF <=> jobs["thread"].service \in TestModes

\* dwt_otpwriteandverify reports success only for a word that reads as the
\* value with the low margin too, tries no more often than allowed, and leaves
\* the mode registers at 0.
OtpVerified ==
    otp.result # "none" /\ ~Busy("thread") =>
       /\ otp.result = "success" => otp.word = "value"
       /\ otp.tries \in 1..Tries /\ otp.mode = 0
=============================================================================
