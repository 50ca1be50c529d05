---------------------------- MODULE Dw1000Services ----------------------------
(***************************************************************************)
(* The services of the driver that share no state, side by side: a         *)
(* behaviour is one of the part that focus names, the other parts rest.    *)
(***************************************************************************)
EXTENDS Dw1000Calc

CONSTANTS
  Callers, Files, Addresses, Requests,    \* of Dw1000Registers
  Tries,                                  \* of Dw1000Clocks
  SleepCounts,                            \* values of the sleep counter
  PhyModes, SlowModes, Masks, Frames      \* of Dw1000Config

VARIABLES focus, mem, chip, locked, calls, pmsc, jobs, otp, steady,
          hif, aon, power, ucode, sleep_mode, todo, irq, asked,
          sysCfg, txFctrl, local, wanted

-----------------------------------------------------------------------------
Registers == INSTANCE Dw1000Registers

Clocks == INSTANCE Dw1000Clocks WITH chip <- pmsc

Sleep == INSTANCE Dw1000Sleep WITH Counts <- SleepCounts

Config == INSTANCE Dw1000Config WITH asked <- wanted

ASSUME ServicesAssumption == /\ Registers!RegistersAssumption
                             /\ Clocks!ClocksAssumption
                             /\ Sleep!SleepAssumption
                             /\ Config!ConfigAssumption

-----------------------------------------------------------------------------
registers == <<mem, chip, locked, calls>>
clocks == <<pmsc, jobs, otp, steady>>
sleep == <<hif, aon, power, ucode, sleep_mode, todo, irq, asked>>
config == <<sysCfg, txFctrl, local, wanted>>
services == <<focus, calc, registers, clocks, sleep, config>>

ServicesInit ==
    /\ focus \in {"calc", "registers", "clocks", "sleep", "config"}
    /\ Init
    /\ Registers!Init
    /\ Clocks!Init
    /\ Sleep!Init
    /\ Config!Init
    /\ focus # "sleep" => ucode

ServicesNext ==
    /\ \/ /\ focus = "calc" /\ Next
          /\ UNCHANGED <<registers, clocks, sleep, config>>
       \/ /\ focus = "registers" /\ Registers!Next
          /\ UNCHANGED <<calc, clocks, sleep, config>>
       \/ /\ focus = "clocks" /\ Clocks!Next
          /\ UNCHANGED <<calc, registers, sleep, config>>
       \/ /\ focus = "sleep" /\ Sleep!Next
          /\ UNCHANGED <<calc, registers, clocks, config>>
       \/ /\ focus = "config" /\ Config!Next
          /\ UNCHANGED <<calc, registers, clocks, sleep>>
    /\ UNCHANGED focus

ServicesSpec == ServicesInit /\ [][ServicesNext]_services

-----------------------------------------------------------------------------
\* The properties of the parts other than Dw1000Calc, which their modules state.

\* Transfers read and write values as a whole.
ImplementsRegisterFile == Registers!ImplementsRegisterFile

\* Units are accessed with the clocks they need.
RightClock == Clocks!RightClock

\* The clocks are as the functions that have returned leave them.
ClocksGivenBack == Clocks!ClocksGivenBack

\* Success of programming the OTP means a well programmed word.
OtpVerified == Clocks!OtpVerified

\* A sleeping chip can be woken by what the client asked for.
SleepWakes == Sleep!SleepWakes

\* A chip that the driver talks to is awake, complete and as the client asked.
AwakeComplete == Sleep!AwakeComplete

\* SYS_CFG has every field as the client asked for it last.
FieldsAsAsked == Config!FieldsAsAsked

\* The routine knows how the chip receives.
RoutineKnows == Config!RoutineKnows

\* A frame is sent with its own length in the configured mode.
FrameAsAsked == Config!FrameAsAsked

\* The registers that several functions share are as those functions asked for.
RegistersAsAsked == Config!RegistersAsAsked
=============================================================================
