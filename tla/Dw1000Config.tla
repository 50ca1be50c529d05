----------------------------- MODULE Dw1000Config -----------------------------
(***************************************************************************)
(* The two registers of the DW1000 that several functions of the driver    *)
(* share, SYS_CFG and TX_FCTRL, and the copies the driver keeps of them.   *)
(* Six functions change fields of SYS_CFG; each writes the fields of the   *)
(* others back as well, some as the register has them, some as the copy    *)
(* sysCFGreg has them, and dwt_setrxtimeout one byte of the register only. *)
(* TX_FCTRL is written anew for every frame, from a copy of what           *)
(* dwt_configure decided.  The interrupt routine goes by two more copies,  *)
(* longFrames and dblbuffon.                                               *)
(*                                                                         *)
(* The client initialises the driver after a reset before it calls         *)
(* anything else, and configures it before it sends.  A sleep keeps the    *)
(* two registers; a host that lost its memory in it initialises the driver *)
(* again, with DWT_DW_WAKE_UP, and goes on as before.                      *)
(***************************************************************************)
EXTENDS Naturals

CONSTANTS PhyModes,     \* preamble length, frequency and bit rate of dwt_config_t
          SlowModes,    \* those at the bit rate DWT_BR_110K
          Masks,        \* sets of types of frames that the client lets pass
          Frames        \* lengths of frames, each as the set of its bits

Types == {"FFBC", "FFAB", "FFAD", "FFAA", "FFAM", "FFAR", "FFA4", "FFA5"}

Default == "as after a reset"

ConfigAssumption ==
  /\ Default \notin PhyModes /\ SlowModes \subseteq PhyModes
  /\ Masks \subseteq SUBSET Types
  /\ Frames \subseteq SUBSET (0..9)

VARIABLES
  sysCfg,   \* SYS_CFG: the bits that are set
  txFctrl,  \* TX_FCTRL: the mode and the bits of the length
  local,    \* the driver's sysCFGreg, longFrames, dblbuffon and txFCTRL
  asked     \* what the client asked for since the reset

vars == <<sysCfg, txFctrl, local, asked>>

\* After a reset there is a single receive buffer, and a length of 12.
SysCfgDefault == {"DIS_DRXB"}
TxFctrlDefault == [mode |-> Default, frame |-> {2, 3}]

\* ready: the driver is initialised.  woken: double buffering is from before the
\* last wake-up.  left: the bits of a length that are in the register when the
\* driver is reset or initialised, until it is configured.
NothingAsked ==
    [ready |-> FALSE, mode |-> Default, long |-> FALSE, types |-> {}, double |-> FALSE,
     smart |-> TRUE, autoAck |-> FALSE, timeout |-> FALSE, woken |-> FALSE,
     frame |-> {}, left |-> TxFctrlDefault.frame]

Init ==
    /\ sysCfg = SysCfgDefault /\ txFctrl = TxFctrlDefault
    /\ local = [sysCFGreg |-> {}, longFrames |-> FALSE, dblbuffon |-> FALSE,
                txFCTRL |-> [mode |-> Default, frame |-> {}]]
    /\ asked = NothingAsked

Ready == asked.ready

\* A bit switched on or off among others.
Switched(bits, bit, on) == IF on THEN bits \cup {bit} ELSE bits \ {bit}

-----------------------------------------------------------------------------
\* dwt_softreset: the driver's copies are left as they are.
SoftReset ==
    /\ sysCfg' = SysCfgDefault /\ txFctrl' = TxFctrlDefault
    /\ asked' = NothingAsked
    /\ UNCHANGED local

\* dwt_initialise of a chip that does not answer with its identity.
InitialiseFails ==
    /\ local' = [local EXCEPT !.dblbuffon = FALSE]
    /\ asked' = [asked EXCEPT !.ready = FALSE]
    /\ UNCHANGED <<sysCfg, txFctrl>>

\* What dwt_initialise reads into the copies in the end.
Copied(bits, fctrl) ==
    [sysCFGreg |-> bits, longFrames |-> "PHR_MODE" \in bits, dblbuffon |-> FALSE,
     txFCTRL |-> fctrl]

\* dwt_initialise, which resets the chip,
Initialise ==
    /\ sysCfg' = SysCfgDefault /\ txFctrl' = TxFctrlDefault
    /\ local' = Copied(SysCfgDefault, TxFctrlDefault)
    /\ asked' = [NothingAsked EXCEPT !.ready = TRUE]

\* unless it is called with DWT_DW_WAKE_UP.
InitialiseAfterWakeUp ==
    /\ local' = Copied(sysCfg, txFctrl)
    /\ asked' = [asked EXCEPT !.ready = TRUE, !.woken = asked.double,
                              !.left = txFctrl.frame]
    /\ UNCHANGED <<sysCfg, txFctrl>>

-----------------------------------------------------------------------------
\* dwt_configure.
Configure(mode, long) ==
    LET slow == Switched(local.sysCFGreg, "RXM110K", mode \in SlowModes)
        bits == Switched(slow, "PHR_MODE", long)
        fctrl == [mode |-> mode, frame |-> {}]
    IN  /\ Ready
        /\ sysCfg' = bits /\ txFctrl' = fctrl
        /\ local' = [local EXCEPT !.sysCFGreg = bits, !.longFrames = long, !.txFCTRL = fctrl]
        /\ asked' = [asked EXCEPT !.mode = mode, !.long = long, !.frame = {}, !.left = {}]

\* dwt_writetxfctrl.
WriteTxFctrl(frame) ==
    /\ Ready /\ asked.mode # Default
    /\ txFctrl' = [local.txFCTRL EXCEPT !.frame = @ \cup frame]
    /\ asked' = [asked EXCEPT !.frame = frame]
    /\ UNCHANGED <<sysCfg, local>>

\* The functions that begin with the register: dwt_enableframefilter,
EnableFrameFilter(mask) ==
    LET bits == IF mask # {} THEN (sysCfg \ Types) \cup mask \cup {"FFE"} ELSE sysCfg \ {"FFE"}
    IN  /\ Ready
        /\ sysCfg' = bits /\ local' = [local EXCEPT !.sysCFGreg = bits]
        /\ asked' = [asked EXCEPT !.types = mask]
        /\ UNCHANGED txFctrl

\* and dwt_setsmarttxpower.
SetSmartTxPower(on) ==
    LET bits == Switched(sysCfg, "DIS_STXP", ~on)
    IN  /\ Ready
        /\ sysCfg' = bits /\ local' = [local EXCEPT !.sysCFGreg = bits]
        /\ asked' = [asked EXCEPT !.smart = on]
        /\ UNCHANGED txFctrl

\* Those that begin with the copy: dwt_enableautoack,
EnableAutoAck ==
    LET bits == Switched(local.sysCFGreg, "AUTOACK", TRUE)
    IN  /\ Ready
        /\ sysCfg' = bits /\ local' = [local EXCEPT !.sysCFGreg = bits]
        /\ asked' = [asked EXCEPT !.autoAck = TRUE]
        /\ UNCHANGED txFctrl

\* and dwt_setdblrxbuffmode.
SetDblRxBuffMode(on) ==
    LET bits == Switched(local.sysCFGreg, "DIS_DRXB", ~on)
    IN  /\ Ready
        /\ sysCfg' = bits
        /\ local' = [local EXCEPT !.sysCFGreg = bits, !.dblbuffon = on]
        /\ asked' = [asked EXCEPT !.double = on, !.woken = FALSE]
        /\ UNCHANGED txFctrl

\* Mutant of SetRxTimeout: the copy is not changed.
SetRxTimeoutUncopied(on) ==
    /\ Ready
    /\ sysCfg' = Switched(sysCfg, "RXWTOE", on)
    /\ asked' = [asked EXCEPT !.timeout = on]
    /\ UNCHANGED <<txFctrl, local>>

\* dwt_setrxtimeout changes both, each for itself.
SetRxTimeout(on) ==
    /\ Ready
    /\ sysCfg' = Switched(sysCfg, "RXWTOE", on)
    /\ local' = [local EXCEPT !.sysCFGreg = Switched(@, "RXWTOE", on)]
    /\ asked' = [asked EXCEPT !.timeout = on]
    /\ UNCHANGED txFctrl

-----------------------------------------------------------------------------
Next ==
    \/ SoftReset
    \/ InitialiseFails
    \/ Initialise
    \/ InitialiseAfterWakeUp
    \/ \E mode \in PhyModes, long \in BOOLEAN: Configure(mode, long)
    \/ \E frame \in Frames: WriteTxFctrl(frame)
    \/ \E mask \in Masks: EnableFrameFilter(mask)
    \/ \E on \in BOOLEAN: SetSmartTxPower(on) \/ SetDblRxBuffMode(on) \/ SetRxTimeout(on)
    \/ EnableAutoAck

Spec == Init /\ [][Next]_vars

-----------------------------------------------------------------------------
\* What the functions asked of SYS_CFG one after the other is in the register,
\* each field as it was asked for last, whichever function wrote it back since:
\* none undoes what another did with a copy that is out of date.
FieldsAsAsked ==
    /\ IF asked.types = {} THEN "FFE" \notin sysCfg
       ELSE "FFE" \in sysCfg /\ sysCfg \cap Types = asked.types
    /\ "RXM110K" \in sysCfg <=> asked.mode \in SlowModes
    /\ "PHR_MODE" \in sysCfg <=> asked.long
    /\ "DIS_DRXB" \in sysCfg <=> ~asked.double
    /\ "DIS_STXP" \in sysCfg <=> ~asked.smart
    /\ "AUTOACK" \in sysCfg <=> asked.autoAck
    /\ "RXWTOE" \in sysCfg <=> asked.timeout

\* The interrupt routine reads frames as the chip receives them: it takes long
\* frames for long when the chip does, and toggles the buffers when there are
\* two.  The exception is double buffering from before a wake-up at which the
\* driver was initialised: dwt_initialise takes it to be off, and the driver
\* knows of it only when it is switched on again.
RoutineKnows ==
    Ready => /\ local.longFrames <=> "PHR_MODE" \in sysCfg
             /\ ~asked.woken => (local.dblbuffon <=> "DIS_DRXB" \notin sysCfg)

\* A frame is sent with its own length, in the mode of the last configuration,
\* whatever frames were sent since: the exception are the frames from
\* dwt_initialise after a wake-up to dwt_configure, to which the bits of the
\* length are added that the register had at the wake-up.
FrameAsAsked ==
    txFctrl = [mode |-> asked.mode, frame |-> asked.frame \cup asked.left]

\* The registers that several functions share are, with the driver's copies of
\* them, as the functions asked for: the fields of SYS_CFG, what the routine
\* takes from it, and the frames.
RegistersAsAsked == FieldsAsAsked /\ RoutineKnows /\ FrameAsAsked
=============================================================================
