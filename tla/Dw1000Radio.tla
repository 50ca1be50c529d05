---------------------------- MODULE Dw1000Radio ----------------------------
(***************************************************************************)
(* The commands to the transceiver and the interrupt service routine of    *)
(* the DW1000 driver: one thread that calls dwt_starttx, dwt_rxenable,     *)
(* dwt_forcetrxoff and the configuration of interrupts and buffers, the    *)
(* routine dwt_isr that may come between any two transfers of the thread,  *)
(* and a chip that goes on by itself.                                      *)
(*                                                                         *)
(* The client keeps to the driver's documentation: it gives a command when *)
(* no other is under way, re-enables the receiver from a callback without  *)
(* synchronising the buffer pointers when both buffers are in use, and     *)
(* changes the buffering only when the transceiver is off.                 *)
(***************************************************************************)
EXTENDS Naturals, Sequences

CONSTANT MaxFrames      \* bound: frames that arrive

ASSUME RadioAssumption == MaxFrames \in Nat \ {0}

VARIABLES
  chip,       \* the transceiver, see Chips
  status,     \* SYS_STATUS without the bits that exist once per buffer
  good,       \* RXFCG of each buffer
  buf,        \* the two receive buffers
  mask,       \* SYS_MASK
  wait4resp,  \* of dw1000local
  dblbuffon,  \* of dw1000local, equal to the bit of SYS_CFG
  locked,     \* decamutexon: no interrupt
  thread,     \* the calling thread, see Threads
  isr,        \* dwt_isr, see Isrs
  tx,         \* the client's transmission: none, on air, ended and not reported
  busy,       \* the client: the command that was given and whose end was not reported
  arrived,    \* number of frames that arrived
  reported    \* what cbRxOk read, in order

chipvars == <<chip, status, good, buf>>
local == <<wait4resp, dblbuffon>>
client == <<busy, tx>>
history == <<arrived, reported>>
vars == <<chipvars, mask, local, locked, thread, isr, client, history>>

-----------------------------------------------------------------------------
\* The groups of SYS_STATUS.  RXPTO and RXRFTO are told apart because the
\* routine clears them differently; the six errors are not.
ALL_TX == {"AAT", "TXFRS"}
ALL_RX_TO == {"RXRFTO", "RXPTO"}
ALL_RX_ERR == {"RXERR"}
Events == ALL_TX \cup ALL_RX_TO \cup ALL_RX_ERR

\* SYS_MASK has no bit that matters for AAT.
Interrupts == {"RXFCG", "TXFRS"} \cup ALL_RX_TO \cup ALL_RX_ERR

\* The n-th frame to arrive, and whether it asks for an acknowledgement.
Frames == [n: 1..MaxFrames, ack: BOOLEAN]
NoFrame == [n |-> 0, ack |-> FALSE]
Buffers == {0, 1}

\* mode: "ack" is the transmission of an acknowledgement, "wrong" the receiver
\* that the chip turns on after it although nobody asked for that.
\* w4r: WAIT4RESP of the last transmission that still can have an effect.
\* late: HPDWARN or TXPUTE, the time of a delayed command has passed.
Chips == [mode: {"off", "tx", "rx", "ack", "wrong"}, w4r: BOOLEAN, late: BOOLEAN,
          ic: Buffers, hs: Buffers]

Modes == SUBSET {"delayed", "response", "idleonerr"}

Threads == [pc: {"idle", "starttx", "txcheck", "rxon", "rxcheck",
                 "off", "lock", "trxoff", "unlock"},
            mode: Modes, mask: SUBSET Interrupts]

\* st: the status read first; aat: AAT in the copy for the callbacks;
\* frame: the frame whose header was read.
Isrs == [pc: {"idle", "rx", "rxcb", "enabled", "read", "toggle", "tx", "txcb",
              "to", "tocb", "err", "errcb"},
         st: SUBSET (Events \cup {"RXFCG"}), aat: BOOLEAN, frame: Frames \cup {NoFrame}]

\* The local variables of a call and of the routine end with it.
NoCall == [pc |-> "idle", mode |-> {}, mask |-> {}]
NoInterrupt == [pc |-> "idle", st |-> {}, aat |-> FALSE, frame |-> NoFrame]

\* A transmission, one that expects a response, a reception.
Commands == {"none", "tx", "txrx", "rx"}

Init ==
    /\ chip = [mode |-> "off", w4r |-> FALSE, late |-> FALSE, ic |-> 0, hs |-> 0]
    /\ status = {} /\ good = [b \in Buffers |-> FALSE]
    /\ buf = [b \in Buffers |-> NoFrame]
    /\ mask = Interrupts
    /\ wait4resp = FALSE /\ dblbuffon \in BOOLEAN
    /\ locked = FALSE
    /\ thread = NoCall
    /\ isr = NoInterrupt
    /\ tx = "none" /\ busy = "none"
    /\ arrived = 0 /\ reported = <<>>

-----------------------------------------------------------------------------
\* The chip.

\* The host sees the status of the buffer it points at.
Seen == status \cup (IF good[chip.hs] THEN {"RXFCG"} ELSE {})

IrqLine == Seen \cap mask # {}

Off(c) == [c EXCEPT !.mode = "off", !.w4r = FALSE, !.late = FALSE]

TransmissionEnds ==
    /\ chip.mode = "tx" /\ ~chip.late
    /\ chip' = [chip EXCEPT !.mode = IF chip.w4r THEN "rx" ELSE "off"]
    /\ status' = status \cup {"TXFRS"}
    /\ tx' = "ended"
    /\ UNCHANGED <<good, buf, mask, local, locked, thread, isr, busy, history>>

\* The acknowledgement is sent; WAIT4RESP is wrongly applied once more.
AcknowledgementEnds ==
    /\ chip.mode = "ack"
    /\ chip' = [chip EXCEPT !.mode = IF chip.w4r THEN "wrong" ELSE "off"]
    /\ status' = status \cup {"TXFRS"}
    /\ UNCHANGED <<good, buf, mask, local, locked, thread, isr, client, history>>

\* A good frame.  A receiver that is on by mistake completes none: the routine,
\* which turns it off and resets a reception that has begun, is taken to be
\* quicker than a frame.  AAT may be set although the frame does not ask for an
\* acknowledgement.  One that does comes, as the driver assumes, after the
\* interrupt of the transmission before it was handled.
FrameArrives(ack, aat) ==
    LET f == [n |-> arrived + 1, ack |-> ack]
    IN  /\ chip.mode = "rx" /\ ~chip.late
        /\ arrived < MaxFrames
        /\ ack => tx = "none" /\ "TXFRS" \notin status
        /\ chip' = [chip EXCEPT !.mode = IF ack THEN "ack" ELSE "off",
                                !.w4r = @ /\ ack,
                                !.ic = IF dblbuffon THEN 1 - @ ELSE @]
        /\ status' = status \cup (IF ack \/ aat THEN {"AAT"} ELSE {})
        /\ good' = [good EXCEPT ![chip.ic] = TRUE]
        /\ buf' = [buf EXCEPT ![chip.ic] = f]
        /\ arrived' = arrived + 1
        /\ UNCHANGED <<mask, local, locked, thread, isr, client, reported>>

ReceptionFails(e) ==
    /\ chip.mode = "rx" /\ ~chip.late
    /\ chip' = [chip EXCEPT !.mode = "off", !.w4r = FALSE]
    /\ status' = status \cup {e}
    /\ UNCHANGED <<good, buf, mask, local, locked, thread, isr, client, history>>

-----------------------------------------------------------------------------
\* The receive buffer pointers.  dwt_syncrxbufptrs toggles the host's pointer
\* if it differs from the chip's.
Toggled(c) == [c EXCEPT !.hs = 1 - @]
Synced(c) == IF c.ic # c.hs THEN Toggled(c) ELSE c

\* Mutant of TrxOff: the buffer pointers are left as they are.
TrxOffUnsynced ==
    /\ chip' = Off(chip)
    /\ status' = status \ (ALL_TX \cup ALL_RX_ERR \cup ALL_RX_TO)
    /\ good' = [good EXCEPT ![chip.hs] = FALSE]
    /\ UNCHANGED buf

\* dwt_forcetrxoff from the command TRXOFF on: the transceiver is off, what
\* has happened is forgotten, the pointers are synchronised.
TrxOff ==
    /\ chip' = Synced(Off(chip))
    /\ status' = status \ (ALL_TX \cup ALL_RX_ERR \cup ALL_RX_TO)
    /\ good' = [good EXCEPT ![chip.hs] = FALSE]
    /\ UNCHANGED buf

-----------------------------------------------------------------------------
\* The thread.  It goes on when no interrupt routine runs.

Calls(from) == isr.pc = "idle" /\ thread.pc = from

Goto(pc) == thread' = IF pc = "idle" THEN NoCall ELSE [thread EXCEPT !.pc = pc]

Begin(pc, mode) == thread' = [thread EXCEPT !.pc = pc, !.mode = mode]

\* Mutant of StartTx: the driver forgets that a response is expected.
StartTxUnflagged(mode) ==
    /\ Calls("idle") /\ busy = "none"
    /\ Begin("starttx", mode)
    /\ busy' = IF "response" \in mode THEN "txrx" ELSE "tx"
    /\ UNCHANGED <<chipvars, mask, local, locked, isr, tx, history>>

\* dwt_starttx.  The flag is set before the command is given.
StartTx(mode) ==
    /\ Calls("idle") /\ busy = "none"
    /\ Begin("starttx", mode)
    /\ wait4resp' = (wait4resp \/ "response" \in mode)
    /\ busy' = IF "response" \in mode THEN "txrx" ELSE "tx"
    /\ UNCHANGED <<chipvars, mask, dblbuffon, locked, isr, tx, history>>

\* The command.  late: the time of a delayed transmission has passed.
Transmit(late) ==
    /\ Calls("starttx")
    /\ late => "delayed" \in thread.mode
    /\ Goto(IF "delayed" \in thread.mode THEN "txcheck" ELSE "idle")
    /\ chip' = [chip EXCEPT !.mode = "tx", !.w4r = "response" \in thread.mode, !.late = late]
    /\ tx' = "air"
    /\ UNCHANGED <<status, good, buf, mask, local, locked, isr, busy, history>>

\* The remedy cancels the transmission and leaves wait4resp alone.
CheckTransmission ==
    /\ Calls("txcheck")
    /\ Goto("idle")
    /\ IF chip.late
       THEN chip' = Off(chip) /\ tx' = "none" /\ busy' = "none"
       ELSE UNCHANGED <<chip, client>>
    /\ UNCHANGED <<status, good, buf, mask, local, locked, isr, history>>

\* dwt_rxenable.
SyncPointers(mode) ==
    /\ Calls("idle") /\ busy = "none"
    /\ Begin("rxon", mode)
    /\ chip' = Synced(chip)
    /\ busy' = "rx"
    /\ UNCHANGED <<status, good, buf, mask, local, locked, isr, tx, history>>

EnableReceiver(late) ==
    /\ Calls("rxon")
    /\ late => "delayed" \in thread.mode
    /\ Goto(IF "delayed" \in thread.mode THEN "rxcheck" ELSE "idle")
    /\ chip' = [chip EXCEPT !.mode = "rx", !.late = late]
    /\ UNCHANGED <<status, good, buf, mask, local, locked, isr, client, history>>

CheckReception ==
    /\ Calls("rxcheck")
    /\ Goto(IF chip.late THEN "off" ELSE "idle")
    /\ UNCHANGED <<chipvars, mask, local, locked, isr, client, history>>

\* A receiver that was enabled too late is enabled at once, if so wished.
Reenables == "delayed" \in thread.mode /\ "idleonerr" \notin thread.mode

\* dwt_forcetrxoff, called by the client at any time or by dwt_rxenable.
ForceTrxOff ==
    /\ Calls("idle")
    /\ Begin("off", {})
    /\ UNCHANGED <<chipvars, mask, local, locked, isr, client, history>>

ReadMask ==
    /\ Calls("off")
    /\ thread' = [thread EXCEPT !.pc = "lock", !.mask = mask]
    /\ UNCHANGED <<chipvars, mask, local, locked, isr, client, history>>

LockAndMask ==
    /\ Calls("lock")
    /\ Goto("trxoff")
    /\ locked' = TRUE
    /\ mask' = {}
    /\ UNCHANGED <<chipvars, local, isr, client, history>>

\* Mutant of TurnOff: the interrupts stay masked.
TurnOffMasked ==
    /\ Calls("trxoff")
    /\ Goto("unlock")
    /\ TrxOff
    /\ locked' = FALSE
    /\ tx' = "none"
    /\ UNCHANGED <<mask, local, isr, busy, history>>

TurnOff ==
    /\ Calls("trxoff")
    /\ Goto("unlock")
    /\ TrxOff
    /\ mask' = thread.mask
    /\ locked' = FALSE
    /\ tx' = "none"
    /\ UNCHANGED <<local, isr, busy, history>>

\* wait4resp is cleared after the interrupts are enabled again.
LeaveTrxOff ==
    /\ Calls("unlock")
    /\ Goto("idle")
    /\ wait4resp' = FALSE
    /\ IF Reenables
       THEN chip' = [chip EXCEPT !.mode = "rx"] /\ UNCHANGED busy
       ELSE busy' = "none" /\ UNCHANGED chip
    /\ UNCHANGED <<status, good, buf, mask, dblbuffon, locked, isr, tx, history>>

\* dwt_setinterrupt, under the lock from the read to the write.  The client
\* does without the timeouts at times.
SetInterrupt(operation) ==
    /\ Calls("idle")
    /\ mask' = CASE operation = 0 -> mask \ ALL_RX_TO
                 [] operation = 1 -> mask \cup ALL_RX_TO
                 [] operation = 2 -> Interrupts
    /\ UNCHANGED <<chipvars, local, locked, thread, isr, client, history>>

\* dwt_setdblrxbuffmode sets the flag and the bit of SYS_CFG.
SetDblRxBuffMode ==
    /\ Calls("idle") /\ busy = "none"
    /\ dblbuffon' = ~dblbuffon
    /\ UNCHANGED <<chipvars, mask, wait4resp, locked, thread, isr, client, history>>

-----------------------------------------------------------------------------
\* dwt_isr.  The events of the status read first are handled in this order,
\* whichever came first.

AfterErr == "idle"
AfterTo(st) == IF st \cap ALL_RX_ERR # {} THEN "err" ELSE AfterErr
AfterTx(st) == IF st \cap ALL_RX_TO # {} THEN "to" ELSE AfterTo(st)
AfterRx(st) == IF "TXFRS" \in st THEN "tx" ELSE AfterTx(st)
First(st) == IF "RXFCG" \in st THEN "rx" ELSE AfterRx(st)

Proceed(pc) == isr' = IF pc = "idle" THEN NoInterrupt ELSE [isr EXCEPT !.pc = pc]

Interrupt ==
    /\ isr.pc = "idle" /\ ~locked /\ IrqLine
    /\ isr' = [pc |-> First(Seen), st |-> Seen, aat |-> "AAT" \in Seen, frame |-> NoFrame]
    /\ UNCHANGED <<chipvars, mask, local, locked, thread, client, history>>

\* Mutant of GoodFrame: all events of the transmitter are cleared with AAT.
GoodFrameClearsTx ==
    LET f == buf[chip.hs]
        spurious == "AAT" \in isr.st /\ ~f.ack
    IN  /\ isr.pc = "rx"
        /\ good' = [good EXCEPT ![chip.hs] = FALSE]
        /\ isr' = [isr EXCEPT !.pc = "rxcb", !.frame = f, !.aat = @ /\ f.ack]
        /\ status' = IF spurious THEN status \ ALL_TX ELSE status
        /\ wait4resp' = (wait4resp /\ ~spurious)
        /\ UNCHANGED <<chip, buf, mask, dblbuffon, locked, thread, client, history>>

\* AAT of a frame that asks for no acknowledgement is cleared in the register
\* and in the callback's copy.
GoodFrame ==
    LET f == buf[chip.hs]
        spurious == "AAT" \in isr.st /\ ~f.ack
    IN  /\ isr.pc = "rx"
        /\ good' = [good EXCEPT ![chip.hs] = FALSE]
        /\ isr' = [isr EXCEPT !.pc = "rxcb", !.frame = f, !.aat = @ /\ f.ack]
        /\ status' = IF spurious THEN status \ {"AAT"} ELSE status
        /\ wait4resp' = (wait4resp /\ ~spurious)
        /\ UNCHANGED <<chip, buf, mask, dblbuffon, locked, thread, client, history>>

\* cbRxOk of the client.  It reads the frame, and turns the receiver on again
\* before or after that, sends at once, or leaves it at that.  While an
\* acknowledgement is sent it waits for cbTxDone; it does not send when the
\* status tells of a transmission to be confirmed yet.
RxOn == /\ chip' = [chip EXCEPT !.mode = "rx"]
        /\ busy' = "rx"

CallbackReads ==
    /\ isr.pc \in {"rxcb", "enabled"}
    /\ Proceed(IF isr.pc = "rxcb" THEN "read" ELSE "toggle")
    /\ reported' = Append(reported, buf[chip.hs])
    /\ UNCHANGED <<chipvars, mask, local, locked, thread, client, arrived>>

CallbackEnables ==
    /\ ~isr.aat
    /\ \/ isr.pc = "rxcb" /\ dblbuffon /\ Proceed("enabled")
       \/ isr.pc = "read" /\ Proceed("toggle")
    /\ RxOn
    /\ UNCHANGED <<status, good, buf, mask, local, locked, thread, tx, history>>

CallbackSends ==
    /\ isr.pc = "read" /\ ~isr.aat /\ "TXFRS" \notin isr.st
    /\ Proceed("toggle")
    /\ chip' = [chip EXCEPT !.mode = "tx", !.w4r = FALSE]
    /\ tx' = "air" /\ busy' = "tx"
    /\ UNCHANGED <<status, good, buf, mask, local, locked, thread, history>>

CallbackEnds ==
    /\ isr.pc = "read"
    /\ Proceed("toggle")
    /\ busy' = IF isr.aat THEN busy ELSE "none"
    /\ UNCHANGED <<chipvars, mask, local, locked, thread, tx, history>>

\* Mutant of ToggleBuffer: the host stays with its buffer.
KeepBuffer ==
    /\ isr.pc = "toggle"
    /\ Proceed(AfterRx(isr.st))
    /\ UNCHANGED <<chipvars, mask, local, locked, thread, client, history>>

ToggleBuffer ==
    /\ isr.pc = "toggle"
    /\ Proceed(AfterRx(isr.st))
    /\ chip' = IF dblbuffon THEN Toggled(chip) ELSE chip
    /\ UNCHANGED <<status, good, buf, mask, local, locked, thread, client, history>>

\* Mutant of FrameSent: the end of an acknowledgement is nothing special.
FrameSentPlain ==
    /\ isr.pc = "tx"
    /\ Proceed("txcb")
    /\ status' = status \ ALL_TX
    /\ UNCHANGED <<chip, good, buf, mask, local, locked, thread, client, history>>

\* The receiver that the chip wrongly turned on is turned off and reset.
FrameSent ==
    /\ isr.pc = "tx"
    /\ Proceed("txcb")
    /\ IF "AAT" \in isr.st /\ wait4resp
       THEN TrxOff /\ wait4resp' = FALSE
       ELSE status' = status \ ALL_TX /\ UNCHANGED <<chip, good, buf, wait4resp>>
    /\ UNCHANGED <<mask, dblbuffon, locked, thread, client, history>>

\* cbTxDone: the end of an acknowledgement, of a transmission, or of the first
\* half of one that expects a response.
TxDone ==
    /\ isr.pc = "txcb"
    /\ Proceed(AfterTx(isr.st))
    /\ tx' = IF isr.aat THEN tx ELSE "none"
    /\ IF isr.aat \/ busy = "tx"
       THEN \/ RxOn
            \/ busy' = "none" /\ UNCHANGED chip
       ELSE UNCHANGED <<chip, busy>>
    /\ UNCHANGED <<status, good, buf, mask, local, locked, thread, history>>

\* The routine clears one of the two timeouts itself; dwt_forcetrxoff clears both.
TimedOut ==
    /\ isr.pc = "to"
    /\ Proceed("tocb")
    /\ wait4resp' = FALSE
    /\ TrxOff
    /\ UNCHANGED <<mask, dblbuffon, locked, thread, client, history>>

Failed ==
    /\ isr.pc = "err"
    /\ Proceed("errcb")
    /\ wait4resp' = FALSE
    /\ TrxOff
    /\ UNCHANGED <<mask, dblbuffon, locked, thread, client, history>>

\* cbRxTo and cbRxErr.
ReceptionEnds ==
    /\ isr.pc \in {"tocb", "errcb"}
    /\ Proceed(IF isr.pc = "tocb" THEN AfterTo(isr.st) ELSE AfterErr)
    /\ \/ RxOn
       \/ busy' = "none" /\ UNCHANGED chip
    /\ UNCHANGED <<status, good, buf, mask, local, locked, thread, tx, history>>

-----------------------------------------------------------------------------
TxModes == SUBSET {"delayed", "response"}
RxModes == {{}, {"delayed"}, {"delayed", "idleonerr"}}

Chip == \/ TransmissionEnds
        \/ AcknowledgementEnds
        \/ \E ack, aat \in BOOLEAN: FrameArrives(ack, aat)
        \/ \E e \in ALL_RX_TO \cup ALL_RX_ERR: ReceptionFails(e)

\* The steps of a call that has begun.
Continue == \/ \E late \in BOOLEAN: Transmit(late) \/ EnableReceiver(late)
            \/ CheckTransmission
            \/ CheckReception
            \/ ReadMask
            \/ LockAndMask
            \/ TurnOff
            \/ LeaveTrxOff

Call == \/ \E mode \in TxModes: StartTx(mode)
        \/ \E mode \in RxModes: SyncPointers(mode)
        \/ ForceTrxOff
        \/ \E operation \in 0..2: SetInterrupt(operation)
        \/ SetDblRxBuffMode

Routine == \/ Interrupt
           \/ GoodFrame
           \/ CallbackReads
           \/ CallbackEnables
           \/ CallbackSends
           \/ CallbackEnds
           \/ ToggleBuffer
           \/ FrameSent
           \/ TxDone
           \/ TimedOut
           \/ Failed
           \/ ReceptionEnds

Next == Chip \/ Continue \/ Call \/ Routine

Spec == Init /\ [][Next]_vars

\* The processor takes an interrupt and finishes the routine, and the thread
\* finishes its calls.
Fairness == WF_vars(Routine) /\ WF_vars(Continue)

FairSpec == Spec /\ Fairness

-----------------------------------------------------------------------------
TypeOK ==
    /\ chip \in Chips
    /\ status \subseteq Events
    /\ good \in [Buffers -> BOOLEAN]
    /\ buf \in [Buffers -> Frames \cup {NoFrame}]
    /\ mask \subseteq Interrupts
    /\ wait4resp \in BOOLEAN /\ dblbuffon \in BOOLEAN /\ locked \in BOOLEAN
    /\ thread \in Threads
    /\ isr \in Isrs
    /\ tx \in {"none", "air", "ended"}
    /\ busy \in Commands
    /\ arrived \in 0..MaxFrames
    /\ reported \in Seq(Frames)

\* Frames received and not seen by the callback: the one whose status bits
\* the routine cleared, then the host's buffer, then the other one.
Unread == (IF isr.pc \in {"rxcb", "enabled"} THEN <<isr.frame>> ELSE <<>>)
          \o (IF good[chip.hs] THEN <<buf[chip.hs]>> ELSE <<>>)
          \o (IF good[1 - chip.hs] THEN <<buf[1 - chip.hs]>> ELSE <<>>)

Fifo == INSTANCE RxFifo WITH Frames <- Frames, Slots <- 2,
                             pending <- Unread, delivered <- reported

\* Reception through the two buffers is a queue: the callback reads the frame
\* it was called for, frames neither change places nor are overwritten, and
\* only a transceiver that is turned off drops them.
ImplementsFifo == Fifo!Spec

\* When the driver handles the end of an acknowledgement it knows whether the
\* chip may have turned the receiver on by itself: the flag is set as long as
\* WAIT4RESP can have an effect.
WaitKnown == chip.w4r /\ isr.pc \notin {"to", "err"} => wait4resp

\* The receiver that nobody asked for does not stay on: the routine has yet to
\* come to the event at which it is turned off.
WrongReceiverEnds ==
    chip.mode = "wrong" =>
        \/ {"TXFRS", "AAT"} \subseteq status
        \/ isr.pc \in {"toggle", "tx"} /\ {"TXFRS", "AAT"} \subseteq isr.st

\* A transmission that ended is confirmed or forced off, never forgotten.
EndedTxKnown ==
    tx = "ended" => \/ "TXFRS" \in status
                    \/ isr.pc = "txcb"

\* When the client was told of the end of everything it asked for, or has
\* forced the transceiver off, nothing is left that could be reported, and
\* the buffer pointers agree.
RestIsOff ==
    busy = "none" /\ isr.pc = "idle" =>
        /\ chip.mode = "off"
        /\ Seen \cap Interrupts = {}
        /\ good = [b \in Buffers |-> FALSE]
        /\ chip.ic = chip.hs

\* An event that is never masked is handled, or dropped by a command.
EventsServed == \A e \in {"RXFCG", "TXFRS", "RXERR"}: e \in Seen ~> e \notin Seen
=============================================================================
