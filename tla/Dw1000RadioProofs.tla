------------------------- MODULE Dw1000RadioProofs -------------------------
(***************************************************************************)
(* Proofs for Dw1000Radio, for every number of frames: the inductive       *)
(* invariant of the chip, the thread and the routine, the safety           *)
(* properties that follow from it, and the refinement of RxFifo.           *)
(*                                                                         *)
(* The states are looked at through a few names (Here, Sent, Acking...).   *)
(* Each action first tells how it changes these, then that it keeps each   *)
(* part of the invariant.                                                  *)
(***************************************************************************)
EXTENDS Dw1000Radio, SequenceTheorems, TLAPS

-----------------------------------------------------------------------------
\* The ends of a reception without a frame.
RxEvents == ALL_RX_TO \cup ALL_RX_ERR

\* The steps of the routine around cbRxOk, before it toggles the buffer.
Callback == {"rxcb", "enabled", "read", "toggle"}
\* The commands that can end with a reception.
Receiving == {"rx", "txrx"}

\* The buffer the host points at and the other one: full or not, and the frame.
Here == good[chip.hs]
There == good[1 - chip.hs]
HereFrame == buf[chip.hs]
ThereFrame == buf[1 - chip.hs]
\* Chip and host point at the same buffer.
Same == chip.ic = chip.hs
\* What the status tells: something was sent, AAT, a reception ended without a frame.
Sent == "TXFRS" \in status
Answered == "AAT" \in status
Missed == status \cap RxEvents # {}
\* An acknowledgement is sent, or was sent and its end is not handled yet.
Acking == chip.mode \in {"ack", "wrong"} \/ (Sent /\ tx = "none")

\* Nothing is under way and nothing is left to report.
Quiet == /\ chip.mode = "off" /\ ~chip.w4r /\ ~chip.late
         /\ status = {} /\ ~Here /\ ~There /\ Same
         /\ tx = "none"

\* A command is given to a chip at rest, under the flags its mode calls for.  Only
\* a receiver that was enabled too late makes the thread turn the transceiver off
\* by itself.
ThreadInv ==
    /\ locked <=> thread.pc = "trxoff"
    /\ isr.pc # "idle" => thread.pc \notin {"starttx", "rxon", "trxoff", "unlock"}
    /\ thread.pc \in {"starttx", "rxon", "unlock"} => Quiet
    /\ thread.pc = "starttx" =>
         IF "response" \in thread.mode THEN busy = "txrx" /\ wait4resp ELSE busy = "tx"
    /\ thread.pc = "rxon" => busy = "rx"
    /\ "delayed" \in thread.mode /\ thread.pc \in {"off", "lock", "trxoff", "unlock"} =>
         busy = "rx" /\ (chip.late \/ thread.pc = "unlock")

\* A command whose time has passed waits for the thread's check, and nothing
\* happens meanwhile.
LateInv ==
    chip.late =>
        /\ isr.pc = "idle"
        /\ status = {} /\ ~Here /\ ~There
        /\ \/ thread.pc = "txcheck" /\ chip.mode = "tx"
           \/ thread.pc \in {"rxcheck", "off", "lock", "trxoff"} /\ chip.mode = "rx"
        /\ thread.pc = "rxcheck" => busy = "rx" /\ "delayed" \in thread.mode

\* What the mode of the chip tells about the client and the status.
ModeInv ==
    /\ chip.mode = "tx" <=> tx = "air"
    /\ chip.mode = "tx" => /\ status = {} /\ ~Here /\ ~There
                           /\ busy \in {"tx", "txrx"}
                           /\ isr.pc \in {"idle", "toggle"}
    /\ chip.mode = "rx" => ~Answered /\ ~Missed /\ ~Here /\ ~There /\ busy \in Receiving
    /\ chip.mode = "ack" => ~Sent
    /\ chip.mode = "wrong" => Sent /\ chip.w4r
    /\ chip.w4r => chip.mode # "off" /\ busy = "txrx" /\ wait4resp

\* Whose events the status holds.  AAT belongs to an acknowledgement or to a
\* frame that waits; the end of a transmission stays until it is reported; a
\* client that has been told of everything has an empty status.
StatusInv ==
    /\ Acking => Answered /\ tx = "none" /\ chip.mode \notin {"tx", "rx"}
    /\ Answered => ~Missed /\ busy \in Receiving /\ chip.mode \notin {"tx", "rx"}
    /\ Answered /\ ~Here /\ ~There => Acking
    /\ Missed => chip.mode = "off" /\ ~Here /\ ~There /\ busy \in Receiving
    /\ \A e, f \in status \cap RxEvents: e = f
    /\ tx = "ended" => Sent \/ (isr.pc = "txcb" /\ ~isr.aat)
    /\ tx = "ended" /\ busy = "tx" =>
         chip.mode = "off" /\ ~Missed /\ ~Answered /\ ~Here /\ ~There
    /\ tx = "none" /\ busy = "tx" => thread.pc \in {"starttx", "unlock"}
    /\ busy = "none" => /\ chip.mode = "off" /\ ~Missed /\ ~Answered /\ ~Here /\ ~There
                        /\ isr.pc \in {"idle", "toggle", "tx", "txcb"}
                        /\ tx = "ended" => isr.pc # "idle" /\ "TXFRS" \in isr.st

\* Where the pointers are, which buffer is full, and that only the frame that
\* asks for it is acknowledged.
BufferInv ==
    /\ isr.pc \notin Callback => ~There /\ (Here /\ dblbuffon <=> ~Same)
    /\ isr.pc \in Callback =>
         IF dblbuffon THEN ~Here /\ (There <=> Same)
                      ELSE Same /\ ~There /\ isr.pc # "enabled"
    /\ isr.pc \in {"rxcb", "read"} => ~Here /\ ~There
    /\ Here => HereFrame \in Frames /\ (HereFrame.ack <=> Acking)
    /\ There => ThereFrame \in Frames /\ (ThereFrame.ack <=> Acking)
    /\ Here \/ There => chip.mode \notin {"tx", "rx"} /\ busy \in Receiving
    /\ isr.pc \in {"rxcb", "enabled"} => isr.frame = HereFrame /\ isr.frame \in Frames

\* What the routine read first is consistent with the step it has reached.
SnapshotInv ==
    /\ isr.pc = "idle" => isr = NoInterrupt
    /\ isr.aat => "AAT" \in isr.st
    /\ \A e, f \in isr.st \cap RxEvents: e = f
    /\ isr.st \cap RxEvents # {} => isr.st \cap {"RXFCG", "AAT"} = {}
    /\ isr.pc \in Callback \cup {"rx"} => "RXFCG" \in isr.st
    /\ isr.pc \in {"tx", "txcb"} => "TXFRS" \in isr.st
    /\ isr.pc \in {"to", "tocb"} => isr.st \cap ALL_RX_TO # {}
    /\ isr.pc \in {"err", "errcb"} => isr.st \cap ALL_RX_ERR # {}

\* What the routine has read still holds in the registers, until the step that
\* clears it, and its copy of AAT is set for acknowledgements alone.
RoutineInv ==
    /\ isr.pc \in Callback \cup {"rx", "tx"} /\ "TXFRS" \in isr.st => Sent
    /\ isr.pc \in {"tx", "txcb", "to", "err"} /\ isr.st \cap RxEvents # {} => Missed
    /\ isr.pc = "rx" => Here /\ (Answered <=> isr.aat) /\ ("AAT" \in isr.st <=> isr.aat)
    /\ isr.pc \in {"rx", "rxcb", "read"} /\ ~Acking /\ Sent => "TXFRS" \in isr.st
    /\ isr.pc \in {"rxcb", "read"} => ~Missed /\ (isr.aat <=> Acking) /\ chip.mode \notin {"tx", "rx"}
    /\ isr.pc = "enabled" => ~isr.aat
    /\ isr.pc \in {"toggle", "tx"} /\ isr.aat => Acking /\ ~Here /\ ~There
    /\ isr.pc \in Callback \cup {"tx"} /\ ~isr.aat /\ "TXFRS" \in isr.st => tx = "ended"
    /\ isr.pc = "txcb" => ~Sent /\ IF isr.aat THEN Quiet ELSE tx = "ended"
    /\ isr.pc \in {"to", "err"} => tx = "none"
    /\ isr.pc \in {"tocb", "errcb"} => Quiet

\* The inductive invariant.
IInv == /\ TypeOK
        /\ ThreadInv
        /\ LateInv
        /\ ModeInv
        /\ StatusInv
        /\ BufferInv
        /\ SnapshotInv
        /\ RoutineInv

-----------------------------------------------------------------------------
\* The view.

\* A step that leaves the chip and the client's transmission alone changes no name.
LEMMA ViewKept ==
    ASSUME UNCHANGED <<chipvars, tx>>
    PROVE  /\ chip' = chip /\ status' = status /\ tx' = tx
           /\ Here' = Here /\ There' = There
           /\ HereFrame' = HereFrame /\ ThereFrame' = ThereFrame
           /\ Same' = Same /\ Sent' = Sent /\ Answered' = Answered /\ Missed' = Missed
           /\ Acking' = Acking
  BY DEF chipvars, Here, There, HereFrame, ThereFrame, Same, Sent, Answered, Missed, Acking

\* dwt_forcetrxoff leaves an empty chip behind.
LEMMA ResetView ==
    ASSUME TypeOK, ~There, TrxOff
    PROVE  /\ chip' \in Chips /\ good' \in [Buffers -> BOOLEAN]
           /\ chip'.mode = "off" /\ ~chip'.w4r /\ ~chip'.late
           /\ status' = {} /\ ~Here' /\ ~There' /\ Same'
           /\ ~Sent' /\ ~Answered' /\ ~Missed'
<1>1. chip.hs \in {0, 1} /\ chip.ic \in {0, 1} /\ Off(chip) \in Chips
      /\ Off(chip).mode = "off" /\ ~Off(chip).w4r /\ ~Off(chip).late
      /\ Off(chip).hs = chip.hs /\ Off(chip).ic = chip.ic
  BY DEF TypeOK, Chips, Buffers, Off
<1>2. /\ chip' \in Chips
      /\ chip'.mode = "off" /\ ~chip'.w4r /\ ~chip'.late
      /\ chip'.hs = chip.ic /\ chip'.ic = chip.ic
  BY <1>1 DEF TrxOff, Synced, Toggled, Chips, Buffers
<1>3. status' = {}
  BY DEF TrxOff, TypeOK, Events
<1>4. good' \in [Buffers -> BOOLEAN] /\ good'[0] = FALSE /\ good'[1] = FALSE
  BY <1>1 DEF TrxOff, TypeOK, Buffers, There
<1> QED
  BY <1>1, <1>2, <1>3, <1>4 DEF Here, There, Same, Sent, Answered, Missed

\* The buffers look the same while pointers and contents stay.
LEMMA SidesKept ==
    ASSUME chip'.hs = chip.hs, chip'.ic = chip.ic, UNCHANGED <<good, buf>>
    PROVE  /\ Here' = Here /\ There' = There
           /\ HereFrame' = HereFrame /\ ThereFrame' = ThereFrame
           /\ Same' = Same
  BY DEF Here, There, HereFrame, ThereFrame, Same

\* So does the status.
LEMMA StatusKept ==
    ASSUME UNCHANGED status
    PROVE  Sent' = Sent /\ Answered' = Answered /\ Missed' = Missed
  BY DEF Sent, Answered, Missed

\* The thread goes on.
LEMMA GotoView ==
    ASSUME TypeOK, NEW pc, Goto(pc),
           pc \in {"idle", "txcheck", "rxcheck", "off", "lock", "trxoff", "unlock"}
    PROVE  /\ thread' \in Threads /\ thread'.pc = pc
           /\ pc # "idle" => thread'.mode = thread.mode
           /\ pc = "idle" => thread'.mode = {}
<1>1. CASE pc = "idle"
  BY <1>1 DEF Goto, NoCall, Threads, Modes
<1>2. CASE pc # "idle"
  BY <1>2 DEF Goto, TypeOK, Threads
<1> QED
  BY <1>1, <1>2

\* The thread starts a call.
LEMMA BeginView ==
    ASSUME TypeOK, NEW pc \in {"starttx", "rxon", "off"}, NEW mode \in Modes, Begin(pc, mode)
    PROVE  thread' \in Threads /\ thread'.pc = pc /\ thread'.mode = mode
  BY DEF Begin, TypeOK, Threads

\* The routine goes on, or ends and forgets its copy.
LEMMA ProceedView ==
    ASSUME TypeOK, NEW pc, Proceed(pc),
           pc \in {"idle", "rx", "rxcb", "enabled", "read", "toggle", "tx", "txcb",
                   "to", "tocb", "err", "errcb"}
    PROVE  /\ isr' \in Isrs /\ isr'.pc = pc
           /\ pc # "idle" => isr'.st = isr.st /\ isr'.aat = isr.aat /\ isr'.frame = isr.frame
           /\ pc = "idle" => isr' = NoInterrupt /\ isr'.st = {} /\ ~isr'.aat
<1>1. CASE pc = "idle"
  BY <1>1 DEF Proceed, NoInterrupt, Isrs
<1>2. CASE pc # "idle"
  BY <1>2 DEF Proceed, TypeOK, Isrs
<1> QED
  BY <1>1, <1>2

\* The receiver is turned on and nothing else changes.
LEMMA RxOnView ==
    ASSUME TypeOK, chip' = [chip EXCEPT !.mode = "rx"]
    PROVE  /\ chip' \in Chips /\ chip'.mode = "rx"
           /\ chip'.w4r = chip.w4r /\ chip'.late = chip.late
           /\ chip'.hs = chip.hs /\ chip'.ic = chip.ic
  BY DEF TypeOK, Chips

\* A client that was told of everything finds a chip at rest.
LEMMA RestIsQuiet ==
    ASSUME IInv, busy = "none", isr.pc = "idle"
    PROVE  Quiet
<1> USE DEF IInv
<1>1. /\ chip.mode = "off" /\ ~Missed /\ ~Answered /\ ~Here /\ ~There /\ tx # "ended"
  BY DEF StatusInv
<1>2. tx = "none" /\ ~chip.w4r /\ ~chip.late
  BY <1>1 DEF ModeInv, LateInv, TypeOK
<1>3. Same
  BY <1>1 DEF BufferInv, Callback
<1>4. ~Sent
  BY <1>1, <1>2 DEF StatusInv, Acking
<1>5. status = {}
  BY <1>1, <1>4 DEF TypeOK, Events, Sent, Answered, Missed, RxEvents, ALL_TX
<1> QED
  BY <1>1, <1>2, <1>3, <1>5 DEF Quiet

\* TXFRS without an acknowledgement is the end of the client's transmission.
LEMMA SentByClient ==
    ASSUME IInv, Sent, ~Acking
    PROVE  tx = "ended"
<1>1. status # {} /\ tx # "none"
  BY DEF Sent, Acking
<1> QED
  BY <1>1 DEF IInv, ModeInv, TypeOK

-----------------------------------------------------------------------------
\* The chip.

\* A frame arrives in the buffer the chip points at, which is empty.
LEMMA FrameStep ==
    ASSUME IInv, NEW ack \in BOOLEAN, NEW aat \in BOOLEAN, FrameArrives(ack, aat)
    PROVE  IInv'
<1> USE DEF IInv
<1> DEFINE f == [n |-> arrived + 1, ack |-> ack]
<1>1. /\ chip.hs \in {0, 1} /\ chip.ic \in {0, 1} /\ dblbuffon \in BOOLEAN
      /\ chip.w4r \in BOOLEAN /\ chip.late \in BOOLEAN
      /\ good \in [{0, 1} -> BOOLEAN] /\ DOMAIN buf = {0, 1}
      /\ ~Here /\ ~There
      /\ chip.mode = "rx" /\ ~chip.late /\ isr.pc \notin {"rxcb", "read"}
  BY DEF TypeOK, Chips, Buffers, ModeInv, FrameArrives, RoutineInv
<1>2. chip' = [mode |-> IF ack THEN "ack" ELSE "off", w4r |-> chip.w4r /\ ack, late |-> chip.late,
               ic |-> IF dblbuffon THEN 1 - chip.ic ELSE chip.ic, hs |-> chip.hs]
  BY DEF FrameArrives, TypeOK, Chips
<1>3. /\ good' = [good EXCEPT ![chip.ic] = TRUE]
      /\ buf' = [buf EXCEPT ![chip.ic] = f]
      /\ status' = status \cup (IF ack \/ aat THEN {"AAT"} ELSE {})
      /\ arrived' = arrived + 1 /\ arrived < MaxFrames
      /\ ack => tx = "none" /\ ~Sent
      /\ UNCHANGED <<mask, wait4resp, dblbuffon, locked, thread, isr, busy, tx, reported>>
  BY DEF FrameArrives, local, client, Sent
<1>4. f \in Frames /\ f.ack = ack /\ arrived' \in 0..MaxFrames
  <2>1. arrived \in 0..MaxFrames /\ MaxFrames \in Nat
    BY RadioAssumption DEF TypeOK
  <2> QED
    BY <2>1, <1>3 DEF Frames
<1>5. chip' \in Chips
  BY <1>1, <1>2 DEF Chips, Buffers
<1>6. /\ chip'.mode = IF ack THEN "ack" ELSE "off"
      /\ chip'.w4r <=> chip.w4r /\ ack
      /\ ~chip'.late /\ chip'.hs = chip.hs
      /\ chip'.ic = IF dblbuffon THEN 1 - chip.ic ELSE chip.ic
  BY <1>1, <1>2
<1>7. Same' <=> IF dblbuffon THEN ~Same ELSE Same
  BY <1>1, <1>6 DEF Same
<1>9. /\ Here' <=> Same
      /\ There' <=> ~Same
  <2>1. CASE Same
    BY <1>1, <1>3, <1>6, <2>1 DEF Here, There, Same
  <2>2. CASE ~Same
    BY <1>1, <1>3, <1>6, <2>2 DEF Here, There, Same
  <2> QED BY <2>1, <2>2
<1>10. /\ Same => HereFrame' = f
       /\ ~Same => ThereFrame' = f /\ HereFrame' = HereFrame
  BY <1>1, <1>3, <1>6 DEF HereFrame, ThereFrame, Same
<1>11. /\ Sent' = Sent /\ (Answered' <=> ack \/ aat) /\ ~Missed'
       /\ status' \cap RxEvents = {}
  BY <1>1, <1>3 DEF Sent, Answered, Missed, RxEvents, ALL_RX_TO, ALL_RX_ERR, ModeInv
<1>12. Acking' <=> ack
  BY <1>1, <1>3, <1>6, <1>11 DEF ModeInv, StatusInv, Acking
<1> HIDE DEF f
<1>13. TypeOK'
  BY <1>1, <1>3, <1>4, <1>5 DEF TypeOK, Events, ALL_TX, Buffers
<1>14. ThreadInv'
  BY <1>1, <1>3, <1>6 DEF ThreadInv, Quiet
<1>15. LateInv'
  BY <1>6 DEF LateInv
<1>16. ModeInv'
  BY <1>1, <1>3, <1>6, <1>11 DEF ModeInv
<1>17. StatusInv'
  BY <1>1, <1>3, <1>6, <1>9, <1>11, <1>12 DEF StatusInv, ModeInv, RoutineInv, SnapshotInv, Receiving, Missed
<1>18. BufferInv'
  BY <1>1, <1>3, <1>4, <1>6, <1>7, <1>9, <1>10, <1>12 DEF BufferInv, ModeInv, Callback, Receiving
<1>19. SnapshotInv'
  BY <1>3 DEF SnapshotInv
<1>20. RoutineInv'
  BY <1>1, <1>3, <1>6, <1>9, <1>11, <1>12 DEF RoutineInv, ModeInv, StatusInv, Callback, Quiet, Missed, Acking
<1> QED
  BY <1>13, <1>14, <1>15, <1>16, <1>17, <1>18, <1>19, <1>20

\* The chip keeps the invariant.
LEMMA ChipStep ==
    ASSUME IInv, Chip
    PROVE  IInv'
<1>1. CASE TransmissionEnds
  <2> USE DEF IInv
  <2>1. /\ chip.mode = "tx" /\ ~chip.late
        /\ chip' = [chip EXCEPT !.mode = IF chip.w4r THEN "rx" ELSE "off"]
        /\ status' = status \cup {"TXFRS"} /\ tx' = "ended"
        /\ UNCHANGED <<good, buf, mask, wait4resp, dblbuffon, locked, thread, isr, busy, history>>
    BY <1>1 DEF TransmissionEnds, local
  <2>2. /\ chip' \in Chips /\ chip'.mode = IF chip.w4r THEN "rx" ELSE "off"
        /\ chip'.w4r = chip.w4r /\ ~chip'.late
        /\ chip'.hs = chip.hs /\ chip'.ic = chip.ic
    BY <2>1 DEF TypeOK, Chips
  <2>3. /\ UNCHANGED <<Here, There, HereFrame, ThereFrame, Same>>
        /\ ~Here /\ ~There
    BY <2>1, <2>2, SidesKept DEF ModeInv
  <2>4. Sent' /\ ~Answered' /\ ~Missed' /\ ~Acking'
    BY <2>1, <2>2 DEF ModeInv, Sent, Answered, Missed, Acking, RxEvents, ALL_RX_TO, ALL_RX_ERR
  <2>5. TypeOK'
    BY <2>1, <2>2 DEF TypeOK, Events, ALL_TX, history
  <2>6. ThreadInv' /\ LateInv'
    BY <2>1, <2>2 DEF ThreadInv, LateInv, Quiet
  <2>7. ModeInv'
    BY <2>1, <2>2, <2>3, <2>4 DEF ModeInv, Receiving
  <2>8. StatusInv'
    BY <2>1, <2>2, <2>3, <2>4 DEF StatusInv, ModeInv, Missed
  <2>9. BufferInv' /\ SnapshotInv'
    BY <2>1, <2>3 DEF BufferInv, SnapshotInv
  <2>10. RoutineInv'
    BY <2>1, <2>3, <2>4 DEF RoutineInv, ModeInv, StatusInv, Callback
  <2> QED
    BY <2>5, <2>6, <2>7, <2>8, <2>9, <2>10
<1>2. CASE AcknowledgementEnds
  <2> USE DEF IInv
  <2>1. /\ chip.mode = "ack"
        /\ chip' = [chip EXCEPT !.mode = IF chip.w4r THEN "wrong" ELSE "off"]
        /\ status' = status \cup {"TXFRS"}
        /\ UNCHANGED <<good, buf, mask, wait4resp, dblbuffon, locked, thread, isr, tx, busy, history>>
    BY <1>2 DEF AcknowledgementEnds, local, client
  <2>2. /\ chip' \in Chips /\ chip'.mode = IF chip.w4r THEN "wrong" ELSE "off"
        /\ chip'.w4r = chip.w4r /\ chip'.late = chip.late
        /\ chip'.hs = chip.hs /\ chip'.ic = chip.ic
    BY <2>1 DEF TypeOK, Chips
  <2>3. UNCHANGED <<Here, There, HereFrame, ThereFrame, Same>>
    BY <2>1, <2>2, SidesKept
  <2>4. Acking /\ Answered /\ tx = "none" /\ busy \in Receiving /\ ~Missed /\ ~Sent
    BY <2>1 DEF Acking, StatusInv, ModeInv
  <2>5. /\ Sent' /\ Answered' /\ ~Missed' /\ Acking'
        /\ status' \cap RxEvents = {}
    BY <2>1, <2>4 DEF Sent, Answered, Missed, Acking, RxEvents, ALL_RX_TO, ALL_RX_ERR
  <2>6. isr.pc \notin {"tx", "txcb", "to", "err", "tocb", "errcb"} /\ ~chip.late
    BY <2>1, <2>4 DEF RoutineInv, LateInv, Quiet, SnapshotInv, RxEvents, Callback
  <2>7. TypeOK'
    BY <2>1, <2>2 DEF TypeOK, Events, ALL_TX, history
  <2>8. ThreadInv' /\ LateInv'
    BY <2>1, <2>2, <2>6 DEF ThreadInv, LateInv, Quiet
  <2>9. ModeInv' /\ StatusInv'
    BY <2>1, <2>2, <2>3, <2>4, <2>5 DEF ModeInv, StatusInv, Receiving
  <2>10. BufferInv' /\ SnapshotInv'
    BY <2>1, <2>2, <2>3, <2>4, <2>5 DEF BufferInv, SnapshotInv
  <2>11. RoutineInv'
    BY <2>1, <2>2, <2>3, <2>4, <2>5, <2>6 DEF RoutineInv, Callback
  <2> QED
    BY <2>7, <2>8, <2>9, <2>10, <2>11
<1>3. ASSUME NEW ack \in BOOLEAN, NEW aat \in BOOLEAN, FrameArrives(ack, aat)
      PROVE  IInv'
  BY <1>3, FrameStep
<1>4. ASSUME NEW e \in RxEvents, ReceptionFails(e)
      PROVE  IInv'
  <2> USE DEF IInv
  <2>1. /\ chip.mode = "rx" /\ ~chip.late
        /\ chip' = [chip EXCEPT !.mode = "off", !.w4r = FALSE]
        /\ status' = status \cup {e}
        /\ UNCHANGED <<good, buf, mask, wait4resp, dblbuffon, locked, thread, isr, tx, busy, history>>
    BY <1>4 DEF ReceptionFails, local, client
  <2>2. /\ chip' \in Chips /\ chip'.mode = "off"
        /\ ~chip'.w4r /\ chip'.late = chip.late
        /\ chip'.hs = chip.hs /\ chip'.ic = chip.ic
    BY <2>1 DEF TypeOK, Chips
  <2>3. /\ UNCHANGED <<Here, There, HereFrame, ThereFrame, Same>>
        /\ ~Here /\ ~There /\ ~Answered /\ ~Missed /\ busy \in Receiving
        /\ ~Acking /\ tx # "air"
    BY <2>1, <2>2, SidesKept DEF ModeInv, StatusInv
  <2>4. /\ Sent' = Sent /\ ~Answered' /\ Missed' /\ ~Acking'
        /\ status' \cap RxEvents = {e}
    BY <1>4, <2>1, <2>2, <2>3 DEF Sent, Answered, Missed, Acking, RxEvents, ALL_RX_TO, ALL_RX_ERR
  <2>5. isr.pc \notin {"rx", "rxcb", "read", "tocb", "errcb"}
    BY <2>1, <2>3 DEF RoutineInv, Quiet
  <2>6. TypeOK'
    BY <1>4, <2>1, <2>2 DEF TypeOK, Events, RxEvents, history
  <2>7. ThreadInv' /\ LateInv'
    BY <2>1, <2>2 DEF ThreadInv, LateInv, Quiet
  <2>8. ModeInv' /\ StatusInv'
    BY <2>1, <2>2, <2>3, <2>4 DEF ModeInv, StatusInv, Receiving
  <2>9. BufferInv' /\ SnapshotInv'
    BY <2>1, <2>3, <2>4 DEF BufferInv, SnapshotInv
  <2>10. RoutineInv'
    BY <2>1, <2>2, <2>3, <2>4, <2>5 DEF RoutineInv, Callback, Quiet
  <2> QED
    BY <2>6, <2>7, <2>8, <2>9, <2>10
<1> QED
  BY <1>1, <1>2, <1>3, <1>4 DEF Chip, RxEvents

-----------------------------------------------------------------------------
\* The thread.

\* The steps of a call that has begun keep it.
LEMMA ContinueStep ==
    ASSUME IInv, Continue
    PROVE  IInv'
<1>1. ASSUME NEW late \in BOOLEAN, Transmit(late)
      PROVE  IInv'
  <2> USE DEF IInv
  <2>1. /\ thread.pc = "starttx" /\ isr.pc = "idle"
        /\ late => "delayed" \in thread.mode
        /\ chip' = [chip EXCEPT !.mode = "tx", !.w4r = "response" \in thread.mode, !.late = late]
        /\ tx' = "air"
        /\ UNCHANGED <<status, good, buf, mask, wait4resp, dblbuffon, locked, isr, busy, history>>
    BY <1>1 DEF Transmit, Calls, local
  <2>2. /\ chip' \in Chips /\ chip'.mode = "tx"
        /\ chip'.w4r <=> "response" \in thread.mode
        /\ chip'.late <=> late
        /\ chip'.hs = chip.hs /\ chip'.ic = chip.ic
    <3> DEFINE response == "response" \in thread.mode
    <3>1. response \in BOOLEAN
      OBVIOUS
    <3>2. chip' = [chip EXCEPT !.mode = "tx", !.w4r = response, !.late = late]
      BY <2>1
    <3> HIDE DEF response
    <3>3. /\ chip' \in Chips /\ chip'.mode = "tx"
          /\ chip'.w4r <=> response
          /\ chip'.late <=> late
          /\ chip'.hs = chip.hs /\ chip'.ic = chip.ic
      BY <3>1, <3>2 DEF TypeOK, Chips
    <3> QED
      BY <3>3 DEF response
  <2>3. /\ thread' \in Threads
        /\ thread'.pc = IF "delayed" \in thread.mode THEN "txcheck" ELSE "idle"
    BY <1>1, GotoView DEF Transmit
  <2>4. Quiet
    BY <2>1 DEF ThreadInv
  <2>5. /\ ~Here' /\ ~There' /\ Same'
        /\ HereFrame' = HereFrame /\ ThereFrame' = ThereFrame
        /\ ~Sent' /\ ~Answered' /\ ~Missed' /\ ~Acking'
    BY <2>1, <2>2, <2>4, SidesKept DEF Quiet, Sent, Answered, Missed, Acking
  <2>6. TypeOK'
    BY <2>1, <2>2, <2>3 DEF TypeOK, history
  <2>7. ThreadInv'
    BY <2>1, <2>3 DEF ThreadInv
  <2>8. LateInv'
    BY <2>1, <2>2, <2>3, <2>4, <2>5 DEF LateInv, Quiet
  <2>9. ModeInv'
    BY <2>1, <2>2, <2>4, <2>5 DEF ModeInv, ThreadInv, Quiet
  <2>10. StatusInv'
    BY <2>1, <2>2, <2>4, <2>5 DEF StatusInv, ThreadInv, Quiet
  <2>11. BufferInv'
    BY <2>1, <2>2, <2>5 DEF BufferInv, Callback
  <2>12. SnapshotInv'
    BY <2>1 DEF SnapshotInv
  <2>13. RoutineInv'
    BY <2>1 DEF RoutineInv, Callback
  <2> QED
    BY <2>6, <2>7, <2>8, <2>9, <2>10, <2>11, <2>12, <2>13
<1>2. ASSUME NEW late \in BOOLEAN, EnableReceiver(late)
      PROVE  IInv'
  <2> USE DEF IInv
  <2>1. /\ thread.pc = "rxon" /\ isr.pc = "idle"
        /\ late => "delayed" \in thread.mode
        /\ chip' = [chip EXCEPT !.mode = "rx", !.late = late]
        /\ UNCHANGED <<status, good, buf, mask, wait4resp, dblbuffon, locked, isr, tx, busy, history>>
    BY <1>2 DEF EnableReceiver, Calls, local, client
  <2>2. /\ chip' \in Chips /\ chip'.mode = "rx"
        /\ chip'.w4r = chip.w4r
        /\ chip'.late <=> late
        /\ chip'.hs = chip.hs /\ chip'.ic = chip.ic
    BY <2>1 DEF TypeOK, Chips
  <2>3. /\ thread' \in Threads
        /\ thread'.pc = IF "delayed" \in thread.mode THEN "rxcheck" ELSE "idle"
        /\ "delayed" \in thread.mode => thread'.mode = thread.mode
    BY <1>2, GotoView DEF EnableReceiver
  <2>4. Quiet /\ busy = "rx"
    BY <2>1 DEF ThreadInv
  <2>5. /\ ~Here' /\ ~There' /\ Same'
        /\ HereFrame' = HereFrame /\ ThereFrame' = ThereFrame
        /\ ~Sent' /\ ~Answered' /\ ~Missed' /\ ~Acking'
    BY <2>1, <2>2, <2>4, SidesKept DEF Quiet, Sent, Answered, Missed, Acking
  <2>6. TypeOK'
    BY <2>1, <2>2, <2>3 DEF TypeOK, history
  <2>7. ThreadInv'
    BY <2>1, <2>3 DEF ThreadInv
  <2>8. LateInv'
    BY <2>1, <2>2, <2>3, <2>4, <2>5 DEF LateInv, Quiet
  <2>9. ModeInv'
    BY <2>1, <2>2, <2>4, <2>5 DEF ModeInv, Quiet, Receiving
  <2>10. StatusInv'
    BY <2>1, <2>2, <2>4, <2>5 DEF StatusInv, Quiet
  <2>11. BufferInv'
    BY <2>1, <2>2, <2>5 DEF BufferInv, Callback
  <2>12. SnapshotInv'
    BY <2>1 DEF SnapshotInv
  <2>13. RoutineInv'
    BY <2>1 DEF RoutineInv, Callback
  <2> QED
    BY <2>6, <2>7, <2>8, <2>9, <2>10, <2>11, <2>12, <2>13
<1>3. CASE CheckTransmission
  <2> USE DEF IInv
  <2>1. /\ thread.pc = "txcheck" /\ isr.pc = "idle"
        /\ UNCHANGED <<status, good, buf, mask, wait4resp, dblbuffon, locked, isr, history>>
    BY <1>3 DEF CheckTransmission, Calls, local
  <2>2. thread' \in Threads /\ thread'.pc = "idle"
    BY <1>3, GotoView DEF CheckTransmission
  <2>3. CASE ~chip.late
    <3>1. UNCHANGED <<chip, tx, busy>>
      BY <1>3, <2>3 DEF CheckTransmission, client
    <3>2. UNCHANGED <<Here, There, HereFrame, ThereFrame, Same, Sent, Answered, Missed, Acking>>
      BY <2>1, <3>1, ViewKept DEF chipvars
    <3>3. TypeOK'
      BY <2>1, <2>2, <3>1 DEF TypeOK, history
    <3>4. ThreadInv' /\ LateInv'
      BY <2>1, <2>2, <2>3, <3>1 DEF ThreadInv, LateInv
    <3>5. ModeInv' /\ StatusInv'
      BY <2>1, <2>2, <3>1, <3>2 DEF ModeInv, StatusInv
    <3>6. BufferInv' /\ SnapshotInv' /\ RoutineInv'
      BY <2>1, <3>1, <3>2 DEF BufferInv, SnapshotInv, RoutineInv, Callback
    <3> QED
      BY <3>3, <3>4, <3>5, <3>6
  <2>4. CASE chip.late
    <3>1. chip' = Off(chip) /\ tx' = "none" /\ busy' = "none"
      BY <1>3, <2>4 DEF CheckTransmission
    <3>2. /\ chip' \in Chips /\ chip'.mode = "off"
          /\ ~chip'.w4r /\ ~chip'.late
          /\ chip'.hs = chip.hs /\ chip'.ic = chip.ic
      BY <3>1 DEF Off, TypeOK, Chips
    <3>3. /\ status' = {} /\ ~Here' /\ ~There' /\ Same' = Same
          /\ ~Sent' /\ ~Answered' /\ ~Missed' /\ ~Acking'
      BY <2>1, <2>4, <3>2, SidesKept DEF LateInv, Sent, Answered, Missed, Acking
    <3>4. TypeOK'
      BY <2>1, <2>2, <3>1, <3>2 DEF TypeOK, history, Commands
    <3>5. ThreadInv' /\ LateInv'
      BY <2>1, <2>2, <3>2 DEF ThreadInv, LateInv
    <3>6. ModeInv' /\ StatusInv'
      BY <2>1, <3>1, <3>2, <3>3 DEF ModeInv, StatusInv
    <3>7. BufferInv' /\ SnapshotInv' /\ RoutineInv'
      BY <2>1, <2>4, <3>3 DEF BufferInv, SnapshotInv, RoutineInv, Callback, LateInv
    <3> QED
      BY <3>4, <3>5, <3>6, <3>7
  <2> QED
    BY <2>3, <2>4
<1>4. CASE CheckReception
  <2> USE DEF IInv
  <2>1. /\ thread.pc = "rxcheck" /\ isr.pc = "idle"
        /\ UNCHANGED <<chip, status, good, buf, mask, wait4resp, dblbuffon, locked, isr, tx, busy, history>>
    BY <1>4 DEF CheckReception, Calls, chipvars, local, client
  <2>2. /\ thread' \in Threads
        /\ thread'.pc = IF chip.late THEN "off" ELSE "idle"
        /\ chip.late => thread'.mode = thread.mode
    BY <1>4, GotoView DEF CheckReception
  <2>3. UNCHANGED <<Here, There, HereFrame, ThereFrame, Same, Sent, Answered, Missed, Acking>>
    BY <2>1, ViewKept DEF chipvars
  <2>4. TypeOK'
    BY <2>1, <2>2 DEF TypeOK, history
  <2>5. ThreadInv' /\ LateInv'
    BY <2>1, <2>2, <2>3 DEF ThreadInv, LateInv
  <2>6. ModeInv' /\ StatusInv'
    BY <2>1, <2>2, <2>3 DEF ModeInv, StatusInv
  <2>7. BufferInv' /\ SnapshotInv' /\ RoutineInv'
    BY <2>1, <2>3 DEF BufferInv, SnapshotInv, RoutineInv, Callback
  <2> QED
    BY <2>4, <2>5, <2>6, <2>7
<1>5. CASE ReadMask
  <2> USE DEF IInv
  <2>1. /\ thread.pc = "off" /\ isr.pc = "idle"
        /\ thread' = [thread EXCEPT !.pc = "lock", !.mask = mask]
        /\ UNCHANGED <<chip, status, good, buf, mask, wait4resp, dblbuffon, locked, isr, tx, busy, history>>
    BY <1>5 DEF ReadMask, Calls, chipvars, local, client
  <2>2. /\ thread' \in Threads
        /\ thread'.pc = "lock" /\ thread'.mode = thread.mode
    BY <2>1 DEF TypeOK, Threads
  <2>3. UNCHANGED <<Here, There, HereFrame, ThereFrame, Same, Sent, Answered, Missed, Acking>>
    BY <2>1, ViewKept DEF chipvars
  <2>4. TypeOK'
    BY <2>1, <2>2 DEF TypeOK, history
  <2>5. ThreadInv' /\ LateInv'
    BY <2>1, <2>2, <2>3 DEF ThreadInv, LateInv
  <2>6. ModeInv' /\ StatusInv'
    BY <2>1, <2>2, <2>3 DEF ModeInv, StatusInv
  <2>7. BufferInv' /\ SnapshotInv' /\ RoutineInv'
    BY <2>1, <2>3 DEF BufferInv, SnapshotInv, RoutineInv, Callback
  <2> QED
    BY <2>4, <2>5, <2>6, <2>7
<1>6. CASE LockAndMask
  <2> USE DEF IInv
  <2>1. /\ thread.pc = "lock" /\ isr.pc = "idle" /\ locked' = TRUE /\ mask' = {}
        /\ UNCHANGED <<chip, status, good, buf, wait4resp, dblbuffon, isr, tx, busy, history>>
    BY <1>6 DEF LockAndMask, Calls, chipvars, local, client
  <2>2. thread' \in Threads /\ thread'.pc = "trxoff" /\ thread'.mode = thread.mode
    BY <1>6, GotoView DEF LockAndMask
  <2>3. UNCHANGED <<Here, There, HereFrame, ThereFrame, Same, Sent, Answered, Missed, Acking>>
    BY <2>1, ViewKept DEF chipvars
  <2>4. TypeOK'
    BY <2>1, <2>2 DEF TypeOK, history
  <2>5. ThreadInv' /\ LateInv'
    BY <2>1, <2>2, <2>3 DEF ThreadInv, LateInv
  <2>6. ModeInv' /\ StatusInv'
    BY <2>1, <2>2, <2>3 DEF ModeInv, StatusInv
  <2>7. BufferInv' /\ SnapshotInv' /\ RoutineInv'
    BY <2>1, <2>3 DEF BufferInv, SnapshotInv, RoutineInv, Callback
  <2> QED
    BY <2>4, <2>5, <2>6, <2>7
<1>7. CASE TurnOff
  <2> USE DEF IInv
  <2>1. /\ thread.pc = "trxoff" /\ isr.pc = "idle" /\ TrxOff
        /\ mask' = thread.mask /\ locked' = FALSE /\ tx' = "none"
        /\ UNCHANGED <<buf, wait4resp, dblbuffon, isr, busy, history>>
    BY <1>7 DEF TurnOff, TrxOff, Calls, local
  <2>2. thread' \in Threads /\ thread'.pc = "unlock" /\ thread'.mode = thread.mode
    BY <1>7, GotoView DEF TurnOff
  <2>3. /\ chip' \in Chips /\ good' \in [Buffers -> BOOLEAN]
        /\ chip'.mode = "off" /\ ~chip'.w4r /\ ~chip'.late
        /\ status' = {} /\ ~Here' /\ ~There' /\ Same'
        /\ ~Sent' /\ ~Answered' /\ ~Missed'
    BY <2>1, ResetView DEF BufferInv, Callback
  <2>4. ~Acking'
    BY <2>3 DEF Acking
  <2>5. TypeOK'
    BY <2>1, <2>2, <2>3 DEF TypeOK, Threads, history
  <2>6. ThreadInv' /\ LateInv'
    BY <2>1, <2>2, <2>3 DEF ThreadInv, LateInv, Quiet
  <2>7. ModeInv' /\ StatusInv'
    BY <2>1, <2>2, <2>3, <2>4 DEF ModeInv, StatusInv
  <2>8. BufferInv' /\ SnapshotInv' /\ RoutineInv'
    BY <2>1, <2>3 DEF BufferInv, SnapshotInv, RoutineInv, Callback
  <2> QED
    BY <2>5, <2>6, <2>7, <2>8
<1>8. CASE LeaveTrxOff
  <2> USE DEF IInv
  <2>1. /\ thread.pc = "unlock" /\ isr.pc = "idle" /\ wait4resp' = FALSE
        /\ UNCHANGED <<status, good, buf, mask, dblbuffon, locked, isr, tx, history>>
    BY <1>8 DEF LeaveTrxOff, Calls
  <2>2. thread' \in Threads /\ thread'.pc = "idle"
    BY <1>8, GotoView DEF LeaveTrxOff
  <2>3. Quiet
    BY <2>1 DEF ThreadInv
  <2>4. CASE Reenables
    <3>1. chip' = [chip EXCEPT !.mode = "rx"] /\ busy' = busy
      BY <1>8, <2>4 DEF LeaveTrxOff
    <3>2. /\ chip' \in Chips /\ chip'.mode = "rx"
          /\ ~chip'.w4r /\ ~chip'.late
          /\ chip'.hs = chip.hs /\ chip'.ic = chip.ic
      BY <2>3, <3>1, RxOnView DEF Quiet
    <3>3. busy = "rx"
      BY <2>1, <2>4 DEF ThreadInv, Reenables
    <3>4. /\ status' = {} /\ ~Here' /\ ~There' /\ Same'
          /\ ~Sent' /\ ~Answered' /\ ~Missed' /\ ~Acking'
      BY <2>1, <2>3, <3>2, SidesKept DEF Quiet, Sent, Answered, Missed, Acking
    <3>5. TypeOK'
      BY <2>1, <2>2, <3>1, <3>2 DEF TypeOK, history
    <3>6. ThreadInv' /\ LateInv'
      BY <2>1, <2>2, <3>2 DEF ThreadInv, LateInv
    <3>7. ModeInv' /\ StatusInv'
      BY <2>1, <2>3, <3>1, <3>2, <3>3, <3>4 DEF ModeInv, StatusInv, Quiet, Receiving
    <3>8. BufferInv' /\ SnapshotInv' /\ RoutineInv'
      BY <2>1, <3>4 DEF BufferInv, SnapshotInv, RoutineInv, Callback
    <3> QED
      BY <3>5, <3>6, <3>7, <3>8
  <2>5. CASE ~Reenables
    <3>1. chip' = chip /\ busy' = "none"
      BY <1>8, <2>5 DEF LeaveTrxOff
    <3>2. UNCHANGED <<Here, There, HereFrame, ThereFrame, Same, Sent, Answered, Missed, Acking>>
      BY <2>1, <3>1, ViewKept DEF chipvars
    <3>3. TypeOK'
      BY <2>1, <2>2, <3>1 DEF TypeOK, history, Commands
    <3>4. ThreadInv' /\ LateInv'
      BY <2>1, <2>2, <2>3, <3>1 DEF ThreadInv, LateInv, Quiet
    <3>5. ModeInv' /\ StatusInv'
      BY <2>1, <2>3, <3>1, <3>2 DEF ModeInv, StatusInv, Quiet, Sent, Answered, Missed, Acking
    <3>6. BufferInv' /\ SnapshotInv' /\ RoutineInv'
      BY <2>1, <2>3, <3>2 DEF BufferInv, SnapshotInv, RoutineInv, Callback, Quiet
    <3> QED
      BY <3>3, <3>4, <3>5, <3>6
  <2> QED
    BY <2>4, <2>5
<1> QED
  BY <1>1, <1>2, <1>3, <1>4, <1>5, <1>6, <1>7, <1>8 DEF Continue

\* The calls keep it.
LEMMA CallStep ==
    ASSUME IInv, Call
    PROVE  IInv'
<1>1. ASSUME NEW mode \in TxModes, StartTx(mode)
      PROVE  IInv'
  <2> USE DEF IInv
  <2>1. /\ thread.pc = "idle" /\ isr.pc = "idle" /\ busy = "none"
        /\ wait4resp' = (wait4resp \/ "response" \in mode)
        /\ busy' = IF "response" \in mode THEN "txrx" ELSE "tx"
        /\ UNCHANGED <<chip, status, good, buf, mask, dblbuffon, locked, isr, tx, history>>
    BY <1>1 DEF StartTx, Calls, chipvars
  <2>2. thread' \in Threads /\ thread'.pc = "starttx" /\ thread'.mode = mode
    BY <1>1, BeginView DEF StartTx, TxModes, Modes
  <2>3. Quiet
    BY <2>1, RestIsQuiet
  <2>4. UNCHANGED <<Here, There, HereFrame, ThereFrame, Same, Sent, Answered, Missed, Acking>>
    BY <2>1, ViewKept DEF chipvars
  <2>5. TypeOK'
    BY <2>1, <2>2 DEF TypeOK, history, Commands
  <2>6. ThreadInv' /\ LateInv'
    BY <2>1, <2>2, <2>3, <2>4 DEF ThreadInv, LateInv, Quiet
  <2>7. ModeInv' /\ StatusInv'
    BY <2>1, <2>2, <2>3, <2>4 DEF ModeInv, StatusInv, Quiet, Acking, Sent, Answered, Missed
  <2>8. BufferInv' /\ SnapshotInv' /\ RoutineInv'
    BY <2>1, <2>3, <2>4 DEF BufferInv, SnapshotInv, RoutineInv, Callback, Quiet
  <2> QED
    BY <2>5, <2>6, <2>7, <2>8
<1>2. ASSUME NEW mode \in RxModes, SyncPointers(mode)
      PROVE  IInv'
  <2> USE DEF IInv
  <2>1. /\ thread.pc = "idle" /\ isr.pc = "idle" /\ busy = "none"
        /\ chip' = Synced(chip) /\ busy' = "rx"
        /\ UNCHANGED <<status, good, buf, mask, wait4resp, dblbuffon, locked, isr, tx, history>>
    BY <1>2 DEF SyncPointers, Calls, local
  <2>2. thread' \in Threads /\ thread'.pc = "rxon" /\ thread'.mode = mode
    BY <1>2, BeginView DEF SyncPointers, RxModes, Modes
  <2>3. Quiet
    BY <2>1, RestIsQuiet
  <2>4. chip' = chip
    BY <2>1, <2>3 DEF Quiet, Same, Synced
  <2>5. UNCHANGED <<Here, There, HereFrame, ThereFrame, Same, Sent, Answered, Missed, Acking>>
    BY <2>1, <2>4, ViewKept DEF chipvars
  <2>6. TypeOK'
    BY <2>1, <2>2, <2>4 DEF TypeOK, history, Commands
  <2>7. ThreadInv' /\ LateInv'
    BY <2>1, <2>2, <2>3, <2>4, <2>5 DEF ThreadInv, LateInv, Quiet
  <2>8. ModeInv' /\ StatusInv'
    BY <2>1, <2>2, <2>3, <2>4, <2>5 DEF ModeInv, StatusInv, Quiet, Acking, Sent, Answered, Missed
  <2>9. BufferInv' /\ SnapshotInv' /\ RoutineInv'
    BY <2>1, <2>3, <2>5 DEF BufferInv, SnapshotInv, RoutineInv, Callback, Quiet
  <2> QED
    BY <2>6, <2>7, <2>8, <2>9
<1>3. CASE ForceTrxOff
  <2> USE DEF IInv
  <2>1. /\ thread.pc = "idle" /\ isr.pc = "idle"
        /\ UNCHANGED <<chip, status, good, buf, mask, wait4resp, dblbuffon, locked, isr, tx, busy, history>>
    BY <1>3 DEF ForceTrxOff, Calls, chipvars, local, client
  <2>2. thread' \in Threads /\ thread'.pc = "off" /\ thread'.mode = {}
    BY <1>3, BeginView DEF ForceTrxOff, Modes
  <2>3. UNCHANGED <<Here, There, HereFrame, ThereFrame, Same, Sent, Answered, Missed, Acking>>
    BY <2>1, ViewKept DEF chipvars
  <2>4. TypeOK'
    BY <2>1, <2>2 DEF TypeOK, history
  <2>5. ThreadInv' /\ LateInv'
    BY <2>1, <2>2, <2>3 DEF ThreadInv, LateInv
  <2>6. ModeInv' /\ StatusInv'
    BY <2>1, <2>2, <2>3 DEF ModeInv, StatusInv
  <2>7. BufferInv' /\ SnapshotInv' /\ RoutineInv'
    BY <2>1, <2>3 DEF BufferInv, SnapshotInv, RoutineInv, Callback
  <2> QED
    BY <2>4, <2>5, <2>6, <2>7
<1>4. ASSUME NEW operation \in 0..2, SetInterrupt(operation)
      PROVE  IInv'
  <2> USE DEF IInv
  <2>1. UNCHANGED <<chip, status, good, buf, wait4resp, dblbuffon, locked, thread, isr, tx, busy, history>>
    BY <1>4 DEF SetInterrupt, chipvars, local, client
  <2>2. mask' \subseteq Interrupts
    BY <1>4 DEF SetInterrupt, TypeOK, Interrupts
  <2>3. UNCHANGED <<Here, There, HereFrame, ThereFrame, Same, Sent, Answered, Missed, Acking>>
    BY <2>1, ViewKept DEF chipvars
  <2>4. TypeOK'
    BY <2>1, <2>2 DEF TypeOK, history
  <2>5. ThreadInv' /\ LateInv'
    BY <2>1, <2>3 DEF ThreadInv, LateInv, Quiet
  <2>6. ModeInv' /\ StatusInv'
    BY <2>1, <2>3 DEF ModeInv, StatusInv
  <2>7. BufferInv' /\ SnapshotInv' /\ RoutineInv'
    BY <2>1, <2>3 DEF BufferInv, SnapshotInv, RoutineInv, Quiet
  <2> QED
    BY <2>4, <2>5, <2>6, <2>7
<1>5. CASE SetDblRxBuffMode
  <2> USE DEF IInv
  <2>1. /\ thread.pc = "idle" /\ isr.pc = "idle" /\ busy = "none"
        /\ dblbuffon' = ~dblbuffon
        /\ UNCHANGED <<chip, status, good, buf, mask, wait4resp, locked, thread, isr, tx, busy, history>>
    BY <1>5 DEF SetDblRxBuffMode, Calls, chipvars, client
  <2>2. Quiet
    BY <2>1, RestIsQuiet
  <2>3. UNCHANGED <<Here, There, HereFrame, ThereFrame, Same, Sent, Answered, Missed, Acking>>
    BY <2>1, ViewKept DEF chipvars
  <2>4. TypeOK'
    BY <2>1 DEF TypeOK, history
  <2>5. ThreadInv' /\ LateInv'
    BY <2>1, <2>3 DEF ThreadInv, LateInv
  <2>6. ModeInv' /\ StatusInv'
    BY <2>1, <2>3 DEF ModeInv, StatusInv
  <2>7. BufferInv' /\ SnapshotInv' /\ RoutineInv'
    BY <2>1, <2>2, <2>3 DEF BufferInv, SnapshotInv, RoutineInv, Callback, Quiet
  <2> QED
    BY <2>4, <2>5, <2>6, <2>7
<1> QED
  BY <1>1, <1>2, <1>3, <1>4, <1>5 DEF Call

-----------------------------------------------------------------------------
\* The routine.

\* The routine begins with what the status tells.
LEMMA InterruptStep ==
    ASSUME IInv, Interrupt
    PROVE  IInv'
<1> USE DEF IInv
<1>1. /\ isr.pc = "idle" /\ ~locked /\ Seen \cap mask # {}
      /\ isr' = [pc |-> First(Seen), st |-> Seen, aat |-> "AAT" \in Seen, frame |-> NoFrame]
      /\ UNCHANGED <<chip, status, good, buf, mask, wait4resp, dblbuffon, locked, thread, tx, busy, history>>
  BY DEF Interrupt, IrqLine, chipvars, local, client
<1>2. /\ "RXFCG" \in Seen <=> Here
      /\ "TXFRS" \in Seen <=> Sent
      /\ "AAT" \in Seen <=> Answered
      /\ Seen \cap RxEvents = status \cap RxEvents
      /\ Seen \cap ALL_RX_TO = status \cap ALL_RX_TO
      /\ Seen \cap ALL_RX_ERR = status \cap ALL_RX_ERR
      /\ Seen \subseteq Events \cup {"RXFCG"}
  BY DEF TypeOK, Seen, Here, Sent, Answered, Events, RxEvents, ALL_TX, ALL_RX_TO, ALL_RX_ERR
<1>3. /\ isr'.st = Seen /\ isr'.frame = NoFrame
      /\ isr'.aat <=> Answered
      /\ isr'.pc = First(Seen)
  BY <1>1, <1>2
<1>4. \/ isr'.pc = "rx" /\ Here
      \/ isr'.pc = "tx" /\ ~Here /\ Sent
      \/ isr'.pc = "to" /\ ~Here /\ ~Sent /\ status \cap ALL_RX_TO # {}
      \/ isr'.pc = "err" /\ ~Here /\ ~Sent /\ status \cap ALL_RX_ERR # {}
  <2>1. Here \/ Sent \/ status \cap ALL_RX_TO # {} \/ status \cap ALL_RX_ERR # {}
    <3>1. PICK e \in mask: e \in Seen
      BY <1>1
    <3>2. e \in Interrupts
      BY DEF TypeOK
    <3>3. e = "RXFCG" \/ e = "TXFRS" \/ e \in ALL_RX_TO \/ e \in ALL_RX_ERR
      BY <3>2 DEF Interrupts
    <3>4. e \in ALL_RX_TO => status \cap ALL_RX_TO # {}
      BY <1>2, <3>1
    <3>5. e \in ALL_RX_ERR => status \cap ALL_RX_ERR # {}
      BY <1>2, <3>1
    <3> QED
      BY <1>2, <3>1, <3>3, <3>4, <3>5
  <2> QED
    BY <1>2, <1>3, <2>1 DEF First, AfterRx, AfterTx, AfterTo
<1>5. isr' \in Isrs
  <2>1. First(Seen) \in {"rx", "tx", "to", "err"}
    BY <1>3, <1>4
  <2> DEFINE aat == "AAT" \in Seen
  <2>2. aat \in BOOLEAN
    OBVIOUS
  <2>3. isr' = [pc |-> First(Seen), st |-> Seen, aat |-> aat, frame |-> NoFrame]
    BY <1>1
  <2> HIDE DEF aat
  <2> QED
    BY <1>2, <2>1, <2>2, <2>3 DEF Isrs
<1>6. UNCHANGED <<Here, There, HereFrame, ThereFrame, Same, Sent, Answered, Missed, Acking>>
  BY <1>1, ViewKept DEF chipvars
<1>7. ~Quiet
  BY <1>4 DEF Quiet, Sent
<1>8. TypeOK'
  BY <1>1, <1>5 DEF TypeOK, history
<1>9. LateInv'
  BY <1>1, <1>4 DEF LateInv, Sent
<1>10. ThreadInv'
  BY <1>1, <1>4, <1>7 DEF ThreadInv, Quiet
<1>11. ModeInv'
  BY <1>1, <1>4, <1>6 DEF ModeInv, Sent
<1>12. StatusInv'
  BY <1>1, <1>4, <1>6 DEF StatusInv, Acking, Missed, RxEvents
<1>13. BufferInv'
  BY <1>1, <1>4, <1>6 DEF BufferInv, Callback
<1>14. SnapshotInv'
  BY <1>2, <1>3, <1>4 DEF SnapshotInv, StatusInv, BufferInv, Callback, Missed
<1>15. RoutineInv'
  <2>1. ~There
    BY <1>1 DEF BufferInv, Callback
  <2>2. CASE isr'.pc = "rx"
    BY <1>2, <1>3, <1>4, <1>6, <2>2 DEF RoutineInv, Callback
  <2>3. CASE isr'.pc = "tx"
    BY <1>1, <1>2, <1>3, <1>4, <1>6, <2>1, <2>3, SentByClient DEF RoutineInv, StatusInv, Callback, Missed
  <2>4. CASE isr'.pc \in {"to", "err"}
    <3>1. Missed /\ ~Sent
      BY <1>4, <2>4 DEF Missed, RxEvents
    <3>2. tx = "none"
      BY <1>1, <3>1 DEF StatusInv, ModeInv, TypeOK
    <3> QED
      BY <1>1, <1>6, <2>4, <3>1, <3>2 DEF RoutineInv, Callback
  <2> QED
    BY <1>4, <2>2, <2>3, <2>4
<1> QED
  BY <1>8, <1>9, <1>10, <1>11, <1>12, <1>13, <1>14, <1>15

\* It clears RXFCG, and AAT when the frame asks for no acknowledgement.
LEMMA GoodFrameStep ==
    ASSUME IInv, GoodFrame
    PROVE  IInv'
<1> USE DEF IInv
<1> DEFINE spurious == "AAT" \in isr.st /\ ~HereFrame.ack
<1>1. /\ isr.pc = "rx"
      /\ good' = [good EXCEPT ![chip.hs] = FALSE]
      /\ isr' = [isr EXCEPT !.pc = "rxcb", !.frame = HereFrame, !.aat = isr.aat /\ HereFrame.ack]
      /\ status' = IF spurious THEN status \ {"AAT"} ELSE status
      /\ wait4resp' = (wait4resp /\ ~spurious)
      /\ UNCHANGED <<chip, buf, mask, dblbuffon, locked, thread, tx, busy, history>>
  BY DEF GoodFrame, HereFrame, client
<1>2. /\ Here /\ ~There /\ HereFrame \in Frames /\ (HereFrame.ack <=> Acking)
      /\ (Answered <=> isr.aat) /\ ("AAT" \in isr.st <=> isr.aat)
      /\ ~chip.late /\ ~Missed /\ chip.mode \notin {"tx", "rx"}
      /\ (dblbuffon <=> ~Same)
      /\ HereFrame.ack \in BOOLEAN /\ isr.aat \in BOOLEAN
      /\ busy # "none"
  BY <1>1 DEF RoutineInv, BufferInv, StatusInv, LateInv, Callback, Frames, TypeOK, Isrs
<1>3. spurious <=> Answered /\ ~Acking
  BY <1>2
<1> HIDE DEF spurious
<1>4. /\ isr' \in Isrs /\ isr'.pc = "rxcb" /\ isr'.frame = HereFrame
      /\ isr'.st = isr.st
  BY <1>1, <1>2 DEF TypeOK, Isrs
<1>5. isr'.aat <=> Acking
  <2>1. isr'.aat = (isr.aat /\ HereFrame.ack)
    BY <1>1 DEF TypeOK, Isrs
  <2>2. Acking => Answered
    BY DEF StatusInv
  <2> QED
    BY <1>2, <2>1, <2>2
<1>6. good' \in [Buffers -> BOOLEAN] /\ ~Here' /\ ~There'
  BY <1>1, <1>2 DEF TypeOK, Chips, Buffers, Here, There
<1>7. UNCHANGED <<HereFrame, ThereFrame, Same>>
  BY <1>1 DEF HereFrame, ThereFrame, Same
<1>8. /\ status' \subseteq Events
      /\ Sent' = Sent /\ ~Missed'
      /\ Answered' <=> Acking
      /\ status' \cap RxEvents = {}
  <2>1. Acking => Answered
    BY DEF StatusInv
  <2> QED
    BY <1>1, <1>2, <1>3, <2>1 DEF TypeOK, Sent, Answered, Missed, RxEvents, ALL_RX_TO, ALL_RX_ERR
<1>9. Acking' <=> Acking
  BY <1>1, <1>8 DEF Acking
<1>10. wait4resp' \in BOOLEAN /\ (Acking => wait4resp' = wait4resp)
  BY <1>1, <1>3 DEF TypeOK
<1>11. TypeOK'
  BY <1>1, <1>4, <1>6, <1>8, <1>10 DEF TypeOK, history
<1>12. ThreadInv' /\ LateInv'
  BY <1>1, <1>2, <1>4 DEF ThreadInv, LateInv
<1>13. ModeInv'
  BY <1>1, <1>2, <1>8, <1>9, <1>10 DEF ModeInv, TypeOK, Chips, Acking
<1>14. StatusInv'
  BY <1>1, <1>2, <1>4, <1>6, <1>8, <1>9 DEF StatusInv
<1>15. BufferInv'
  BY <1>1, <1>2, <1>4, <1>6, <1>7 DEF BufferInv, Callback
<1>16. SnapshotInv'
  BY <1>1, <1>2, <1>4, <1>5 DEF SnapshotInv, StatusInv, Callback
<1>17. RoutineInv'
  BY <1>1, <1>2, <1>4, <1>5, <1>6, <1>8, <1>9, SentByClient DEF RoutineInv, Callback
<1> QED
  BY <1>11, <1>12, <1>13, <1>14, <1>15, <1>16, <1>17

\* cbRxOk reads the frame.
LEMMA CallbackReadsStep ==
    ASSUME IInv, CallbackReads
    PROVE  IInv'
<1> USE DEF IInv
<1>1. /\ isr.pc \in {"rxcb", "enabled"}
      /\ reported' = Append(reported, HereFrame)
      /\ UNCHANGED <<chip, status, good, buf, mask, wait4resp, dblbuffon, locked, thread, tx, busy, arrived>>
  BY DEF CallbackReads, HereFrame, chipvars, local, client
<1>2. /\ isr' \in Isrs /\ isr'.st = isr.st /\ isr'.aat = isr.aat
      /\ isr'.pc = IF isr.pc = "rxcb" THEN "read" ELSE "toggle"
  BY ProceedView DEF CallbackReads
<1>3. UNCHANGED <<Here, There, HereFrame, ThereFrame, Same, Sent, Answered, Missed, Acking>>
  BY <1>1, ViewKept DEF chipvars
<1>4. TypeOK'
  <2>1. HereFrame \in Frames
    BY <1>1 DEF BufferInv
  <2> QED
    BY <1>1, <1>2, <2>1 DEF TypeOK
<1>5. ThreadInv' /\ LateInv'
  BY <1>1, <1>2 DEF ThreadInv, LateInv
<1>6. ModeInv' /\ StatusInv'
  BY <1>1, <1>2, <1>3 DEF ModeInv, StatusInv
<1>7. BufferInv' /\ SnapshotInv'
  BY <1>1, <1>2, <1>3 DEF BufferInv, SnapshotInv, Callback
<1>8. RoutineInv'
  BY <1>1, <1>2, <1>3 DEF RoutineInv, Callback
<1> QED
  BY <1>4, <1>5, <1>6, <1>7, <1>8

\* cbRxOk turns the receiver on again: the chip was off.
LEMMA CallbackEnablesStep ==
    ASSUME IInv, CallbackEnables
    PROVE  IInv'
<1> USE DEF IInv
<1>1. /\ ~isr.aat /\ isr.pc \in {"rxcb", "read"} /\ (isr.pc = "rxcb" => dblbuffon)
      /\ chip' = [chip EXCEPT !.mode = "rx"] /\ busy' = "rx"
      /\ UNCHANGED <<status, good, buf, mask, wait4resp, dblbuffon, locked, thread, tx, history>>
  BY DEF CallbackEnables, RxOn, local
<1>2. /\ isr' \in Isrs /\ isr'.st = isr.st /\ isr'.aat = isr.aat /\ isr'.frame = isr.frame
      /\ isr'.pc = IF isr.pc = "rxcb" THEN "enabled" ELSE "toggle"
  BY ProceedView DEF CallbackEnables
<1>3. /\ chip' \in Chips /\ chip'.mode = "rx"
      /\ chip'.w4r = chip.w4r /\ chip'.late = chip.late
      /\ chip'.hs = chip.hs /\ chip'.ic = chip.ic
  BY <1>1, RxOnView
<1>4. UNCHANGED <<Here, There, HereFrame, ThereFrame, Same, Sent, Answered, Missed>>
  BY <1>1, <1>3, SidesKept, StatusKept
<1>5. /\ chip.mode = "off" /\ ~chip.w4r /\ ~chip.late
      /\ ~Here /\ ~There /\ ~Acking /\ ~Answered /\ ~Missed
      /\ tx # "air" /\ busy # "none"
      /\ Sent => "TXFRS" \in isr.st /\ tx = "ended"
  <2>1. ~Acking /\ ~Here /\ ~There /\ chip.mode \notin {"tx", "rx"}
    BY <1>1 DEF RoutineInv, BufferInv
  <2>2. chip.mode = "off"
    BY <2>1 DEF TypeOK, Chips, Acking
  <2> QED
    BY <1>1, <2>1, <2>2, SentByClient DEF RoutineInv, StatusInv, ModeInv, LateInv
<1>6. ~Acking'
  BY <1>1, <1>3, <1>4, <1>5 DEF Acking
<1>7. TypeOK'
  BY <1>1, <1>2, <1>3 DEF TypeOK, history, Commands
<1>8. ThreadInv' /\ LateInv'
  BY <1>1, <1>2, <1>3, <1>5 DEF ThreadInv, LateInv
<1>9. ModeInv' /\ StatusInv'
  BY <1>1, <1>2, <1>3, <1>4, <1>5, <1>6 DEF ModeInv, StatusInv, Receiving
<1>10. BufferInv' /\ SnapshotInv'
  BY <1>1, <1>2, <1>4, <1>5 DEF BufferInv, SnapshotInv, Callback
<1>11. RoutineInv'
  BY <1>1, <1>2, <1>4, <1>5 DEF RoutineInv, Callback
<1> QED
  BY <1>7, <1>8, <1>9, <1>10, <1>11

\* cbRxOk sends: nothing is left in the status.
LEMMA CallbackSendsStep ==
    ASSUME IInv, CallbackSends
    PROVE  IInv'
<1> USE DEF IInv
<1>1. /\ ~isr.aat /\ isr.pc = "read" /\ "TXFRS" \notin isr.st
      /\ chip' = [chip EXCEPT !.mode = "tx", !.w4r = FALSE]
      /\ tx' = "air" /\ busy' = "tx"
      /\ UNCHANGED <<status, good, buf, mask, wait4resp, dblbuffon, locked, thread, history>>
  BY DEF CallbackSends, local
<1>2. /\ isr' \in Isrs /\ isr'.st = isr.st /\ isr'.aat = isr.aat /\ isr'.pc = "toggle"
  BY ProceedView DEF CallbackSends
<1>3. /\ chip' \in Chips /\ chip'.mode = "tx"
      /\ ~chip'.w4r /\ chip'.late = chip.late
      /\ chip'.hs = chip.hs /\ chip'.ic = chip.ic
  BY <1>1 DEF TypeOK, Chips
<1>4. UNCHANGED <<Here, There, HereFrame, ThereFrame, Same, Sent, Answered, Missed>>
  BY <1>1, <1>3, SidesKept, StatusKept
<1>5. /\ ~chip.late /\ ~Here /\ ~There /\ ~Acking /\ ~Answered /\ ~Missed /\ ~Sent
  BY <1>1 DEF RoutineInv, BufferInv, StatusInv, LateInv
<1>6. ~Acking' /\ status = {}
  BY <1>1, <1>3, <1>5 DEF Acking, Sent, Answered, Missed, TypeOK, Events, ALL_TX, RxEvents
<1>7. TypeOK'
  BY <1>1, <1>2, <1>3 DEF TypeOK, history, Commands
<1>8. ThreadInv' /\ LateInv'
  BY <1>1, <1>2, <1>3, <1>5 DEF ThreadInv, LateInv
<1>9. ModeInv' /\ StatusInv'
  BY <1>1, <1>2, <1>3, <1>4, <1>5, <1>6 DEF ModeInv, StatusInv
<1>10. BufferInv' /\ SnapshotInv'
  BY <1>1, <1>2, <1>4, <1>5 DEF BufferInv, SnapshotInv, Callback
<1>11. RoutineInv'
  BY <1>1, <1>2, <1>4, <1>5 DEF RoutineInv, Callback
<1> QED
  BY <1>7, <1>8, <1>9, <1>10, <1>11

\* cbRxOk leaves it at that.
LEMMA CallbackEndsStep ==
    ASSUME IInv, CallbackEnds
    PROVE  IInv'
<1> USE DEF IInv
<1>1. /\ isr.pc = "read"
      /\ busy' = IF isr.aat THEN busy ELSE "none"
      /\ UNCHANGED <<chip, status, good, buf, mask, wait4resp, dblbuffon, locked, thread, tx, history>>
  BY DEF CallbackEnds, chipvars, local
<1>2. /\ isr' \in Isrs /\ isr'.st = isr.st /\ isr'.aat = isr.aat /\ isr'.pc = "toggle"
  BY ProceedView DEF CallbackEnds
<1>3. UNCHANGED <<Here, There, HereFrame, ThereFrame, Same, Sent, Answered, Missed, Acking>>
  BY <1>1, ViewKept DEF chipvars
<1>4. /\ ~Here /\ ~There /\ ~Missed /\ (isr.aat <=> Acking) /\ ~chip.late
      /\ chip.mode \notin {"tx", "rx"} /\ tx # "air"
      /\ ~isr.aat => /\ chip.mode = "off" /\ ~Answered /\ ~chip.w4r
                     /\ Sent => "TXFRS" \in isr.st /\ tx = "ended"
  <2>1. /\ ~Here /\ ~There /\ ~Missed /\ (isr.aat <=> Acking) /\ ~chip.late
        /\ chip.mode \notin {"tx", "rx"} /\ tx # "air"
    BY <1>1 DEF RoutineInv, BufferInv, LateInv, ModeInv
  <2>2. ~isr.aat => chip.mode = "off" /\ ~Answered
    BY <2>1 DEF TypeOK, Chips, Acking, StatusInv
  <2> QED
    BY <1>1, <2>1, <2>2, SentByClient DEF RoutineInv, ModeInv
<1>5. TypeOK'
  BY <1>1, <1>2 DEF TypeOK, history, Commands
<1>6. ThreadInv' /\ LateInv'
  BY <1>1, <1>2, <1>4 DEF ThreadInv, LateInv
<1>7. ModeInv' /\ StatusInv'
  BY <1>1, <1>2, <1>3, <1>4 DEF ModeInv, StatusInv
<1>8. BufferInv' /\ SnapshotInv'
  BY <1>1, <1>2, <1>3, <1>4 DEF BufferInv, SnapshotInv, Callback
<1>9. RoutineInv'
  BY <1>1, <1>2, <1>3, <1>4 DEF RoutineInv, Callback
<1> QED
  BY <1>5, <1>6, <1>7, <1>8, <1>9

\* The host moves on to the other buffer.
LEMMA ToggleBufferStep ==
    ASSUME IInv, ToggleBuffer
    PROVE  IInv'
<1> USE DEF IInv
<1>1. /\ isr.pc = "toggle"
      /\ chip' = IF dblbuffon THEN Toggled(chip) ELSE chip
      /\ UNCHANGED <<status, good, buf, mask, wait4resp, dblbuffon, locked, thread, tx, busy, history>>
  BY DEF ToggleBuffer, local, client
<1>2. /\ isr.st \cap RxEvents = {} /\ "RXFCG" \in isr.st
  BY <1>1 DEF SnapshotInv, Callback
<1>3. /\ isr' \in Isrs
      /\ isr'.pc = IF "TXFRS" \in isr.st THEN "tx" ELSE "idle"
      /\ "TXFRS" \in isr.st => isr'.st = isr.st /\ isr'.aat = isr.aat
      /\ "TXFRS" \notin isr.st => isr' = NoInterrupt /\ isr'.st = {} /\ ~isr'.aat
  <2>1. AfterRx(isr.st) = IF "TXFRS" \in isr.st THEN "tx" ELSE "idle"
    BY <1>2 DEF AfterRx, AfterTx, AfterTo, AfterErr, RxEvents
  <2> QED
    BY <2>1, ProceedView DEF ToggleBuffer
<1>4. /\ chip' \in Chips /\ chip'.mode = chip.mode
      /\ chip'.w4r = chip.w4r /\ chip'.late = chip.late
      /\ chip'.hs = IF dblbuffon THEN 1 - chip.hs ELSE chip.hs
      /\ chip'.ic = chip.ic /\ chip.hs \in {0, 1} /\ chip.ic \in {0, 1}
  BY <1>1 DEF TypeOK, Chips, Buffers, Toggled
<1>5. UNCHANGED <<Sent, Answered, Missed, Acking>>
  BY <1>1, <1>4, StatusKept DEF Acking, Sent
<1>6. /\ dblbuffon => Here' = There /\ There' = Here /\ HereFrame' = ThereFrame
                      /\ ThereFrame' = HereFrame /\ (Same' <=> ~Same)
      /\ ~dblbuffon => UNCHANGED <<Here, There, HereFrame, ThereFrame, Same>>
  <2>1. CASE dblbuffon
    <3>1. chip'.hs = 1 - chip.hs /\ 1 - chip'.hs = chip.hs
      BY <1>4, <2>1
    <3>2. Here' = There /\ There' = Here /\ HereFrame' = ThereFrame /\ ThereFrame' = HereFrame
      BY <1>1, <3>1 DEF Here, There, HereFrame, ThereFrame
    <3>3. Same' <=> ~Same
      BY <1>4, <3>1 DEF Same
    <3> QED
      BY <2>1, <3>2, <3>3
  <2>2. CASE ~dblbuffon
    BY <1>1, <1>4, <2>2, SidesKept
  <2> QED
    BY <2>1, <2>2
<1>7. TypeOK'
  BY <1>1, <1>3, <1>4 DEF TypeOK, history
<1>8. ThreadInv' /\ LateInv'
  BY <1>1, <1>3, <1>4 DEF ThreadInv, LateInv
<1>9. ModeInv'
  BY <1>1, <1>3, <1>4, <1>5, <1>6 DEF ModeInv, RoutineInv, Callback, Sent
<1>10. StatusInv'
  BY <1>1, <1>3, <1>4, <1>5, <1>6 DEF StatusInv, Missed
<1>11. BufferInv'
  BY <1>1, <1>3, <1>4, <1>5, <1>6 DEF BufferInv, Callback
<1>12. SnapshotInv'
  BY <1>1, <1>2, <1>3 DEF SnapshotInv, Callback
<1>13. RoutineInv'
  BY <1>1, <1>2, <1>3, <1>4, <1>5, <1>6 DEF RoutineInv, BufferInv, Callback
<1> QED
  BY <1>7, <1>8, <1>9, <1>10, <1>11, <1>12, <1>13

\* TXFRS is cleared; a receiver that was wrongly turned on is turned off.
LEMMA FrameSentStep ==
    ASSUME IInv, FrameSent
    PROVE  IInv'
<1> USE DEF IInv
<1>1. /\ isr.pc = "tx" /\ "TXFRS" \in isr.st
      /\ UNCHANGED <<buf, mask, dblbuffon, locked, thread, tx, busy, history>>
  BY DEF FrameSent, TrxOff, client, SnapshotInv
<1>2. /\ isr' \in Isrs /\ isr'.pc = "txcb"
      /\ isr'.st = isr.st /\ isr'.aat = isr.aat
  BY ProceedView DEF FrameSent
<1>3. /\ Sent /\ ~There /\ ~chip.late
      /\ isr.aat => Acking /\ ~Here /\ Same /\ ~Missed /\ busy # "none"
      /\ ~isr.aat => tx = "ended" /\ ~Acking
      /\ Acking => tx = "none"
  <2>1. isr.aat => Acking /\ ~Here
    BY <1>1 DEF RoutineInv
  <2>2. ~isr.aat => tx = "ended"
    BY <1>1 DEF RoutineInv, Callback
  <2> QED
    BY <1>1, <2>1, <2>2 DEF RoutineInv, BufferInv, StatusInv, LateInv, Callback
<1>4. CASE "AAT" \in isr.st /\ wait4resp
  <2>1. TrxOff /\ wait4resp' = FALSE
    BY <1>4 DEF FrameSent
  <2>2. /\ chip' \in Chips /\ good' \in [Buffers -> BOOLEAN]
        /\ chip'.mode = "off" /\ ~chip'.w4r /\ ~chip'.late
        /\ status' = {} /\ ~Here' /\ ~There' /\ Same'
        /\ ~Sent' /\ ~Answered' /\ ~Missed'
    BY <1>3, <2>1, ResetView
  <2>3. ~Acking'
    BY <2>2 DEF Acking
  <2>4. isr.st \cap RxEvents = {}
    BY <1>4 DEF SnapshotInv
  <2>5. TypeOK'
    BY <1>1, <1>2, <2>1, <2>2 DEF TypeOK, history
  <2>6. ThreadInv' /\ LateInv'
    BY <1>1, <1>2, <2>2 DEF ThreadInv, LateInv
  <2>7. ModeInv' /\ StatusInv'
    BY <1>1, <1>2, <1>3, <2>2, <2>3 DEF ModeInv, StatusInv
  <2>8. BufferInv' /\ SnapshotInv'
    BY <1>1, <1>2, <2>2 DEF BufferInv, SnapshotInv, Callback
  <2>9. RoutineInv'
    BY <1>1, <1>2, <1>3, <2>2, <2>4 DEF RoutineInv, Callback, Quiet
  <2> QED
    BY <2>5, <2>6, <2>7, <2>8, <2>9
<1>5. CASE ~("AAT" \in isr.st /\ wait4resp)
  <2>1. status' = status \ ALL_TX /\ UNCHANGED <<chip, good, wait4resp>>
    BY <1>5 DEF FrameSent
  <2>2. UNCHANGED <<Here, There, HereFrame, ThereFrame, Same>>
    BY <1>1, <2>1, SidesKept
  <2>3. /\ ~Sent' /\ ~Answered' /\ Missed' = Missed
        /\ status' \cap RxEvents = status \cap RxEvents
        /\ status' \subseteq Events
        /\ ~Missed => status' = {}
    BY <2>1 DEF Sent, Answered, Missed, ALL_TX, RxEvents, ALL_RX_TO, ALL_RX_ERR, Events, TypeOK
  <2>4. chip.mode \notin {"ack", "wrong"}
    <3>1. isr.aat => ~wait4resp
      BY <1>5 DEF SnapshotInv
    <3> QED
      BY <1>3, <3>1 DEF ModeInv, Acking
  <2>5. ~Acking'
    BY <2>1, <2>3, <2>4 DEF Acking
  <2>6. isr.aat => Quiet'
    <3>1. isr.aat => chip.mode = "off"
      BY <1>3, <2>4 DEF StatusInv, TypeOK, Chips
    <3> QED
      BY <1>1, <1>3, <2>1, <2>2, <2>3, <3>1 DEF Quiet, ModeInv
  <2>7. TypeOK'
    BY <1>1, <1>2, <2>1, <2>3 DEF TypeOK, history
  <2>8. ThreadInv' /\ LateInv'
    BY <1>1, <1>2, <1>3, <2>1 DEF ThreadInv, LateInv
  <2>9. ModeInv' /\ StatusInv'
    BY <1>1, <1>2, <1>3, <2>1, <2>2, <2>3, <2>4, <2>5 DEF ModeInv, StatusInv
  <2>10. BufferInv' /\ SnapshotInv'
    <3>1. Acking /\ Here => FALSE
      BY <1>3, <2>4, <2>6 DEF StatusInv, ModeInv, Acking
    <3> QED
      BY <1>1, <1>2, <2>1, <2>2, <2>5, <3>1 DEF BufferInv, SnapshotInv, Callback
  <2>11. RoutineInv'
    BY <1>1, <1>2, <1>3, <2>1, <2>2, <2>3, <2>6 DEF RoutineInv, Callback
  <2> QED
    BY <2>7, <2>8, <2>9, <2>10, <2>11
<1> QED
  BY <1>4, <1>5

\* cbTxDone.
LEMMA TxDoneStep ==
    ASSUME IInv, TxDone
    PROVE  IInv'
<1> USE DEF IInv
<1>1. /\ isr.pc = "txcb"
      /\ tx' = IF isr.aat THEN tx ELSE "none"
      /\ UNCHANGED <<status, good, buf, mask, wait4resp, dblbuffon, locked, thread, history>>
  BY DEF TxDone, local
<1>2. /\ ~Sent /\ (isr.aat => Quiet) /\ (~isr.aat => tx = "ended")
      /\ ~There /\ ~chip.late /\ tx' = "none" /\ ~Acking
  <2>1. /\ ~Sent /\ (isr.aat => Quiet) /\ (~isr.aat => tx = "ended")
        /\ ~There /\ ~chip.late
    BY <1>1 DEF RoutineInv, BufferInv, LateInv, Callback
  <2>2. CASE isr.aat
    BY <1>1, <2>1, <2>2 DEF Quiet, Acking
  <2>3. CASE ~isr.aat
    BY <1>1, <2>1, <2>3 DEF StatusInv
  <2> QED
    BY <2>2, <2>3
<1>3. /\ isr' \in Isrs
      /\ \/ isr'.pc = "to" /\ isr.st \cap ALL_RX_TO # {}
         \/ isr'.pc = "err" /\ isr.st \cap ALL_RX_ERR # {}
         \/ isr'.pc = "idle" /\ isr.st \cap RxEvents = {} /\ isr' = NoInterrupt
      /\ isr'.pc # "idle" => isr'.st = isr.st /\ isr'.aat = isr.aat
      /\ isr'.pc = "idle" => isr'.st = {} /\ ~isr'.aat
  <2>1. Proceed(AfterTx(isr.st))
    BY DEF TxDone
  <2>2. CASE isr.st \cap ALL_RX_TO # {}
    BY <2>1, <2>2, ProceedView DEF AfterTx
  <2>3. CASE isr.st \cap ALL_RX_TO = {} /\ isr.st \cap ALL_RX_ERR # {}
    BY <2>1, <2>3, ProceedView DEF AfterTx, AfterTo
  <2>4. CASE isr.st \cap RxEvents = {}
    <3>1. isr.st \cap ALL_RX_TO = {} /\ isr.st \cap ALL_RX_ERR = {}
      BY <2>4 DEF RxEvents
    <3>2. AfterTx(isr.st) = "idle"
      BY <3>1 DEF AfterTx, AfterTo, AfterErr
    <3> QED
      BY <2>1, <2>4, <3>2, ProceedView
  <2> QED
    BY <2>2, <2>3, <2>4 DEF RxEvents
<1>4. isr'.pc # "idle" => Missed /\ ~isr.aat
  <2>1. isr'.pc # "idle" => isr.st \cap RxEvents # {}
    BY <1>3 DEF RxEvents
  <2> QED
    BY <1>1, <2>1 DEF RoutineInv, SnapshotInv
<1>5. CASE isr.aat \/ busy = "tx"
  <2>1. /\ chip.mode = "off" /\ ~Missed /\ ~Answered /\ ~Here /\ ~chip.w4r
        /\ isr'.pc = "idle" /\ Same
    <3>1. chip.mode = "off" /\ ~Missed /\ ~Answered /\ ~Here /\ Same
      BY <1>1, <1>2, <1>5 DEF Quiet, StatusInv, BufferInv, Missed, Answered, Callback
    <3> QED
      BY <1>4, <3>1 DEF ModeInv
  <2>2. \/ chip' = [chip EXCEPT !.mode = "rx"] /\ busy' = "rx"
        \/ chip' = chip /\ busy' = "none"
    BY <1>5 DEF TxDone, RxOn
  <2>3. /\ chip' \in Chips /\ chip'.mode \in {"rx", "off"}
        /\ chip'.mode = "rx" => busy' = "rx"
        /\ chip'.mode = "off" => busy' = "none"
        /\ busy' \in {"rx", "none"}
        /\ ~chip'.w4r /\ ~chip'.late
        /\ chip'.hs = chip.hs /\ chip'.ic = chip.ic
    BY <1>2, <2>1, <2>2, RxOnView DEF TypeOK
  <2>4. UNCHANGED <<Here, There, HereFrame, ThereFrame, Same, Sent, Answered, Missed>>
    BY <1>1, <2>3, SidesKept, StatusKept
  <2>5. ~Acking'
    BY <1>2, <2>3, <2>4 DEF Acking
  <2>6. TypeOK'
    BY <1>1, <1>2, <1>3, <2>3 DEF TypeOK, history, Commands
  <2>7. ThreadInv' /\ LateInv'
    BY <1>1, <2>1, <2>3 DEF ThreadInv, LateInv
  <2>8. ModeInv' /\ StatusInv'
    BY <1>1, <1>2, <2>1, <2>3, <2>4, <2>5 DEF ModeInv, StatusInv, Receiving
  <2>9. BufferInv' /\ SnapshotInv' /\ RoutineInv'
    BY <1>1, <1>2, <1>3, <2>1, <2>4 DEF BufferInv, SnapshotInv, RoutineInv, Callback
  <2> QED
    BY <2>6, <2>7, <2>8, <2>9
<1>6. CASE ~(isr.aat \/ busy = "tx")
  <2>1. chip' = chip /\ busy' = busy
    BY <1>6 DEF TxDone
  <2>2. UNCHANGED <<Here, There, HereFrame, ThereFrame, Same, Sent, Answered, Missed>>
    BY <1>1, <2>1, SidesKept, StatusKept
  <2>3. ~Acking' /\ chip.mode # "tx"
    BY <1>2, <1>6, <2>1, <2>2 DEF Acking, ModeInv
  <2>4. TypeOK'
    BY <1>1, <1>2, <1>3, <2>1 DEF TypeOK, history
  <2>5. ThreadInv' /\ LateInv'
    BY <1>1, <1>2, <2>1 DEF ThreadInv, LateInv
  <2>6. ModeInv'
    BY <1>1, <1>2, <2>1, <2>2, <2>3 DEF ModeInv
  <2>7. StatusInv'
    BY <1>1, <1>2, <1>3, <1>4, <1>6, <2>1, <2>2, <2>3 DEF StatusInv
  <2>8. BufferInv'
    BY <1>1, <1>2, <1>3, <2>1, <2>2, <2>3 DEF BufferInv, Callback
  <2>9. SnapshotInv'
    BY <1>1, <1>2, <1>3 DEF SnapshotInv, Callback
  <2>10. RoutineInv'
    BY <1>1, <1>2, <1>3, <1>4, <2>2 DEF RoutineInv, Callback
  <2> QED
    BY <2>4, <2>5, <2>6, <2>7, <2>8, <2>9, <2>10
<1> QED
  BY <1>5, <1>6

\* A timeout or an error turns the transceiver off.
LEMMA ResetStep ==
    ASSUME IInv, TimedOut \/ Failed
    PROVE  IInv'
<1> USE DEF IInv
<1>1. /\ isr.pc \in {"to", "err"} /\ wait4resp' = FALSE /\ TrxOff
      /\ UNCHANGED <<buf, mask, dblbuffon, locked, thread, tx, busy, history>>
  BY DEF TimedOut, Failed, TrxOff, client
<1>2. /\ isr' \in Isrs /\ isr'.st = isr.st /\ isr'.aat = isr.aat
      /\ isr'.pc = IF isr.pc = "to" THEN "tocb" ELSE "errcb"
  BY ProceedView DEF TimedOut, Failed
<1>3. tx = "none" /\ busy # "none" /\ ~There
  BY <1>1 DEF RoutineInv, StatusInv, BufferInv, Callback
<1>4. /\ chip' \in Chips /\ good' \in [Buffers -> BOOLEAN]
      /\ chip'.mode = "off" /\ ~chip'.w4r /\ ~chip'.late
      /\ status' = {} /\ ~Here' /\ ~There' /\ Same'
      /\ ~Sent' /\ ~Answered' /\ ~Missed'
  BY <1>1, <1>3, ResetView
<1>5. ~Acking'
  BY <1>4 DEF Acking
<1>6. TypeOK'
  BY <1>1, <1>2, <1>4 DEF TypeOK, history
<1>7. ThreadInv' /\ LateInv'
  BY <1>1, <1>2, <1>4 DEF ThreadInv, LateInv
<1>8. ModeInv' /\ StatusInv'
  BY <1>1, <1>2, <1>3, <1>4, <1>5 DEF ModeInv, StatusInv
<1>9. BufferInv' /\ SnapshotInv'
  BY <1>1, <1>2, <1>4 DEF BufferInv, SnapshotInv, Callback
<1>10. RoutineInv'
  BY <1>1, <1>2, <1>3, <1>4 DEF RoutineInv, Callback, Quiet
<1> QED
  BY <1>6, <1>7, <1>8, <1>9, <1>10

\* cbRxTo and cbRxErr.
LEMMA ReceptionEndsStep ==
    ASSUME IInv, ReceptionEnds
    PROVE  IInv'
<1> USE DEF IInv
<1>1. /\ isr.pc \in {"tocb", "errcb"}
      /\ \/ chip' = [chip EXCEPT !.mode = "rx"] /\ busy' = "rx"
         \/ chip' = chip /\ busy' = "none"
      /\ UNCHANGED <<status, good, buf, mask, wait4resp, dblbuffon, locked, thread, tx, history>>
  BY DEF ReceptionEnds, RxOn, local
<1>2. isr' \in Isrs /\ isr'.pc = "idle" /\ isr' = NoInterrupt /\ isr'.st = {} /\ ~isr'.aat
  <2>1. isr.pc = "tocb" => isr.st \cap ALL_RX_ERR = {}
    BY DEF SnapshotInv, RxEvents, ALL_RX_TO, ALL_RX_ERR
  <2>2. (IF isr.pc = "tocb" THEN AfterTo(isr.st) ELSE AfterErr) = "idle"
    BY <2>1 DEF AfterTo, AfterErr
  <2> QED
    BY <2>2, ProceedView DEF ReceptionEnds
<1>3. Quiet
  BY <1>1 DEF RoutineInv
<1>4. /\ chip' \in Chips /\ chip'.mode \in {"rx", "off"}
      /\ chip'.mode = "rx" => busy' = "rx"
      /\ chip'.mode = "off" => busy' = "none"
      /\ busy' \in {"rx", "none"}
      /\ ~chip'.w4r /\ ~chip'.late
      /\ chip'.hs = chip.hs /\ chip'.ic = chip.ic
  BY <1>1, <1>3, RxOnView DEF TypeOK, Quiet
<1>5. /\ status' = {} /\ ~Here' /\ ~There' /\ Same'
      /\ ~Sent' /\ ~Answered' /\ ~Missed' /\ ~Acking'
  BY <1>1, <1>3, <1>4, SidesKept DEF Quiet, Sent, Answered, Missed, Acking
<1>6. TypeOK'
  BY <1>1, <1>2, <1>4 DEF TypeOK, history, Commands
<1>7. ThreadInv' /\ LateInv'
  BY <1>1, <1>2, <1>4 DEF ThreadInv, LateInv
<1>8. ModeInv' /\ StatusInv'
  BY <1>1, <1>2, <1>3, <1>4, <1>5 DEF ModeInv, StatusInv, Receiving, Quiet
<1>9. BufferInv' /\ SnapshotInv' /\ RoutineInv'
  BY <1>1, <1>2, <1>5 DEF BufferInv, SnapshotInv, RoutineInv, Callback
<1> QED
  BY <1>6, <1>7, <1>8, <1>9

\* The routine keeps the invariant.
LEMMA RoutineStep ==
    ASSUME IInv, Routine
    PROVE  IInv'
  BY InterruptStep, GoodFrameStep, CallbackReadsStep, CallbackEnablesStep, CallbackSendsStep,
     CallbackEndsStep, ToggleBufferStep, FrameSentStep, TxDoneStep, ResetStep, ReceptionEndsStep
     DEF Routine

-----------------------------------------------------------------------------
\* Reception as a queue.

\* The rest of a queue of two.
LEMMA TailOfTwo ==
    ASSUME NEW S, NEW x \in S, NEW y \in S
    PROVE  Tail(Append(<<x>>, y)) = <<y>>
<1> DEFINE s == Append(<<x>>, y)
<1>1. s \in Seq(S) /\ Len(s) = 2 /\ s[2] = y /\ s # <<>>
  OBVIOUS
<1> HIDE DEF s
<1>2. Tail(s) \in Seq(S) /\ Len(Tail(s)) = 1 /\ Tail(s)[1] = y
  BY <1>1, HeadTailProperties
<1>3. <<y>> \in Seq(S) /\ Len(<<y>>) = 1 /\ <<y>>[1] = y
  OBVIOUS
<1>4. \A t, u \in Seq(S) : Len(t) = 1 /\ Len(u) = 1 /\ t[1] = u[1] => t = u
  OBVIOUS
<1>5. Tail(s) = <<y>>
  BY <1>2, <1>3, <1>4, Zenon
<1> QED
  BY <1>5 DEF s

\* What waits, by the step of the routine and the buffers that are full.
UnreadIs ==
    LET w == isr.pc \in {"rxcb", "enabled"}
    IN  /\ w /\ There => Unread = Append(<<isr.frame>>, ThereFrame)
        /\ w /\ ~There => Unread = <<isr.frame>>
        /\ ~w /\ Here => Unread = <<HereFrame>>
        /\ ~w /\ There => Unread = <<ThereFrame>>
        /\ ~w /\ ~Here /\ ~There => Unread = <<>>

\* In the states of the invariant no more than two frames wait, in this order.
LEMMA UnreadView == IInv => UnreadIs
<1> SUFFICES ASSUME IInv PROVE UnreadIs
  OBVIOUS
<1> DEFINE w == isr.pc \in {"rxcb", "enabled"}
<1>1. ~(Here /\ There) /\ ~(w /\ Here)
  BY DEF IInv, BufferInv, Callback
<1> DEFINE first == IF w THEN <<isr.frame>> ELSE <<>>
           second == IF Here THEN <<HereFrame>> ELSE <<>>
           third == IF There THEN <<ThereFrame>> ELSE <<>>
<1>2. Unread = first \o second \o third
  BY DEF Unread, Here, There, HereFrame, ThereFrame
<1>3. \A x, y : <<x>> \o <<>> \o <<y>> = Append(<<x>>, y)
  OBVIOUS
<1>4. \A x : /\ <<x>> \o <<>> \o <<>> = <<x>>
             /\ <<>> \o <<x>> \o <<>> = <<x>>
             /\ <<>> \o <<>> \o <<x>> = <<x>>
  OBVIOUS
<1>5. <<>> \o <<>> \o <<>> = <<>>
  OBVIOUS
<1>6. CASE w /\ There
  BY <1>1, <1>2, <1>3, <1>6 DEF UnreadIs
<1>7. CASE w /\ ~There
  BY <1>1, <1>2, <1>4, <1>7 DEF UnreadIs
<1>8. CASE ~w /\ Here
  BY <1>1, <1>2, <1>4, <1>8 DEF UnreadIs
<1>9. CASE ~w /\ There
  BY <1>1, <1>2, <1>4, <1>9 DEF UnreadIs
<1>10. CASE ~w /\ ~Here /\ ~There
  BY <1>1, <1>2, <1>5, <1>10 DEF UnreadIs
<1> QED
  BY <1>1, <1>6, <1>7, <1>8, <1>9, <1>10

\* The same after a step.
LEMMA UnreadViewNext == IInv' => UnreadIs'
  BY UnreadView, PTL

\* A step that leaves the buffers and the header alone leaves the queue alone.
LEMMA UnreadKept ==
    ASSUME UNCHANGED <<good, buf>>, chip'.hs = chip.hs,
           isr.pc \in {"rxcb", "enabled"} <=> isr'.pc \in {"rxcb", "enabled"},
           isr.pc \in {"rxcb", "enabled"} => isr'.frame = isr.frame
    PROVE  Unread' = Unread
  BY DEF Unread

\* The chip adds a frame to the queue or does nothing to it.
LEMMA ChipFifo ==
    ASSUME IInv, IInv', Chip
    PROVE  Fifo!Next \/ UNCHANGED <<Unread, reported>>
<1>1. CASE TransmissionEnds \/ AcknowledgementEnds \/ \E e \in RxEvents: ReceptionFails(e)
  <2>1. UNCHANGED <<good, buf, isr, reported>>
    BY <1>1 DEF TransmissionEnds, AcknowledgementEnds, ReceptionFails, history
  <2>2. chip'.hs = chip.hs
    BY <1>1 DEF TransmissionEnds, AcknowledgementEnds, ReceptionFails, IInv, TypeOK, Chips
  <2> QED
    BY <2>1, <2>2, UnreadKept
<1>2. ASSUME NEW ack \in BOOLEAN, NEW aat \in BOOLEAN, FrameArrives(ack, aat)
      PROVE  Fifo!Next
  <2> DEFINE f == [n |-> arrived + 1, ack |-> ack]
  <2>1. /\ good' = [good EXCEPT ![chip.ic] = TRUE]
        /\ buf' = [buf EXCEPT ![chip.ic] = f]
        /\ arrived < MaxFrames /\ isr' = isr /\ reported' = reported
        /\ chip.mode = "rx"
    BY <1>2 DEF FrameArrives
  <2>2. f \in Frames
    <3>1. arrived \in 0..MaxFrames /\ MaxFrames \in Nat
      BY RadioAssumption DEF IInv, TypeOK
    <3> QED
      BY <2>1, <3>1 DEF Frames
  <2>3. chip'.hs = chip.hs /\ chip.hs \in {0, 1} /\ chip.ic \in {0, 1}
    BY <1>2 DEF FrameArrives, IInv, TypeOK, Chips, Buffers
  <2>4. DOMAIN good = {0, 1} /\ DOMAIN buf = {0, 1}
    BY DEF IInv, TypeOK, Buffers
  <2> HIDE DEF f
  <2>5. ~Here /\ ~There
    BY <2>1 DEF IInv, ModeInv
  <2>6. CASE Same
    <3>1. Here' /\ HereFrame' = f
      BY <2>1, <2>3, <2>4, <2>6 DEF Same, Here, HereFrame
    <3>2. isr.pc \notin {"rxcb", "enabled"}
      BY <3>1, <2>1 DEF IInv, BufferInv, Callback
    <3>3. Unread = <<>> /\ Unread' = <<f>>
      BY <2>1, <2>5, <3>1, <3>2, UnreadView, UnreadViewNext DEF UnreadIs
    <3>4. Len(Unread) < 2 /\ Unread' = Append(Unread, f)
      BY <3>3
    <3> QED
      BY <2>1, <2>2, <3>4 DEF Fifo!Next, Fifo!Receive
  <2>7. CASE ~Same
    <3>1. There' /\ ThereFrame' = f
      BY <2>1, <2>3, <2>4, <2>7 DEF Same, There, ThereFrame
    <3>2. CASE isr.pc \in {"rxcb", "enabled"}
      <4>1. Unread = <<isr.frame>> /\ Unread' = Append(<<isr.frame>>, f)
        BY <2>1, <2>5, <3>1, <3>2, UnreadView, UnreadViewNext DEF UnreadIs
      <4>2. Len(Unread) < 2 /\ Unread' = Append(Unread, f)
        BY <4>1
      <4> QED
        BY <2>1, <2>2, <4>2 DEF Fifo!Next, Fifo!Receive
    <3>3. CASE isr.pc \notin {"rxcb", "enabled"}
      <4>1. Unread = <<>> /\ Unread' = <<f>>
        BY <2>1, <2>5, <3>1, <3>3, UnreadView, UnreadViewNext DEF UnreadIs
      <4>2. Len(Unread) < 2 /\ Unread' = Append(Unread, f)
        BY <4>1
      <4> QED
        BY <2>1, <2>2, <4>2 DEF Fifo!Next, Fifo!Receive
    <3> QED
      BY <3>2, <3>3
  <2> QED
    BY <2>6, <2>7
<1> QED
  BY <1>1, <1>2 DEF Chip, RxEvents

\* A transceiver that is turned off drops what waits.
LEMMA Dropped ==
    ASSUME IInv', isr'.pc \notin {"rxcb", "enabled"}, ~Here', ~There', reported' = reported
    PROVE  Fifo!Next
<1>1. Unread' = <<>>
  BY UnreadViewNext DEF UnreadIs
<1> QED
  BY <1>1 DEF Fifo!Next, Fifo!Drop

\* The thread drops the queue or does nothing to it.
LEMMA ThreadFifo ==
    ASSUME IInv, IInv', Continue \/ Call
    PROVE  Fifo!Next \/ UNCHANGED <<Unread, reported>>
<1>1. CASE TurnOff
  <2>1. TrxOff /\ isr' = isr /\ isr.pc = "idle" /\ reported' = reported
    BY <1>1 DEF TurnOff, Calls, history
  <2>2. ~Here' /\ ~There'
    BY <2>1, ResetView DEF IInv, BufferInv, Callback
  <2> QED
    BY <2>1, <2>2, Dropped
<1>2. CASE \E mode \in RxModes: SyncPointers(mode)
  <2>1. isr.pc = "idle" /\ busy = "none" /\ chip' = Synced(chip)
        /\ UNCHANGED <<good, buf, isr, reported>>
    BY <1>2 DEF SyncPointers, Calls, history
  <2>2. chip' = chip
    BY <2>1, RestIsQuiet DEF Quiet, Same, Synced
  <2> QED
    BY <2>1, <2>2, UnreadKept
<1>3. CASE \/ \E late \in BOOLEAN: Transmit(late) \/ EnableReceiver(late)
           \/ CheckTransmission \/ CheckReception \/ ReadMask \/ LockAndMask \/ LeaveTrxOff
           \/ \E mode \in TxModes: StartTx(mode)
           \/ ForceTrxOff
           \/ \E operation \in 0..2: SetInterrupt(operation)
           \/ SetDblRxBuffMode
  <2>1. UNCHANGED <<good, buf, isr, reported>>
    BY <1>3 DEF Transmit, EnableReceiver, CheckTransmission, CheckReception, ReadMask, LockAndMask,
                LeaveTrxOff, StartTx, ForceTrxOff, SetInterrupt, SetDblRxBuffMode, chipvars, history
  <2>2. chip'.hs = chip.hs
    BY <1>3 DEF Transmit, EnableReceiver, CheckTransmission, CheckReception, ReadMask, LockAndMask,
                LeaveTrxOff, StartTx, ForceTrxOff, SetInterrupt, SetDblRxBuffMode, chipvars,
                Off, IInv, TypeOK, Chips
  <2> QED
    BY <2>1, <2>2, UnreadKept
<1> QED
  BY <1>1, <1>2, <1>3 DEF Continue, Call

\* The routine takes the first frame off the queue, drops it or does nothing to it.
LEMMA RoutineFifo ==
    ASSUME IInv, IInv', Routine
    PROVE  Fifo!Next \/ UNCHANGED <<Unread, reported>>
<1> USE DEF IInv
<1>1. CASE Interrupt
  <2>1. isr.pc = "idle" /\ UNCHANGED <<chip, good, buf, reported>>
    BY <1>1 DEF Interrupt, chipvars, history
  <2>2. isr'.pc = First(Seen)
    BY <1>1 DEF Interrupt
  <2>3. isr'.pc \notin {"rxcb", "enabled"}
    BY <2>2 DEF First, AfterRx, AfterTx, AfterTo, AfterErr
  <2> QED
    BY <2>1, <2>3, UnreadKept
<1>2. CASE GoodFrame
  <2>1. /\ isr.pc = "rx" /\ Here /\ reported' = reported
        /\ isr'.pc = "rxcb" /\ isr'.frame = HereFrame
    BY <1>2 DEF GoodFrame, RoutineInv, TypeOK, Isrs, HereFrame, history
  <2>2. ~There'
    BY <2>1 DEF BufferInv
  <2>3. Unread = <<HereFrame>> /\ Unread' = <<HereFrame>>
    BY <2>1, <2>2, UnreadView, UnreadViewNext DEF UnreadIs
  <2> QED
    BY <2>1, <2>3
<1>3. CASE CallbackReads
  <2>1. /\ isr.pc \in {"rxcb", "enabled"} /\ UNCHANGED <<chip, good, buf>>
        /\ reported' = Append(reported, HereFrame)
        /\ isr.frame = HereFrame
        /\ HereFrame \in Frames
    BY <1>3 DEF CallbackReads, HereFrame, chipvars, BufferInv
  <2>2. isr'.pc \notin {"rxcb", "enabled"}
    BY <1>3, ProceedView DEF CallbackReads
  <2>3. UNCHANGED <<Here, There, ThereFrame>> /\ ~Here
    BY <2>1 DEF Here, There, ThereFrame, BufferInv, Callback
  <2>4. CASE There
    <3>1. Unread = Append(<<HereFrame>>, ThereFrame) /\ Unread' = <<ThereFrame>>
      BY <2>1, <2>2, <2>3, <2>4, UnreadView, UnreadViewNext DEF UnreadIs
    <3>2. Head(Append(<<HereFrame>>, ThereFrame)) = HereFrame /\ Append(<<HereFrame>>, ThereFrame) # <<>>
      OBVIOUS
    <3>3. Tail(Append(<<HereFrame>>, ThereFrame)) = <<ThereFrame>>
      BY <2>1, <2>4, TailOfTwo DEF BufferInv
    <3> QED
      BY <2>1, <3>1, <3>2, <3>3 DEF Fifo!Next, Fifo!Deliver
  <2>5. CASE ~There
    <3>1. Unread = <<HereFrame>> /\ Unread' = <<>>
      BY <2>1, <2>2, <2>3, <2>5, UnreadView, UnreadViewNext DEF UnreadIs
    <3>2. Head(<<HereFrame>>) = HereFrame /\ Tail(<<HereFrame>>) = <<>> /\ <<HereFrame>> # <<>>
      OBVIOUS
    <3> QED
      BY <2>1, <3>1, <3>2 DEF Fifo!Next, Fifo!Deliver
  <2> QED
    BY <2>4, <2>5
<1>4. CASE CallbackEnables
  <2>1. /\ isr.pc \in {"rxcb", "read"} /\ UNCHANGED <<good, buf, reported>>
        /\ chip' = [chip EXCEPT !.mode = "rx"]
    BY <1>4 DEF CallbackEnables, RxOn, history
  <2>2. chip'.hs = chip.hs
    BY <2>1, RxOnView
  <2>3. isr'.frame = isr.frame /\ isr'.pc = IF isr.pc = "rxcb" THEN "enabled" ELSE "toggle"
    BY <1>4, ProceedView DEF CallbackEnables
  <2> QED
    BY <2>1, <2>2, <2>3, UnreadKept
<1>5. CASE CallbackSends \/ CallbackEnds
  <2>1. isr.pc = "read" /\ UNCHANGED <<good, buf, reported>>
    BY <1>5 DEF CallbackSends, CallbackEnds, chipvars, history
  <2>2. chip'.hs = chip.hs
    BY <1>5 DEF CallbackSends, CallbackEnds, chipvars, TypeOK, Chips
  <2>3. isr'.pc = "toggle"
    BY <1>5, ProceedView DEF CallbackSends, CallbackEnds
  <2> QED
    BY <2>1, <2>2, <2>3, UnreadKept
<1>6. CASE ToggleBuffer
  <2>1. /\ isr.pc = "toggle" /\ UNCHANGED <<good, buf, reported>>
        /\ chip' = IF dblbuffon THEN Toggled(chip) ELSE chip
    BY <1>6 DEF ToggleBuffer, history
  <2>2. isr'.pc \notin {"rxcb", "enabled"}
    <3>1. AfterRx(isr.st) \in {"tx", "to", "err", "idle"}
      BY DEF AfterRx, AfterTx, AfterTo, AfterErr
    <3> QED
      BY <1>6, <3>1, ProceedView DEF ToggleBuffer
  <2>3. CASE ~dblbuffon
    BY <2>1, <2>2, <2>3, UnreadKept
  <2>4. CASE dblbuffon
    <3>1. chip'.hs = 1 - chip.hs /\ 1 - chip'.hs = chip.hs
      BY <2>1, <2>4 DEF Toggled, TypeOK, Chips, Buffers
    <3>2. Here' = There /\ There' = Here /\ HereFrame' = ThereFrame /\ ThereFrame' = HereFrame
      BY <2>1, <3>1 DEF Here, There, HereFrame, ThereFrame
    <3> QED
      BY <2>1, <2>2, <3>2, UnreadView, UnreadViewNext DEF UnreadIs
  <2> QED
    BY <2>3, <2>4
<1>7. CASE FrameSent
  <2>1. isr.pc = "tx" /\ isr'.pc = "txcb" /\ reported' = reported
    BY <1>7, ProceedView DEF FrameSent, history
  <2>2. CASE TrxOff
    <3>1. ~Here' /\ ~There'
      BY <2>1, <2>2, ResetView DEF BufferInv, Callback
    <3> QED
      BY <2>1, <3>1, Dropped
  <2>3. CASE UNCHANGED <<chip, good, buf>>
    BY <2>1, <2>3, UnreadKept
  <2> QED
    BY <1>7, <2>2, <2>3 DEF FrameSent
<1>8. CASE TxDone \/ ReceptionEnds
  <2>1. isr.pc \in {"txcb", "tocb", "errcb"} /\ UNCHANGED <<good, buf, reported>>
    BY <1>8 DEF TxDone, ReceptionEnds, history
  <2>2. chip'.hs = chip.hs
    BY <1>8 DEF TxDone, ReceptionEnds, RxOn, TypeOK, Chips
  <2>3. isr'.pc \notin {"rxcb", "enabled"}
    <3>1. /\ AfterTx(isr.st) \in {"to", "err", "idle"}
          /\ AfterTo(isr.st) \in {"err", "idle"} /\ AfterErr = "idle"
      BY DEF AfterTx, AfterTo, AfterErr
    <3> QED
      BY <1>8, <3>1, ProceedView DEF TxDone, ReceptionEnds
  <2> QED
    BY <2>1, <2>2, <2>3, UnreadKept
<1>9. CASE TimedOut \/ Failed
  <2>1. isr.pc \in {"to", "err"} /\ TrxOff /\ reported' = reported
    BY <1>9 DEF TimedOut, Failed, history
  <2>2. isr'.pc \in {"tocb", "errcb"}
    BY <1>9, ProceedView DEF TimedOut, Failed
  <2>3. ~Here' /\ ~There'
    BY <2>1, ResetView DEF BufferInv, Callback
  <2> QED
    BY <2>1, <2>2, <2>3, Dropped
<1> QED
  BY <1>1, <1>2, <1>3, <1>4, <1>5, <1>6, <1>7, <1>8, <1>9 DEF Routine

-----------------------------------------------------------------------------
\* The theorems.

\* The invariant holds at first.
LEMMA InitIInv ==
    ASSUME Init
    PROVE  IInv
<1> USE DEF Init
<1>1. /\ chip.mode = "off" /\ ~chip.w4r /\ ~chip.late /\ chip.ic = 0 /\ chip.hs = 0
      /\ chip \in Chips /\ isr \in Isrs /\ isr.pc = "idle" /\ isr.st = {} /\ ~isr.aat
      /\ thread \in Threads /\ thread.pc = "idle" /\ thread.mode = {}
  BY DEF Chips, Buffers, Isrs, NoInterrupt, Threads, NoCall, Modes
<1>2. ~Here /\ ~There /\ Same /\ ~Sent /\ ~Answered /\ ~Missed /\ ~Acking
  BY <1>1 DEF Here, There, Same, Sent, Answered, Missed, Acking, Buffers
<1>3. TypeOK
  <2>1. MaxFrames \in Nat
    BY RadioAssumption
  <2>2. good \in [Buffers -> BOOLEAN] /\ buf \in [Buffers -> Frames \cup {NoFrame}]
    OBVIOUS
  <2>3. arrived \in 0..MaxFrames /\ reported \in Seq(Frames)
    BY <2>1
  <2>4. status \subseteq Events /\ mask \subseteq Interrupts
    OBVIOUS
  <2>5. /\ wait4resp \in BOOLEAN /\ dblbuffon \in BOOLEAN /\ locked \in BOOLEAN
        /\ tx \in {"none", "air", "ended"} /\ busy \in Commands
    BY DEF Commands
  <2> HIDE DEF Init
  <2> QED
    BY <1>1, <2>2, <2>3, <2>4, <2>5 DEF TypeOK
<1>4. ThreadInv /\ LateInv
  BY <1>1 DEF ThreadInv, LateInv
<1>5. ModeInv /\ StatusInv
  BY <1>1, <1>2 DEF ModeInv, StatusInv
<1>6. BufferInv /\ SnapshotInv /\ RoutineInv
  BY <1>1, <1>2 DEF BufferInv, SnapshotInv, RoutineInv, Callback
<1> QED
  BY <1>3, <1>4, <1>5, <1>6 DEF IInv

\* Every step keeps it.
LEMMA NextIInv ==
    ASSUME IInv, [Next]_vars
    PROVE  IInv'
<1>1. CASE Next
  BY <1>1, ChipStep, ContinueStep, CallStep, RoutineStep DEF Next
<1>2. CASE UNCHANGED vars
  <2>1. /\ UNCHANGED <<chip, status, good, buf, mask, wait4resp, dblbuffon, locked,
                       thread, isr, tx, busy, arrived, reported>>
    BY <1>2 DEF vars, chipvars, local, client, history
  <2>2. UNCHANGED <<Here, There, HereFrame, ThereFrame, Same, Sent, Answered, Missed, Acking>>
    BY <2>1, ViewKept DEF chipvars
  <2>3. TypeOK'
    BY <2>1 DEF IInv, TypeOK
  <2>4. ThreadInv' /\ LateInv'
    BY <2>1, <2>2 DEF IInv, ThreadInv, LateInv, Quiet
  <2>5. ModeInv' /\ StatusInv'
    BY <2>1, <2>2 DEF IInv, ModeInv, StatusInv
  <2>6. BufferInv' /\ SnapshotInv' /\ RoutineInv'
    BY <2>1, <2>2 DEF IInv, BufferInv, SnapshotInv, RoutineInv, Quiet
  <2> QED
    BY <2>3, <2>4, <2>5, <2>6 DEF IInv
<1> QED
  BY <1>1, <1>2

\* The invariant of chip, thread and routine holds in every behaviour of the driver.
THEOREM RadioInvariant == Spec => []IInv
<1>1. Init => IInv
  BY InitIInv
<1>2. IInv /\ [Next]_vars => IInv'
  BY NextIInv
<1> QED
  BY <1>1, <1>2, PTL DEF Spec

\* Every variable of the radio model keeps its type.
THEOREM RadioTypeCorrect == Spec => []TypeOK
<1>1. IInv => TypeOK
  BY DEF IInv
<1> QED
  BY <1>1, RadioInvariant, PTL

\* dwt_isr: wait4resp is set as long as the chip's WAIT4RESP can turn the receiver
\* on, however commands, frames, interrupts and dwt_forcetrxoff follow each other.
THEOREM WaitIsKnown == Spec => []WaitKnown
<1>1. IInv => WaitKnown
  BY DEF IInv, ModeInv, WaitKnown
<1> QED
  BY <1>1, RadioInvariant, PTL

\* dwt_isr: a receiver that the chip turned on after an acknowledgement is one the
\* routine still comes to turn off.
THEOREM WrongReceiverIsTurnedOff == Spec => []WrongReceiverEnds
<1>1. IInv => WrongReceiverEnds
  BY DEF IInv, ModeInv, StatusInv, Acking, Sent, Answered, WrongReceiverEnds
<1> QED
  BY <1>1, RadioInvariant, PTL

\* dwt_isr: the end of a transmission is in the status or in the callback until the
\* client knows of it.
THEOREM EndedTxIsKnown == Spec => []EndedTxKnown
<1>1. IInv => EndedTxKnown
  BY DEF IInv, StatusInv, Sent, EndedTxKnown
<1> QED
  BY <1>1, RadioInvariant, PTL

\* dwt_isr and dwt_forcetrxoff: when the client was told that everything ended, the
\* transceiver is off, no event is left, both buffers are empty and the pointers agree.
THEOREM RestMeansOff == Spec => []RestIsOff
<1>1. IInv => RestIsOff
  <2> SUFFICES ASSUME IInv, busy = "none", isr.pc = "idle"
               PROVE  /\ chip.mode = "off"
                      /\ Seen \cap Interrupts = {}
                      /\ good = [b \in Buffers |-> FALSE]
                      /\ chip.ic = chip.hs
    BY DEF RestIsOff
  <2>1. Quiet
    BY RestIsQuiet
  <2>2. Seen = {}
    BY <2>1 DEF Quiet, Seen, Here
  <2>3. chip.hs \in {0, 1} /\ good \in [{0, 1} -> BOOLEAN]
    BY DEF IInv, TypeOK, Chips, Buffers
  <2>4. good[0] = FALSE /\ good[1] = FALSE
    BY <2>1, <2>3 DEF Quiet, Here, There
  <2>5. good = [b \in Buffers |-> FALSE]
    BY <2>3, <2>4 DEF Buffers
  <2> QED
    BY <2>1, <2>2, <2>5 DEF Quiet, Same
<1> QED
  BY <1>1, RadioInvariant, PTL

\* dwt_isr with one or two receive buffers implements the queue of RxFifo: frames are
\* read whole and in their order, none is overwritten, and only turning the
\* transceiver off drops any.
THEOREM RadioImplementsFifo == Spec => ImplementsFifo
<1>1. Init => Fifo!Init
  <2> SUFFICES ASSUME Init PROVE Fifo!Init
    OBVIOUS
  <2>1. isr.pc = "idle" /\ ~Here /\ ~There /\ reported = <<>>
    BY DEF Init, NoInterrupt, Here, There, Buffers
  <2>2. Unread = <<>>
    BY <2>1, InitIInv, UnreadView DEF UnreadIs
  <2> QED
    BY <2>1, <2>2 DEF Fifo!Init
<1>2. IInv /\ IInv' /\ [Next]_vars => [Fifo!Next]_(Fifo!vars)
  <2> SUFFICES ASSUME IInv, IInv', [Next]_vars
               PROVE  Fifo!Next \/ UNCHANGED <<Unread, reported>>
    BY DEF Fifo!vars
  <2>1. CASE Next
    BY <2>1, ChipFifo, ThreadFifo, RoutineFifo DEF Next
  <2>2. CASE UNCHANGED vars
    BY <2>2 DEF vars, chipvars, history, Unread
  <2> QED
    BY <2>1, <2>2
<1> QED
  BY <1>1, <1>2, RadioInvariant, PTL DEF Spec, ImplementsFifo, Fifo!Spec
=============================================================================
