-------------------------------- MODULE Twr --------------------------------
(***************************************************************************)
(* Single-sided two-way ranging between tags and anchors.                  *)
(*                                                                         *)
(* A tag sends a poll and has its DW1000 turn the receiver on RxOn later,  *)
(* for RxTimeout.  An anchor that receives the poll programs its response  *)
(* to leave Reply after the reception.  Neither side keeps the sequence    *)
(* number of the frame it answers or waits for: ss_response_verify masks   *)
(* it out.  That a response is taken for the exchange it belongs to is a   *)
(* matter of timing alone.                                                 *)
(*                                                                         *)
(* Time advances in ticks.  A frame takes no time: its delays are counted  *)
(* between frame ends, and a receiver that is on at the end of a frame may *)
(* receive it, which includes receivers turned on too late to do so.  The  *)
(* host programs take any time between two steps.                          *)
(***************************************************************************)
EXTENDS Naturals

CONSTANTS Tags, Anchors,   \* the addresses of the devices
          RxOn,            \* SS_POLL_TX_RESP_RX_DLY_UUS
          RxTimeout,       \* SS_RESP_RX_TIMEOUT_UUS
          Reply,           \* SS_POLL_RX_RESP_TX_DLY_UUS
          PollTimeout,     \* SS_RX_TIMEOUT_UUS
          Stray,           \* a frame of no party, or none
          MaxExchanges     \* bound: exchanges per tag in one behaviour

Device == Tags \cup Anchors

\* The poll and the response of an exchange.  Its number is not in the frames:
\* it identifies the exchange in the properties.
Frame == [tag: Tags, anchor: Anchors, exchange: Nat] \cup {Stray}

\* With delays of 940 and 1130 UUS the first condition makes a response meet
\* the tag's receiver, the second keeps it out of the next exchange.
ASSUME TwrTiming == RxOn <= Reply /\ Reply <= RxOn + RxTimeout
ASSUME TwrSeparation == Reply < 2 * RxOn

ASSUME TwrAssumption ==
    /\ Tags \cap Anchors = {}
    /\ Stray \notin [tag: Tags, anchor: Anchors, exchange: Nat]
    /\ {RxOn, RxTimeout, Reply, PollTimeout} \subseteq Nat \ {0}
    /\ MaxExchanges \in Nat

VARIABLES
  pc,         \* pc[d]: where the host program of d is
  target,     \* target[t]: the anchor tag t ranges with
  exchange,   \* exchange[t]: number of the exchange tag t began last
  chip        \* chip[d]: the transceiver of d

vars == <<pc, target, exchange, chip>>

RxEvents == {"RXFCG", "ALL_RX_ERR", "ALL_RX_TO"}

\* timer: ticks until the receiver turns on, or times out; due: ticks until
\* Reply has passed since the last good frame; rx, tx: the frame buffers.
Chip == [mode: {"idle", "wait4resp", "rx", "txdelayed"}, timer: Nat, due: Nat,
         status: SUBSET (RxEvents \cup {"TXFRS"}), rx: Frame, tx: Frame]

Init == /\ pc = [d \in Device |-> IF d \in Tags THEN "idle" ELSE "enable"]
        /\ target \in [Tags -> Anchors]
        /\ exchange = [t \in Tags |-> 0]
        /\ chip = [d \in Device |-> [mode |-> "idle", timer |-> 0, due |-> 0,
                                     status |-> {}, rx |-> Stray, tx |-> Stray]]

-----------------------------------------------------------------------------
\* The transceivers and the air.

Listening(d) == chip[d].mode = "rx"

\* A good frame ends the run of the receiver c and starts the time to a response.
Received(c, frame) == [c EXCEPT !.mode = "idle", !.status = @ \cup {"RXFCG"},
                                !.rx = frame, !.due = Reply]

\* So does an error or a timeout, which the frame filter's rejection is too.
Failed(c, event) == [c EXCEPT !.mode = "idle", !.status = @ \cup {event}]

\* The receiver is turned on, for at most timeout.
Started(c, timeout) == [c EXCEPT !.mode = "rx", !.timer = timeout]

\* A delayed transmission of an answer to the frame received is programmed, or
\* turned off; it ends.
Programmed(c, m) == [c EXCEPT !.mode = m, !.tx = c.rx]
Sent(c) == [c EXCEPT !.mode = "idle", !.status = @ \cup {"TXFRS"}]

\* clear_status.
Cleared(c, events) == [c EXCEPT !.status = @ \ events]

\* One tick.
Aged(c) == [c EXCEPT !.timer = IF c.mode \in {"wait4resp", "rx"} THEN @ - 1 ELSE @,
                     !.due = IF @ > 0 THEN @ - 1 ELSE 0]

\* The receivers in R get a frame addressed to dst.
Heard(d, R, dst, frame) == IF d \notin R THEN chip[d]
                           ELSE IF d = dst THEN Received(chip[d], frame)
                           ELSE Failed(chip[d], "ALL_RX_ERR")

Reachable(sender, R) == R \subseteq {d \in Device \ {sender} : Listening(d)}

\* wait4resp: the receiver comes on by itself after the programmed delay.
ReceiverOn(t) ==
    /\ chip[t].mode = "wait4resp"
    /\ chip[t].timer = 0
    /\ chip' = [chip EXCEPT ![t] = Started(@, RxTimeout)]
    /\ UNCHANGED <<pc, target, exchange>>

ReceiveTimeout(d) == /\ Listening(d)
                     /\ chip[d].timer = 0
                     /\ chip' = [chip EXCEPT ![d] = Failed(@, "ALL_RX_TO")]
                     /\ UNCHANGED <<pc, target, exchange>>

\* Noise, a collision, a frame of a third party.
ReceiveError(d) == /\ Listening(d)
                   /\ chip' = [chip EXCEPT ![d] = Failed(@, "ALL_RX_ERR")]
                   /\ UNCHANGED <<pc, target, exchange>>

\* A frame with the device's address that is neither a poll nor a response.
ReceiveStray(d) == /\ Listening(d)
                   /\ chip' = [chip EXCEPT ![d] = Received(@, Stray)]
                   /\ UNCHANGED <<pc, target, exchange>>

\* The delayed response leaves, Reply after the poll came.
Transmit(a, R) ==
    /\ chip[a].mode = "txdelayed"
    /\ chip[a].due = 0
    /\ Reachable(a, R)
    /\ chip' = [d \in Device |->
                   IF d = a THEN Sent(chip[a])
                   ELSE Heard(d, R, chip[a].tx.tag, chip[a].tx)]
    /\ UNCHANGED <<pc, target, exchange>>

\* Events that are due happen before time goes on.
Tick ==
    /\ \A d \in Device: /\ chip[d].mode \in {"wait4resp", "rx"} => chip[d].timer > 0
                        /\ chip[d].mode = "txdelayed" => chip[d].due > 0
    /\ chip' = [d \in Device |-> Aged(chip[d])]
    /\ UNCHANGED <<pc, target, exchange>>

-----------------------------------------------------------------------------
\* The tag: uwb_tag_twr_ss.

\* clear_status, dwt_rxreset, the delay and the timeout of the receiver, and
\* the poll leaves with wait4resp.  TXFRS stays set.
PreparedChip(c) == [c EXCEPT !.mode = "wait4resp", !.timer = RxOn, !.status = @ \ RxEvents]

StartExchange(t, a, R) ==
    /\ pc[t] = "idle"
    /\ exchange[t] < MaxExchanges
    /\ Reachable(t, R)
    /\ pc' = [pc EXCEPT ![t] = "wait"]
    /\ target' = [target EXCEPT ![t] = a]
    /\ exchange' = [exchange EXCEPT ![t] = @ + 1]
    /\ chip' = [d \in Device |->
                   IF d = t THEN PreparedChip(chip[t])
                   ELSE Heard(d, R, a, [tag |-> t, anchor |-> a, exchange |-> exchange[t] + 1])]

\* ss_response_verify: a response of the target.  The frame filter has seen to
\* the destination; the sequence number is masked out.
IsResponse(t, frame) == frame # Stray /\ frame.anchor = target[t]

\* Mutant of FinishExchange: the timeout is not among the awaited events.
FinishWithoutTimeout(t) ==
    /\ pc[t] = "wait"
    /\ chip[t].status \cap {"RXFCG", "ALL_RX_ERR"} # {}
    /\ pc' = [pc EXCEPT ![t] = "idle"]
    /\ UNCHANGED <<target, exchange, chip>>

\* wait_for_status returns; the exchange ends with a distance or an error.
FinishExchange(t) ==
    /\ pc[t] = "wait"
    /\ chip[t].status \cap RxEvents # {}
    /\ pc' = [pc EXCEPT ![t] = "idle"]
    /\ UNCHANGED <<target, exchange, chip>>

\* The frame from which the tag is about to compute a distance is a response.
Accepts(t) == /\ pc[t] = "wait"
              /\ "RXFCG" \in chip[t].status
              /\ IsResponse(t, chip[t].rx)

-----------------------------------------------------------------------------
\* The anchor: uwb_anchor_twr.

\* dwt_setrxtimeout and dwt_rxenable.
EnableReceiver(a) ==
    /\ pc[a] = "enable"
    /\ pc' = [pc EXCEPT ![a] = "wait"]
    /\ chip' = [chip EXCEPT ![a] = Started(@, PollTimeout)]
    /\ UNCHANGED <<target, exchange>>

\* wait_for_status returns: a frame that passes ss_poll_verify is answered.
PollSeen(a) ==
    /\ pc[a] = "wait"
    /\ chip[a].status \cap RxEvents # {}
    /\ pc' = [pc EXCEPT ![a] = IF "RXFCG" \in chip[a].status /\ chip[a].rx # Stray
                               THEN "reply" ELSE "cleanup"]
    /\ UNCHANGED <<target, exchange, chip>>

\* Mutants of SendResponse: a response that is late is sent at once; the error
\* of dwt_starttx is ignored.
SendLateResponse(a) ==
    /\ pc[a] = "reply"
    /\ pc' = [pc EXCEPT ![a] = "sent"]
    /\ chip' = [chip EXCEPT ![a] = Programmed(@, "txdelayed")]
    /\ UNCHANGED <<target, exchange>>

SendResponseUnchecked(a) ==
    /\ pc[a] = "reply"
    /\ pc' = [pc EXCEPT ![a] = "sent"]
    /\ chip' = [chip EXCEPT ![a] = Programmed(@, IF @.due > 0 THEN "txdelayed" ELSE "idle")]
    /\ UNCHANGED <<target, exchange>>

\* The frame is written and dwt_starttx programmed for Reply after the poll.
\* When that time has passed, HPDWARN, it turns the transceiver off and fails.
SendResponse(a) ==
    /\ pc[a] = "reply"
    /\ \/ /\ chip[a].due > 0
          /\ pc' = [pc EXCEPT ![a] = "sent"]
          /\ chip' = [chip EXCEPT ![a] = Programmed(@, "txdelayed")]
       \/ /\ chip[a].due = 0
          /\ pc' = [pc EXCEPT ![a] = "cleanup"]
          /\ chip' = [chip EXCEPT ![a] = Programmed(@, "idle")]
    /\ UNCHANGED <<target, exchange>>

\* Mutant of ResponseSent: TXFRS is not cleared.
ResponseSentUncleared(a) ==
    /\ pc[a] = "sent"
    /\ "TXFRS" \in chip[a].status
    /\ pc' = [pc EXCEPT ![a] = "cleanup"]
    /\ UNCHANGED <<target, exchange, chip>>

\* send_frame_ack: the response has left.
ResponseSent(a) ==
    /\ pc[a] = "sent"
    /\ "TXFRS" \in chip[a].status
    /\ pc' = [pc EXCEPT ![a] = "cleanup"]
    /\ chip' = [chip EXCEPT ![a] = Cleared(@, {"TXFRS"})]
    /\ UNCHANGED <<target, exchange>>

\* clear_status and dwt_rxreset, after success and after every error.
Cleanup(a) ==
    /\ pc[a] = "cleanup"
    /\ pc' = [pc EXCEPT ![a] = "enable"]
    /\ chip' = [chip EXCEPT ![a] = Cleared(@, RxEvents)]
    /\ UNCHANGED <<target, exchange>>

-----------------------------------------------------------------------------
TagStep(t) == \/ \E a \in Anchors, R \in SUBSET Device: StartExchange(t, a, R)
              \/ FinishExchange(t)

AnchorStep(a) == \/ EnableReceiver(a)
                 \/ PollSeen(a)
                 \/ SendResponse(a)
                 \/ ResponseSent(a)
                 \/ Cleanup(a)

ChipStep(d) == \/ ReceiveTimeout(d)
               \/ ReceiveError(d)
               \/ ReceiveStray(d)

AirStep == \/ \E t \in Tags: ReceiverOn(t)
           \/ \E a \in Anchors, R \in SUBSET Device: Transmit(a, R)
           \/ \E d \in Device: ChipStep(d)

Next == \/ \E t \in Tags: TagStep(t)
        \/ \E a \in Anchors: AnchorStep(a)
        \/ AirStep
        \/ Tick

Spec == Init /\ [][Next]_vars

\* The programs and the transceivers run and time goes on; nothing obliges a
\* tag to begin an exchange or a frame to arrive.
Fairness == /\ \A t \in Tags: WF_vars(FinishExchange(t)) /\ WF_vars(ReceiverOn(t))
            /\ \A a \in Anchors: /\ WF_vars(AnchorStep(a))
                                 /\ WF_vars(\E R \in SUBSET Device: Transmit(a, R))
            /\ \A d \in Device: WF_vars(ReceiveTimeout(d))
            /\ WF_vars(Tick)

FairSpec == Spec /\ Fairness

-----------------------------------------------------------------------------
TypeOK ==
    /\ pc \in [Device -> {"idle", "wait", "enable", "reply", "sent", "cleanup"}]
    /\ \A d \in Device: pc[d] \in IF d \in Tags THEN {"idle", "wait"}
                          ELSE {"wait", "enable", "reply", "sent", "cleanup"}
    /\ target \in [Tags -> Anchors]
    /\ exchange \in [Tags -> Nat]
    /\ chip \in [Device -> Chip]
    /\ \A d \in Device: chip[d].mode = "txdelayed" => d \in Anchors /\ chip[d].tx # Stray

\* The response a tag takes its timestamps from belongs to the exchange the tag
\* is in, although nothing in the frame is compared with the poll: an answer to
\* an exchange the tag gave up comes while its receiver is still off.
OwnResponse ==
    \A t \in Tags: Accepts(t) => chip[t].rx.exchange = exchange[t]

\* The transceiver is idle whenever a program starts a transmission or the
\* receiver.  It would not be if TXFRS of the response before ended the wait for
\* the next one early.
IdleAtCommand ==
    /\ \A t \in Tags: pc[t] = "idle" => chip[t].mode = "idle"
    /\ \A a \in Anchors: pc[a] \in {"enable", "reply"} => chip[a].mode = "idle"

\* The inductive invariant behind the two.  Where each program and its
\* transceiver can be together:
TagInStep(t) ==
    /\ pc[t] = "idle" => chip[t].mode = "idle"
    /\ pc[t] = "wait" => (chip[t].mode = "idle" <=> chip[t].status \cap RxEvents # {})

AnchorInStep(a) ==
    /\ pc[a] = "enable" => chip[a].mode = "idle" /\ chip[a].status = {}
    /\ pc[a] = "wait" => /\ chip[a].mode \in {"rx", "idle"}
                         /\ chip[a].mode = "rx" => chip[a].status = {}
                         /\ "TXFRS" \notin chip[a].status
    /\ pc[a] = "reply" => /\ chip[a].mode = "idle"
                          /\ "RXFCG" \in chip[a].status
                          /\ "TXFRS" \notin chip[a].status
                          /\ chip[a].rx # Stray
    /\ pc[a] = "sent" => \/ chip[a].mode = "idle"
                         \/ /\ chip[a].mode = "txdelayed"
                            /\ "TXFRS" \notin chip[a].status
    /\ pc[a] = "cleanup" => /\ chip[a].mode = "idle"
                            /\ "TXFRS" \notin chip[a].status

\* The exchange anchor a will answer or, if its program is not late, may answer.
Pending(a) ==
    IF chip[a].mode = "txdelayed" THEN {chip[a].tx}
    ELSE IF /\ pc[a] \in {"wait", "reply"}
            /\ "RXFCG" \in chip[a].status
            /\ chip[a].due > 0
            /\ chip[a].rx # Stray
    THEN {chip[a].rx} ELSE {}

\* When the answer will come, as seen by the tag: an answer to an old exchange
\* comes before the receiver is on, and while it is on only that to the present
\* one is left.
AnswerInTime(a, f) ==
    /\ f.exchange <= exchange[f.tag]
    /\ chip[f.tag].mode = "wait4resp" =>
          /\ chip[a].due + RxOn <= chip[f.tag].timer + Reply
          /\ f.exchange # exchange[f.tag] => chip[a].due < chip[f.tag].timer
    /\ chip[f.tag].mode # "wait4resp" => chip[a].due + RxOn <= Reply
    /\ chip[f.tag].mode = "rx" => f.exchange = exchange[f.tag]

ReceivedOwn(t) ==
    pc[t] = "wait" /\ "RXFCG" \in chip[t].status /\ chip[t].rx # Stray
        => chip[t].rx.exchange = exchange[t]

TimedExchanges == /\ \A t \in Tags: TagInStep(t) /\ ReceivedOwn(t)
                  /\ \A a \in Anchors: AnchorInStep(a)
                  /\ \A a \in Anchors: \A f \in Pending(a): AnswerInTime(a, f)

\* An exchange ends, whatever the anchor and the air do.
ExchangeEnds == \A t \in Tags: pc[t] = "wait" ~> pc[t] = "idle"

\* An anchor is back at its receiver after every poll, answered or not.
AnchorReturns == \A a \in Anchors: pc[a] # "enable" ~> pc[a] = "enable"
=============================================================================
