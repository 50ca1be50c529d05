----------------------------- MODULE TwrProofs -----------------------------
(***************************************************************************)
(* Proofs about Twr, for every set of tags and anchors and all delays that *)
(* satisfy the two timing assumptions.                                     *)
(***************************************************************************)
EXTENDS Twr, TLAPS

\* The delays are natural numbers and the sets of addresses are disjoint.
LEMMA Constants ==
    /\ RxOn \in Nat \ {0} /\ RxTimeout \in Nat \ {0}
    /\ Reply \in Nat \ {0} /\ PollTimeout \in Nat \ {0}
    /\ Reply < 2 * RxOn
    /\ \A t \in Tags: t \in Device /\ t \notin Anchors
    /\ \A a \in Anchors: a \in Device /\ a \notin Tags
    /\ Stray \in Frame
BY TwrAssumption, TwrSeparation DEF Device, Frame

\* What each operation does to the fields of a transceiver.
LEMMA ReceivedFacts ==
    ASSUME NEW c \in Chip, NEW f \in Frame
    PROVE  /\ Received(c, f) \in Chip
           /\ Received(c, f).mode = "idle"
           /\ Received(c, f).rx = f
           /\ Received(c, f).due = Reply
           /\ Received(c, f).status = c.status \cup {"RXFCG"}
           /\ Received(c, f).tx = c.tx
<1>1. c.status \cup {"RXFCG"} \in SUBSET (RxEvents \cup {"TXFRS"}) /\ Reply \in Nat
  BY Constants DEF Chip, RxEvents
<1> QED BY <1>1 DEF Received, Chip

LEMMA FailedFacts ==
    ASSUME NEW c \in Chip, NEW e \in {"ALL_RX_ERR", "ALL_RX_TO"}
    PROVE  /\ Failed(c, e) \in Chip
           /\ Failed(c, e).mode = "idle"
           /\ Failed(c, e).rx = c.rx
           /\ Failed(c, e).due = c.due
           /\ Failed(c, e).status = c.status \cup {e}
           /\ Failed(c, e).tx = c.tx
<1>1. c.status \cup {e} \in SUBSET (RxEvents \cup {"TXFRS"})
  BY DEF Chip, RxEvents
<1> QED BY <1>1 DEF Failed, Chip

LEMMA StartedFacts ==
    ASSUME NEW c \in Chip, NEW timeout \in Nat
    PROVE  /\ Started(c, timeout) \in Chip
           /\ Started(c, timeout).mode = "rx"
           /\ Started(c, timeout).status = c.status
           /\ Started(c, timeout).rx = c.rx
BY DEF Started, Chip

LEMMA ProgrammedFacts ==
    ASSUME NEW c \in Chip, NEW m \in {"idle", "txdelayed"}
    PROVE  /\ Programmed(c, m) \in Chip
           /\ Programmed(c, m).mode = m
           /\ Programmed(c, m).status = c.status
           /\ Programmed(c, m).due = c.due
           /\ Programmed(c, m).tx = c.rx
BY DEF Programmed, Chip

LEMMA SentFacts ==
    ASSUME NEW c \in Chip
    PROVE  /\ Sent(c) \in Chip
           /\ Sent(c).mode = "idle"
           /\ Sent(c).status = c.status \cup {"TXFRS"}
<1>1. c.status \cup {"TXFRS"} \in SUBSET (RxEvents \cup {"TXFRS"})
  BY DEF Chip
<1> QED BY <1>1 DEF Sent, Chip

LEMMA ClearedFacts ==
    ASSUME NEW c \in Chip, NEW events
    PROVE  /\ Cleared(c, events) \in Chip
           /\ Cleared(c, events).mode = c.mode
           /\ Cleared(c, events).status = c.status \ events
           /\ Cleared(c, events).tx = c.tx
<1>1. c.status \ events \in SUBSET (RxEvents \cup {"TXFRS"})
  BY DEF Chip
<1> QED BY <1>1 DEF Cleared, Chip

LEMMA PreparedFacts ==
    ASSUME NEW c \in Chip
    PROVE  /\ PreparedChip(c) \in Chip
           /\ PreparedChip(c).mode = "wait4resp"
           /\ PreparedChip(c).timer = RxOn
           /\ PreparedChip(c).status = c.status \ RxEvents
<1>1. c.status \ RxEvents \in SUBSET (RxEvents \cup {"TXFRS"}) /\ RxOn \in Nat
  BY Constants DEF Chip
<1> QED BY <1>1 DEF PreparedChip, Chip

LEMMA AgedFacts ==
    ASSUME NEW c \in Chip, c.mode \in {"wait4resp", "rx"} => c.timer > 0
    PROVE  /\ Aged(c) \in Chip
           /\ Aged(c).mode = c.mode
           /\ c.mode = "wait4resp" => Aged(c).timer = c.timer - 1
           /\ Aged(c).due = IF c.due > 0 THEN c.due - 1 ELSE 0
           /\ Aged(c).status = c.status
           /\ Aged(c).rx = c.rx
           /\ Aged(c).tx = c.tx
<1>1. /\ c.timer \in Nat /\ c.due \in Nat
      /\ (IF c.mode \in {"wait4resp", "rx"} THEN c.timer - 1 ELSE c.timer) \in Nat
      /\ (IF c.due > 0 THEN c.due - 1 ELSE 0) \in Nat
  BY DEF Chip
<1> QED BY <1>1 DEF Aged, Chip

\* A frame reaches the receivers in R: each is then idle, only the one it is
\* addressed to has a good frame, and the other transceivers are unchanged.
LEMMA HeardFacts ==
    ASSUME TypeOK, NEW d \in Device, NEW R, NEW dst, NEW f \in Frame
    PROVE  /\ Heard(d, R, dst, f) \in Chip
           /\ Heard(d, R, dst, f).tx = chip[d].tx
           /\ d \notin R => Heard(d, R, dst, f) = chip[d]
           /\ d \in R => Heard(d, R, dst, f).mode = "idle"
           /\ d \in R /\ d = dst =>
                 /\ Heard(d, R, dst, f).rx = f
                 /\ Heard(d, R, dst, f).due = Reply
                 /\ Heard(d, R, dst, f).status = chip[d].status \cup {"RXFCG"}
           /\ d \in R /\ d # dst =>
                 /\ Heard(d, R, dst, f).rx = chip[d].rx
                 /\ Heard(d, R, dst, f).due = chip[d].due
                 /\ Heard(d, R, dst, f).status = chip[d].status \cup {"ALL_RX_ERR"}
<1>1. chip[d] \in Chip
  BY DEF TypeOK
<1> QED BY <1>1, ReceivedFacts, FailedFacts DEF Heard

-----------------------------------------------------------------------------
LEMMA InitType == Init => TypeOK
<1> SUFFICES ASSUME Init PROVE TypeOK
  OBVIOUS
<1>1. [mode |-> "idle", timer |-> 0, due |-> 0, status |-> {}, rx |-> Stray, tx |-> Stray] \in Chip
  BY Constants DEF Chip
<1> QED BY <1>1, Constants DEF Init, TypeOK, Device

\* Only the two steps that put frames in the buffer of an anchor need more than
\* the types: what is programmed for transmission is an answer.
LEMMA ChipType ==
    ASSUME TypeOK, NEW d \in Device, NEW c \in Chip,
           c.mode = "txdelayed" => d \in Anchors /\ c.tx # Stray
    PROVE  LET new == [chip EXCEPT ![d] = c]
           IN  /\ new \in [Device -> Chip]
               /\ \A e \in Device: new[e].mode = "txdelayed" => e \in Anchors /\ new[e].tx # Stray
BY DEF TypeOK

LEMMA NextType == TypeOK /\ TimedExchanges /\ [Next]_vars => TypeOK'
<1> SUFFICES ASSUME TypeOK, TimedExchanges, [Next]_vars PROVE TypeOK'
  OBVIOUS
<1>a. /\ \A d \in Device: /\ chip[d] \in Chip
                          /\ chip[d].rx \in Frame /\ chip[d].tx \in Frame
                          /\ chip[d].timer \in Nat /\ chip[d].due \in Nat
                          /\ chip[d].mode = "txdelayed" => d \in Anchors /\ chip[d].tx # Stray
      /\ Tags \subseteq Device /\ Anchors \subseteq Device
      /\ \A t \in Tags: t \notin Anchors
      /\ RxTimeout \in Nat /\ PollTimeout \in Nat /\ Stray \in Frame
  BY Constants DEF Chip, TypeOK
<1>b. ASSUME NEW R, NEW dst, NEW f \in Frame, NEW d \in Device
      PROVE  /\ Heard(d, R, dst, f) \in Chip
             /\ Heard(d, R, dst, f).mode = "txdelayed"
                    => d \in Anchors /\ Heard(d, R, dst, f).tx # Stray
  <2>1. /\ Heard(d, R, dst, f) \in Chip
        /\ Heard(d, R, dst, f).tx = chip[d].tx
        /\ d \in R => Heard(d, R, dst, f).mode = "idle"
        /\ d \notin R => Heard(d, R, dst, f) = chip[d]
    BY HeardFacts
  <2> QED BY <1>a, <2>1
<1>1. ASSUME NEW t \in Tags, NEW a \in Anchors, NEW R \in SUBSET Device, StartExchange(t, a, R)
      PROVE  TypeOK'
  <2> DEFINE poll == [tag |-> t, anchor |-> a, exchange |-> exchange[t] + 1]
  <2>1. poll \in Frame
    BY DEF Frame, TypeOK
  <2>2. PreparedChip(chip[t]) \in Chip /\ PreparedChip(chip[t]).mode = "wait4resp"
    BY <1>a, PreparedFacts
  <2>3. chip' = [d \in Device |-> IF d = t THEN PreparedChip(chip[t]) ELSE Heard(d, R, a, poll)]
    BY <1>1 DEF StartExchange
  <2> HIDE DEF poll
  <2>4. /\ chip' \in [Device -> Chip]
        /\ \A d \in Device: chip'[d].mode = "txdelayed" => d \in Anchors /\ chip'[d].tx # Stray
    BY <1>a, <1>b, <2>1, <2>2, <2>3
  <2>5. /\ pc' = [pc EXCEPT ![t] = "wait"]
        /\ target' = [target EXCEPT ![t] = a]
        /\ exchange' = [exchange EXCEPT ![t] = @ + 1]
    BY <1>1 DEF StartExchange
  <2>6. /\ target' \in [Tags -> Anchors]
        /\ exchange' \in [Tags -> Nat]
    BY <2>5 DEF TypeOK
  <2> QED BY <1>a, <2>4, <2>5, <2>6 DEF TypeOK
<1>2. ASSUME NEW t \in Tags, FinishExchange(t) PROVE TypeOK'
  BY <1>2, <1>a DEF FinishExchange, TypeOK
<1>3. ASSUME NEW a \in Anchors, EnableReceiver(a) PROVE TypeOK'
  <2>1. Started(chip[a], PollTimeout) \in Chip /\ Started(chip[a], PollTimeout).mode = "rx"
    BY <1>a, StartedFacts
  <2>2. /\ pc' = [pc EXCEPT ![a] = "wait"]
        /\ chip' = [chip EXCEPT ![a] = Started(chip[a], PollTimeout)]
        /\ UNCHANGED <<target, exchange>>
    BY <1>3 DEF EnableReceiver
  <2>3. /\ chip' \in [Device -> Chip]
        /\ \A d \in Device: chip'[d].mode = "txdelayed" => d \in Anchors /\ chip'[d].tx # Stray
    BY <1>a, <2>1, <2>2, ChipType
  <2> QED BY <1>a, <2>2, <2>3 DEF TypeOK
<1>4. ASSUME NEW a \in Anchors, PollSeen(a) PROVE TypeOK'
  BY <1>4, <1>a DEF PollSeen, TypeOK
<1>5. ASSUME NEW a \in Anchors, SendResponse(a) PROVE TypeOK'
  <2>1. chip[a].rx # Stray
    BY <1>5 DEF SendResponse, TimedExchanges, AnchorInStep
  <2>2. ASSUME NEW m \in {"idle", "txdelayed"},
               chip' = [chip EXCEPT ![a] = Programmed(chip[a], m)]
        PROVE  /\ chip' \in [Device -> Chip]
               /\ \A d \in Device: chip'[d].mode = "txdelayed" => d \in Anchors /\ chip'[d].tx # Stray
    <3>1. /\ Programmed(chip[a], m) \in Chip
          /\ Programmed(chip[a], m).tx = chip[a].rx
      BY <1>a, ProgrammedFacts
    <3> QED BY <1>a, <2>1, <2>2, <3>1, ChipType
  <2>3. /\ chip' \in [Device -> Chip]
        /\ \A d \in Device: chip'[d].mode = "txdelayed" => d \in Anchors /\ chip'[d].tx # Stray
    BY <1>5, <2>2 DEF SendResponse
  <2> QED BY <1>5, <1>a, <2>3 DEF SendResponse, TypeOK
<1>6. ASSUME NEW a \in Anchors, ResponseSent(a) PROVE TypeOK'
  BY <1>6, <1>a, ClearedFacts, ChipType DEF ResponseSent, TypeOK
<1>7. ASSUME NEW a \in Anchors, Cleanup(a) PROVE TypeOK'
  BY <1>7, <1>a, ClearedFacts, ChipType DEF Cleanup, TypeOK
<1>8. ASSUME NEW t \in Tags, ReceiverOn(t) PROVE TypeOK'
  BY <1>8, <1>a, StartedFacts, ChipType DEF ReceiverOn, TypeOK
<1>9. ASSUME NEW d \in Device, ChipStep(d) PROVE TypeOK'
  <2>1. /\ Received(chip[d], Stray) \in Chip
        /\ Received(chip[d], Stray).mode = "idle"
        /\ \A e \in {"ALL_RX_ERR", "ALL_RX_TO"}:
               Failed(chip[d], e) \in Chip /\ Failed(chip[d], e).mode = "idle"
    BY <1>a, ReceivedFacts, FailedFacts
  <2>2. PICK c \in Chip: c.mode = "idle" /\ chip' = [chip EXCEPT ![d] = c]
    BY <1>9, <2>1 DEF ChipStep, ReceiveTimeout, ReceiveError, ReceiveStray
  <2>3. /\ chip' \in [Device -> Chip]
        /\ \A e \in Device: chip'[e].mode = "txdelayed" => e \in Anchors /\ chip'[e].tx # Stray
    BY <2>2, ChipType
  <2>4. UNCHANGED <<pc, target, exchange>>
    BY <1>9 DEF ChipStep, ReceiveTimeout, ReceiveError, ReceiveStray
  <2> QED BY <2>3, <2>4 DEF TypeOK
<1>10. ASSUME NEW a \in Anchors, NEW R \in SUBSET Device, Transmit(a, R) PROVE TypeOK'
  <2>1. Sent(chip[a]) \in Chip /\ Sent(chip[a]).mode = "idle"
    BY <1>a, SentFacts
  <2>2. /\ chip' \in [Device -> Chip]
        /\ \A d \in Device: chip'[d].mode = "txdelayed" => d \in Anchors /\ chip'[d].tx # Stray
    <3> DEFINE f == chip[a].tx
    <3>1. chip' = [d \in Device |-> IF d = a THEN Sent(chip[a]) ELSE Heard(d, R, f.tag, f)]
      BY <1>10 DEF Transmit
    <3>2. f \in Frame
      BY <1>a
    <3> HIDE DEF f
    <3> QED BY <1>b, <2>1, <3>1, <3>2
  <2> QED BY <1>10, <2>2 DEF Transmit, TypeOK
<1>11. CASE Tick
  <2>1. \A d \in Device: /\ Aged(chip[d]) \in Chip
                         /\ Aged(chip[d]).mode = chip[d].mode
                         /\ Aged(chip[d]).tx = chip[d].tx
    BY <1>11, <1>a, AgedFacts DEF Tick
  <2> QED BY <1>11, <1>a, <2>1 DEF Tick, TypeOK
<1>12. CASE UNCHANGED vars
  BY <1>12 DEF vars, TypeOK
<1> QED
  BY <1>1, <1>2, <1>3, <1>4, <1>5, <1>6, <1>7, <1>8, <1>9, <1>10, <1>11, <1>12
  DEF Next, TagStep, AnchorStep, AirStep

-----------------------------------------------------------------------------
\* What is pending is the poll or the response of an exchange.
LEMMA PendingType ==
    ASSUME TypeOK, NEW a \in Anchors, NEW f \in Pending(a)
    PROVE  /\ f.tag \in Tags /\ f.exchange \in Nat
           /\ f \in Frame /\ f # Stray
           /\ exchange[f.tag] \in Nat
<1>1. a \in Device /\ chip[a] \in Chip
  BY Constants DEF TypeOK
<1>2. f \in Frame /\ f # Stray
  BY <1>1 DEF Pending, Chip, TypeOK
<1> QED BY <1>2 DEF Frame, TypeOK

LEMMA ChipFields ==
    ASSUME TypeOK, NEW d \in Device
    PROVE  /\ chip[d] \in Chip
           /\ chip[d].timer \in Nat /\ chip[d].due \in Nat
           /\ chip[d].rx \in Frame /\ chip[d].tx \in Frame
           /\ chip[d].mode \in {"idle", "wait4resp", "rx", "txdelayed"}
           /\ chip[d].status \subseteq {"RXFCG", "ALL_RX_ERR", "ALL_RX_TO", "TXFRS"}
BY DEF TypeOK, Chip, RxEvents

LEMMA InitTimed == Init => TimedExchanges
<1> SUFFICES ASSUME Init PROVE TimedExchanges
  OBVIOUS
<1>1. \A d \in Device: chip[d].mode = "idle" /\ chip[d].status = {}
  BY DEF Init
<1>2. \A a \in Anchors: pc[a] = "enable" /\ Pending(a) = {}
  BY <1>1, Constants DEF Init, Pending
<1>3. \A t \in Tags: pc[t] = "idle"
  BY Constants DEF Init
<1> QED BY <1>1, <1>2, <1>3, Constants DEF TimedExchanges, TagInStep, AnchorInStep, ReceivedOwn

\* A step of one anchor and its transceiver that leaves it nothing new to answer.
LEMMA AnchorLocal ==
    ASSUME TypeOK, TimedExchanges, NEW a \in Anchors, UNCHANGED exchange,
           \A d \in Device \ {a}: chip'[d] = chip[d] /\ pc'[d] = pc[d],
           Pending(a)' \subseteq Pending(a),
           Pending(a)' # {} => chip'[a].due = chip[a].due,
           AnchorInStep(a)'
    PROVE  TimedExchanges'
<1>1. \A t \in Tags: chip'[t] = chip[t] /\ pc'[t] = pc[t]
  BY Constants
<1>2. \A t \in Tags: TagInStep(t)' /\ ReceivedOwn(t)'
  BY <1>1 DEF TimedExchanges, TagInStep, ReceivedOwn
<1>3. ASSUME NEW b \in Anchors, NEW f \in Pending(b)' PROVE AnswerInTime(b, f)'
  <2>1. f \in Pending(b) /\ chip'[b].due = chip[b].due
    BY <1>3, Constants DEF Pending
  <2>2. f.tag \in Tags
    BY <2>1, PendingType
  <2> QED BY <1>1, <2>1, <2>2 DEF TimedExchanges, AnswerInTime
<1>4. \A b \in Anchors: AnchorInStep(b)'
  BY Constants DEF TimedExchanges, AnchorInStep
<1> QED BY <1>2, <1>3, <1>4 DEF TimedExchanges

\* A step of one tag and its transceiver after which it does not wait for its
\* receiver to come on.
LEMMA TagLocal ==
    ASSUME TypeOK, TimedExchanges, NEW t \in Tags, UNCHANGED exchange,
           \A d \in Device \ {t}: chip'[d] = chip[d] /\ pc'[d] = pc[d],
           \/ chip'[t] = chip[t]
           \/ chip[t].mode # "wait4resp" /\ chip'[t].mode = "idle",
           TagInStep(t)', ReceivedOwn(t)'
    PROVE  TimedExchanges'
<1>1. \A a \in Anchors: chip'[a] = chip[a] /\ pc'[a] = pc[a]
  BY Constants
<1>2. \A a \in Anchors: AnchorInStep(a)' /\ Pending(a)' = Pending(a)
  BY <1>1 DEF TimedExchanges, AnchorInStep, Pending
<1>3. ASSUME NEW a \in Anchors, NEW f \in Pending(a)' PROVE AnswerInTime(a, f)'
  <2>1. f \in Pending(a) /\ f.tag \in Tags /\ f.tag \in Device
    BY <1>2, PendingType, Constants
  <2>2. AnswerInTime(a, f)
    BY <2>1 DEF TimedExchanges
  <2>3. CASE f.tag = t
    BY <1>1, <2>1, <2>2, <2>3 DEF AnswerInTime
  <2>4. CASE f.tag # t
    BY <1>1, <2>1, <2>2, <2>4 DEF AnswerInTime
  <2> QED BY <2>3, <2>4
<1>4. \A u \in Tags: TagInStep(u)' /\ ReceivedOwn(u)'
  BY Constants DEF TimedExchanges, TagInStep, ReceivedOwn
<1> QED BY <1>2, <1>3, <1>4 DEF TimedExchanges

\* A receiver that a frame reaches, or whose run fails, is on; a tag's then waits
\* for no answer but that to its present exchange.
LEMMA ListeningFacts ==
    ASSUME TypeOK, TimedExchanges, NEW d \in Device, Listening(d)
    PROVE  /\ pc[d] = "wait"
           /\ chip[d].mode = "rx"
           /\ chip[d].status \cap RxEvents = {}
           /\ d \in Anchors => chip[d].status = {} /\ Pending(d) = {}
<1>1. chip[d].mode = "rx"
  BY DEF Listening
<1>2. CASE d \in Tags
  <2>1. TagInStep(d) /\ pc[d] \in {"idle", "wait"} /\ d \notin Anchors
    BY <1>2, Constants DEF TimedExchanges, TypeOK
  <2> QED BY <1>1, <1>2, <2>1 DEF TagInStep
<1>3. CASE d \notin Tags
  <2>1. d \in Anchors /\ AnchorInStep(d) /\ pc[d] \in {"wait", "enable", "reply", "sent", "cleanup"}
    BY <1>3 DEF TimedExchanges, TypeOK, Device
  <2>2. pc[d] = "wait" /\ chip[d].status = {}
    BY <1>1, <2>1 DEF AnchorInStep
  <2> QED BY <1>1, <2>1, <2>2 DEF Pending
<1> QED BY <1>2, <1>3

-----------------------------------------------------------------------------
\* The anchor's own steps: an answer is pending from the reception of the poll
\* until it leaves or is late.
LEMMA AnchorStepTimed ==
    ASSUME TypeOK, TimedExchanges, NEW a \in Anchors, AnchorStep(a)
    PROVE  TimedExchanges'
<1>0. /\ a \in Device /\ chip[a] \in Chip
      /\ AnchorInStep(a)
      /\ PollTimeout \in Nat
  BY Constants DEF TypeOK, TimedExchanges
<1>1. CASE EnableReceiver(a)
  <2>1. /\ pc[a] = "enable" /\ pc'[a] = "wait"
        /\ chip'[a] = Started(chip[a], PollTimeout)
        /\ UNCHANGED exchange
        /\ \A d \in Device \ {a}: chip'[d] = chip[d] /\ pc'[d] = pc[d]
    BY <1>0, <1>1 DEF EnableReceiver, TypeOK
  <2>2. chip'[a].mode = "rx" /\ chip'[a].status = {}
    BY <1>0, <2>1, StartedFacts DEF AnchorInStep
  <2> QED BY <2>1, <2>2, AnchorLocal DEF AnchorInStep, Pending
<1>2. CASE PollSeen(a)
  <2>1. /\ pc[a] = "wait"
        /\ chip[a].status \cap RxEvents # {}
        /\ pc'[a] = IF "RXFCG" \in chip[a].status /\ chip[a].rx # Stray
                    THEN "reply" ELSE "cleanup"
        /\ chip' = chip
        /\ UNCHANGED exchange
        /\ \A d \in Device \ {a}: chip'[d] = chip[d] /\ pc'[d] = pc[d]
    BY <1>0, <1>2 DEF PollSeen, TypeOK
  <2>2. chip[a].mode = "idle" /\ "TXFRS" \notin chip[a].status
    BY <1>0, <2>1 DEF AnchorInStep
  <2> QED BY <2>1, <2>2, AnchorLocal DEF AnchorInStep, Pending
<1>3. CASE SendResponse(a)
  <2>1. /\ pc[a] = "reply"
        /\ UNCHANGED exchange
        /\ \A d \in Device \ {a}: chip'[d] = chip[d] /\ pc'[d] = pc[d]
        /\ \/ /\ chip[a].due > 0
              /\ pc'[a] = "sent"
              /\ chip'[a] = Programmed(chip[a], "txdelayed")
           \/ /\ pc'[a] = "cleanup"
              /\ chip'[a] = Programmed(chip[a], "idle")
    BY <1>0, <1>3 DEF SendResponse, TypeOK
  <2>2. /\ "RXFCG" \in chip[a].status /\ "TXFRS" \notin chip[a].status
        /\ chip[a].rx # Stray /\ chip[a].mode = "idle"
    BY <1>0, <2>1 DEF AnchorInStep
  <2>3. CASE chip[a].due > 0 /\ pc'[a] = "sent" /\ chip'[a] = Programmed(chip[a], "txdelayed")
    <3>1. /\ chip'[a].mode = "txdelayed" /\ chip'[a].tx = chip[a].rx
          /\ chip'[a].due = chip[a].due /\ chip'[a].status = chip[a].status
      <4>1. chip[a] \in Chip
        BY <1>0 DEF TypeOK
      <4>2. "txdelayed" \in {"idle", "txdelayed"}
        OBVIOUS
      <4>3. /\ Programmed(chip[a], "txdelayed").mode = "txdelayed"
            /\ Programmed(chip[a], "txdelayed").tx = chip[a].rx
            /\ Programmed(chip[a], "txdelayed").due = chip[a].due
            /\ Programmed(chip[a], "txdelayed").status = chip[a].status
        BY <4>1, <4>2, ProgrammedFacts
      <4> QED BY <2>3, <4>3
    <3>2. Pending(a)' = {chip[a].rx} /\ Pending(a) = {chip[a].rx}
      BY <2>1, <2>2, <2>3, <3>1 DEF Pending
    <3>3. AnchorInStep(a)'
      BY <2>2, <2>3, <3>1 DEF AnchorInStep
    <3> QED BY <2>1, <3>1, <3>2, <3>3, AnchorLocal
  <2>4. CASE pc'[a] = "cleanup" /\ chip'[a] = Programmed(chip[a], "idle")
    <3>1. chip'[a].mode = "idle" /\ chip'[a].status = chip[a].status
      <4>1. chip[a] \in Chip
        BY <1>0 DEF TypeOK
      <4>2. "idle" \in {"idle", "txdelayed"}
        OBVIOUS
      <4>3. /\ Programmed(chip[a], "idle").mode = "idle"
            /\ Programmed(chip[a], "idle").tx = chip[a].rx
            /\ Programmed(chip[a], "idle").due = chip[a].due
            /\ Programmed(chip[a], "idle").status = chip[a].status
        BY <4>1, <4>2, ProgrammedFacts
      <4> QED BY <2>4, <4>3
    <3>2. Pending(a)' = {} /\ AnchorInStep(a)'
      BY <2>2, <2>4, <3>1 DEF Pending, AnchorInStep
    <3> QED BY <2>1, <3>2, AnchorLocal
  <2> QED BY <2>1, <2>3, <2>4
<1>4. CASE ResponseSent(a)
  <2>1. /\ pc[a] = "sent" /\ pc'[a] = "cleanup"
        /\ "TXFRS" \in chip[a].status
        /\ chip'[a] = Cleared(chip[a], {"TXFRS"})
        /\ UNCHANGED exchange
        /\ \A d \in Device \ {a}: chip'[d] = chip[d] /\ pc'[d] = pc[d]
    BY <1>0, <1>4 DEF ResponseSent, TypeOK
  <2>2. chip'[a].mode = "idle" /\ "TXFRS" \notin chip'[a].status
    BY <1>0, <2>1, ClearedFacts DEF AnchorInStep
  <2> QED BY <2>1, <2>2, AnchorLocal DEF AnchorInStep, Pending
<1>5. CASE Cleanup(a)
  <2>1. /\ pc[a] = "cleanup" /\ pc'[a] = "enable"
        /\ chip'[a] = Cleared(chip[a], RxEvents)
        /\ UNCHANGED exchange
        /\ \A d \in Device \ {a}: chip'[d] = chip[d] /\ pc'[d] = pc[d]
    BY <1>0, <1>5 DEF Cleanup, TypeOK
  <2>2. chip'[a].mode = "idle" /\ chip'[a].status = chip[a].status \ RxEvents
    BY <1>0, <2>1, ClearedFacts DEF AnchorInStep
  <2>3. chip'[a].status = {}
    BY <1>0, <2>1, <2>2, ChipFields DEF AnchorInStep, RxEvents
  <2> QED BY <2>1, <2>2, <2>3, AnchorLocal DEF AnchorInStep, Pending
<1> QED BY <1>1, <1>2, <1>3, <1>4, <1>5 DEF AnchorStep

\* A run of a receiver that ends with nothing heard, or with a stray frame.
LEMMA ChipStepTimed ==
    ASSUME TypeOK, TimedExchanges, NEW d \in Device, ChipStep(d)
    PROVE  TimedExchanges'
<1>1. /\ Listening(d)
      /\ UNCHANGED <<pc, target, exchange>>
      /\ \E c \in {Failed(chip[d], "ALL_RX_TO"), Failed(chip[d], "ALL_RX_ERR"),
                   Received(chip[d], Stray)}: chip' = [chip EXCEPT ![d] = c]
  BY DEF ChipStep, ReceiveTimeout, ReceiveError, ReceiveStray
<1>2. /\ chip'[d].mode = "idle"
      /\ \/ \E e \in {"ALL_RX_ERR", "ALL_RX_TO"}: chip'[d].status = chip[d].status \cup {e}
         \/ chip'[d].status = chip[d].status \cup {"RXFCG"} /\ chip'[d].rx = Stray
      /\ \A e \in Device \ {d}: chip'[e] = chip[e]
  BY <1>1, ReceivedFacts, FailedFacts, Constants DEF TypeOK
<1>3. /\ pc[d] = "wait"
      /\ chip[d].mode = "rx"
      /\ chip[d].status \cap RxEvents = {}
  BY <1>1, ListeningFacts
<1>4. CASE d \in Anchors
  <2>1. chip[d].status = {} /\ Pending(d) = {}
    BY <1>1, <1>4, ListeningFacts
  <2>2. AnchorInStep(d)' /\ Pending(d)' = {}
    BY <1>1, <1>2, <1>3, <2>1 DEF AnchorInStep, Pending
  <2> QED BY <1>1, <1>2, <1>4, <2>1, <2>2, AnchorLocal
<1>5. CASE d \in Tags
  <2>1. TagInStep(d)' /\ ReceivedOwn(d)'
    BY <1>1, <1>2, <1>3 DEF TagInStep, ReceivedOwn, RxEvents
  <2> QED BY <1>1, <1>2, <1>3, <1>5, <2>1, TagLocal
<1> QED BY <1>4, <1>5 DEF Device

\* Only an answer to the present exchange can come once the receiver is on.
LEMMA ReceiverOnTimed ==
    ASSUME TypeOK, TimedExchanges, NEW t \in Tags, ReceiverOn(t)
    PROVE  TimedExchanges'
<1>0. t \in Device /\ t \notin Anchors /\ chip[t] \in Chip /\ RxTimeout \in Nat
  BY Constants DEF TypeOK
<1>1. /\ chip[t].mode = "wait4resp" /\ chip[t].timer = 0
      /\ chip'[t] = Started(chip[t], RxTimeout)
      /\ \A d \in Device \ {t}: chip'[d] = chip[d]
      /\ UNCHANGED <<pc, exchange>>
  BY <1>0 DEF ReceiverOn, TypeOK
<1>2. chip'[t].mode = "rx" /\ chip'[t].status = chip[t].status /\ chip'[t].rx = chip[t].rx
  BY <1>0, <1>1, StartedFacts
<1>3. \A u \in Tags: TagInStep(u)' /\ ReceivedOwn(u)'
  <2>1. TagInStep(t)' /\ ReceivedOwn(t)'
    BY <1>1, <1>2 DEF TimedExchanges, TagInStep, ReceivedOwn
  <2>2. \A u \in Tags \ {t}: TagInStep(u)' /\ ReceivedOwn(u)'
    BY <1>1, Constants DEF TimedExchanges, TagInStep, ReceivedOwn
  <2> QED BY <2>1, <2>2
<1>4. \A a \in Anchors: chip'[a] = chip[a]
  BY <1>0, <1>1, Constants
<1>5. \A a \in Anchors: AnchorInStep(a)' /\ Pending(a)' = Pending(a)
  BY <1>1, <1>4 DEF TimedExchanges, AnchorInStep, Pending
<1>6. ASSUME NEW a \in Anchors, NEW f \in Pending(a)' PROVE AnswerInTime(a, f)'
  <2>1. /\ f \in Pending(a) /\ f.tag \in Tags /\ f.tag \in Device
        /\ chip[a].due \in Nat /\ RxOn \in Nat /\ Reply \in Nat
    BY <1>5, PendingType, ChipFields, Constants
  <2>2. AnswerInTime(a, f)
    BY <2>1 DEF TimedExchanges
  <2>3. CASE f.tag = t
    <3>1. /\ chip[a].due + RxOn <= 0 + Reply
          /\ f.exchange # exchange[t] => chip[a].due < 0
      BY <1>1, <2>2, <2>3 DEF AnswerInTime
    <3> QED BY <1>1, <1>2, <1>4, <2>1, <2>2, <2>3, <3>1 DEF AnswerInTime
  <2>4. CASE f.tag # t
    BY <1>1, <1>4, <2>1, <2>2, <2>4 DEF AnswerInTime
  <2> QED BY <2>3, <2>4
<1> QED BY <1>3, <1>5, <1>6 DEF TimedExchanges

\* Time brings every answer and every receiver nearer by the same amount.
LEMMA TickTimed ==
    ASSUME TypeOK, TimedExchanges, Tick
    PROVE  TimedExchanges'
<1>1. \A d \in Device:
        /\ chip'[d].mode = chip[d].mode
        /\ chip'[d].status = chip[d].status
        /\ chip'[d].rx = chip[d].rx
        /\ chip'[d].tx = chip[d].tx
        /\ chip'[d].due = IF chip[d].due > 0 THEN chip[d].due - 1 ELSE 0
        /\ chip[d].mode = "wait4resp" => chip'[d].timer = chip[d].timer - 1
        /\ chip[d].mode = "txdelayed" => chip[d].due > 0
  <2> SUFFICES ASSUME NEW d \in Device
               PROVE  /\ chip'[d].mode = chip[d].mode
                      /\ chip'[d].status = chip[d].status
                      /\ chip'[d].rx = chip[d].rx
                      /\ chip'[d].tx = chip[d].tx
                      /\ chip'[d].due = IF chip[d].due > 0 THEN chip[d].due - 1 ELSE 0
                      /\ chip[d].mode = "wait4resp" => chip'[d].timer = chip[d].timer - 1
                      /\ chip[d].mode = "txdelayed" => chip[d].due > 0
    OBVIOUS
  <2>1. /\ chip'[d] = Aged(chip[d]) /\ chip[d] \in Chip
        /\ chip[d].mode \in {"wait4resp", "rx"} => chip[d].timer > 0
        /\ chip[d].mode = "txdelayed" => chip[d].due > 0
    BY DEF Tick, TypeOK
  <2> QED BY <2>1, AgedFacts
<1>2. UNCHANGED <<pc, exchange>>
  BY DEF Tick
<1>3. \A t \in Tags: TagInStep(t)' /\ ReceivedOwn(t)'
  BY <1>1, <1>2, Constants DEF TimedExchanges, TagInStep, ReceivedOwn
<1>4. \A a \in Anchors: AnchorInStep(a)'
  BY <1>1, <1>2, Constants DEF TimedExchanges, AnchorInStep
<1>5. ASSUME NEW a \in Anchors, NEW f \in Pending(a)' PROVE AnswerInTime(a, f)'
  <2>1. a \in Device /\ chip[a].due \in Nat /\ RxOn \in Nat /\ Reply \in Nat
    BY ChipFields, Constants
  <2>2. f \in Pending(a) /\ chip[a].due > 0
    BY <1>1, <1>2, <2>1 DEF Pending
  <2>3. f.tag \in Tags /\ f.tag \in Device /\ chip[f.tag].timer \in Nat
    BY <2>2, PendingType, ChipFields, Constants
  <2>4. AnswerInTime(a, f)
    BY <2>2 DEF TimedExchanges
  <2>5. chip'[a].due = chip[a].due - 1
    BY <1>1, <2>1, <2>2
  <2> QED BY <1>1, <1>2, <2>1, <2>3, <2>4, <2>5 DEF AnswerInTime
<1> QED BY <1>3, <1>4, <1>5 DEF TimedExchanges

\* A response that reaches the tag it is for answers the present exchange.
LEMMA TransmitTimed ==
    ASSUME TypeOK, TimedExchanges, NEW a \in Anchors, NEW R \in SUBSET Device, Transmit(a, R)
    PROVE  TimedExchanges'
<1> DEFINE g == chip[a].tx
<1>0. /\ a \in Device /\ a \notin Tags /\ chip[a] \in Chip
      /\ chip[a].mode = "txdelayed" /\ g \in Frame
      /\ UNCHANGED <<pc, exchange>>
      /\ \A d \in R: d \in Device \ {a} /\ Listening(d)
  BY Constants, ChipFields DEF Transmit, Reachable, TypeOK
<1>1. /\ chip'[a] = Sent(chip[a])
      /\ \A d \in Device \ {a}: chip'[d] = Heard(d, R, g.tag, g)
  BY <1>0 DEF Transmit
<1>2. g \in Pending(a) /\ g.tag \in Tags /\ AnswerInTime(a, g)
  BY <1>0, PendingType DEF Pending, TimedExchanges
<1>3. \A d \in R: /\ pc[d] = "wait" /\ chip[d].mode = "rx"
                  /\ chip[d].status \cap RxEvents = {}
                  /\ d \in Anchors => chip[d].status = {} /\ Pending(d) = {}
  BY <1>0, ListeningFacts
<1>4. \A d \in Device \ {a}:
        /\ d \notin R => chip'[d] = chip[d]
        /\ d \in R => /\ chip'[d].mode = "idle"
                      /\ d = g.tag => /\ chip'[d].rx = g
                                      /\ chip'[d].status = chip[d].status \cup {"RXFCG"}
                      /\ d # g.tag => chip'[d].status = chip[d].status \cup {"ALL_RX_ERR"}
  BY <1>0, <1>1, HeardFacts
<1>5. ASSUME NEW t \in Tags PROVE TagInStep(t)' /\ ReceivedOwn(t)'
  <2>1. t \in Device \ {a} /\ TagInStep(t) /\ ReceivedOwn(t)
    BY <1>0, Constants DEF TimedExchanges
  <2>2. CASE t \notin R
    BY <1>0, <1>4, <2>1, <2>2 DEF TagInStep, ReceivedOwn
  <2>3. CASE t \in R
    <3>1. TagInStep(t)'
      BY <1>0, <1>3, <1>4, <2>1, <2>3 DEF TagInStep, RxEvents
    <3>2. CASE t = g.tag
      <4>1. g.exchange = exchange[t]
        BY <1>2, <1>3, <2>3, <3>2 DEF AnswerInTime
      <4>2. chip'[t].rx = g
        BY <1>4, <2>1, <2>3, <3>2
      <4> QED BY <1>0, <3>1, <4>1, <4>2 DEF ReceivedOwn
    <3>3. CASE t # g.tag
      <4>1. "RXFCG" \notin chip'[t].status
        BY <1>3, <1>4, <2>1, <2>3, <3>3 DEF RxEvents
      <4> QED BY <3>1, <4>1 DEF ReceivedOwn
    <3> QED BY <3>1, <3>2, <3>3
  <2> QED BY <2>2, <2>3
<1>6. /\ AnchorInStep(a)' /\ Pending(a)' = {}
  <2>1. chip'[a].mode = "idle"
    BY <1>0, <1>1, SentFacts
  <2>2. pc[a] = "sent"
    <3>1. AnchorInStep(a) /\ pc[a] \in {"wait", "enable", "reply", "sent", "cleanup"}
      BY <1>0 DEF TimedExchanges, TypeOK
    <3> QED BY <1>0, <3>1 DEF AnchorInStep
  <2> QED BY <1>0, <2>1, <2>2 DEF AnchorInStep, Pending
<1>7. ASSUME NEW b \in Anchors, b # a
      PROVE  AnchorInStep(b)' /\ (Pending(b)' = {} \/ (Pending(b)' = Pending(b) /\ chip'[b] = chip[b]))
  <2>1. b \in Device \ {a} /\ AnchorInStep(b) /\ b # g.tag
    BY <1>2, <1>7, Constants DEF TimedExchanges
  <2>2. CASE b \notin R
    BY <1>0, <1>4, <2>1, <2>2 DEF AnchorInStep, Pending
  <2>3. CASE b \in R
    <3>1. chip'[b].mode = "idle" /\ chip'[b].status = {"ALL_RX_ERR"} /\ pc'[b] = "wait"
      BY <1>0, <1>3, <1>4, <2>1, <2>3
    <3>2. AnchorInStep(b)'
      BY <3>1 DEF AnchorInStep
    <3>3. Pending(b)' = {}
      BY <3>1 DEF Pending
    <3> QED BY <3>2, <3>3
  <2> QED BY <2>2, <2>3
<1>8. ASSUME NEW b \in Anchors, NEW f \in Pending(b)' PROVE AnswerInTime(b, f)'
  <2>1. b # a /\ f \in Pending(b) /\ chip'[b] = chip[b]
    BY <1>6, <1>7, <1>8
  <2>2. f.tag \in Tags /\ f.tag \in Device \ {a} /\ AnswerInTime(b, f)
    BY <1>0, <2>1, PendingType, Constants DEF TimedExchanges
  <2>3. CASE f.tag \notin R
    BY <1>0, <1>4, <2>1, <2>2, <2>3 DEF AnswerInTime
  <2>4. CASE f.tag \in R
    BY <1>0, <1>3, <1>4, <2>1, <2>2, <2>4 DEF AnswerInTime
  <2> QED BY <2>3, <2>4
<1>9. \A b \in Anchors: AnchorInStep(b)'
  BY <1>6, <1>7
<1> QED BY <1>5, <1>8, <1>9 DEF TimedExchanges

\* The answers a tag has not waited for will all come before its receiver is on.
LEMMA StartExchangeTimed ==
    ASSUME TypeOK, TimedExchanges,
           NEW t \in Tags, NEW a \in Anchors, NEW R \in SUBSET Device, StartExchange(t, a, R)
    PROVE  TimedExchanges'
<1> DEFINE poll == [tag |-> t, anchor |-> a, exchange |-> exchange[t] + 1]
<1>0. /\ t \in Device /\ t \notin Anchors /\ chip[t] \in Chip
      /\ pc[t] = "idle" /\ chip[t].mode = "idle" /\ pc'[t] = "wait"
      /\ exchange[t] \in Nat
      /\ exchange'[t] = exchange[t] + 1
      /\ \A u \in Tags \ {t}: exchange'[u] = exchange[u]
      /\ \A d \in Device \ {t}: pc'[d] = pc[d]
      /\ \A d \in R: d \in Device \ {t} /\ Listening(d)
      /\ RxOn \in Nat /\ Reply \in Nat
      /\ poll \in Frame
  BY Constants DEF StartExchange, Reachable, TypeOK, TimedExchanges, TagInStep, Frame
<1>1. /\ chip'[t] = PreparedChip(chip[t])
      /\ \A d \in Device \ {t}: chip'[d] = Heard(d, R, a, poll)
  BY <1>0 DEF StartExchange
<1>2. poll.tag = t /\ poll.exchange = exchange[t] + 1 /\ poll # Stray
  BY <1>0, TwrAssumption
<1> HIDE DEF poll
<1>3. /\ chip'[t].mode = "wait4resp"
      /\ chip'[t].timer = RxOn
      /\ chip'[t].status = chip[t].status \ RxEvents
  BY <1>0, <1>1, PreparedFacts
<1>4. \A d \in R: /\ pc[d] = "wait" /\ chip[d].mode = "rx"
                  /\ chip[d].status \cap RxEvents = {}
                  /\ d \in Anchors => chip[d].status = {} /\ Pending(d) = {}
  BY <1>0, ListeningFacts
<1>5. \A d \in Device \ {t}:
        /\ d \notin R => chip'[d] = chip[d]
        /\ d \in R => /\ chip'[d].mode = "idle"
                      /\ d = a => /\ chip'[d].rx = poll
                                  /\ chip'[d].due = Reply
                                  /\ chip'[d].status = chip[d].status \cup {"RXFCG"}
                      /\ d # a => chip'[d].status = chip[d].status \cup {"ALL_RX_ERR"}
  BY <1>0, <1>1, HeardFacts
<1>6. ASSUME NEW u \in Tags PROVE TagInStep(u)' /\ ReceivedOwn(u)'
  <2>1. CASE u = t
    <3>1. chip'[t].status \cap RxEvents = {} /\ "RXFCG" \notin chip'[t].status
      BY <1>3 DEF RxEvents
    <3> QED BY <1>0, <1>3, <2>1, <3>1 DEF TagInStep, ReceivedOwn
  <2>2. CASE u # t /\ u \notin R
    <3>1. /\ u \in Device \ {t} /\ TagInStep(u) /\ ReceivedOwn(u)
          /\ chip'[u] = chip[u] /\ pc'[u] = pc[u] /\ exchange'[u] = exchange[u]
      BY <1>0, <1>5, <2>2, Constants DEF TimedExchanges
    <3> QED BY <3>1 DEF TagInStep, ReceivedOwn
  <2>3. CASE u # t /\ u \in R
    <3>1. u \in Device \ {t} /\ u # a
      BY <2>3, Constants
    <3>2. /\ chip'[u].mode = "idle" /\ chip'[u].status = chip[u].status \cup {"ALL_RX_ERR"}
          /\ pc'[u] = "wait"
      BY <1>0, <1>4, <1>5, <2>3, <3>1
    <3>3. "RXFCG" \notin chip'[u].status
      BY <1>4, <2>3, <3>2 DEF RxEvents
    <3> QED BY <3>2, <3>3 DEF TagInStep, ReceivedOwn, RxEvents
  <2> QED BY <2>1, <2>2, <2>3
<1>7. ASSUME NEW b \in Anchors
      PROVE  /\ AnchorInStep(b)'
             /\ \/ b \notin R /\ Pending(b)' = Pending(b) /\ chip'[b] = chip[b]
                \/ Pending(b)' \subseteq {poll} /\ chip'[b].due = Reply
                \/ Pending(b)' = {}
  <2>1. b \in Device \ {t} /\ AnchorInStep(b) /\ pc'[b] = pc[b]
    BY <1>0, Constants DEF TimedExchanges
  <2>2. CASE b \notin R
    BY <1>5, <2>1, <2>2 DEF AnchorInStep, Pending
  <2>3. CASE b \in R /\ b = a
    <3>1. /\ chip'[b].mode = "idle" /\ chip'[b].rx = poll /\ chip'[b].due = Reply
          /\ chip'[b].status = {"RXFCG"} /\ pc'[b] = "wait"
      BY <1>4, <1>5, <2>1, <2>3
    <3> QED BY <3>1 DEF AnchorInStep, Pending
  <2>4. CASE b \in R /\ b # a
    <3>1. /\ chip'[b].mode = "idle" /\ chip'[b].status = {"ALL_RX_ERR"} /\ pc'[b] = "wait"
      BY <1>4, <1>5, <2>1, <2>4
    <3> QED BY <3>1 DEF AnchorInStep, Pending
  <2> QED BY <2>2, <2>3, <2>4
<1>8. ASSUME NEW b \in Anchors, NEW f \in Pending(b)' PROVE AnswerInTime(b, f)'
  <2>1. CASE f \in Pending(b) /\ chip'[b] = chip[b]
    <3>1. /\ f.tag \in Tags /\ f.tag \in Device /\ AnswerInTime(b, f)
          /\ f.exchange \in Nat /\ exchange[f.tag] \in Nat
          /\ chip[b].due \in Nat
      BY <2>1, PendingType, ChipFields, Constants DEF TimedExchanges
    <3>2. CASE f.tag = t
      <4>1. chip[b].due + RxOn <= Reply /\ f.exchange < exchange'[t]
        BY <1>0, <3>1, <3>2 DEF AnswerInTime
      <4>2. chip[b].due < RxOn
        BY <1>0, <3>1, <4>1, Constants
      <4> QED BY <1>0, <1>3, <2>1, <3>1, <3>2, <4>1, <4>2 DEF AnswerInTime
    <3>3. CASE f.tag # t /\ f.tag \notin R
      BY <1>0, <1>5, <2>1, <3>1, <3>3 DEF AnswerInTime
    <3>4. CASE f.tag # t /\ f.tag \in R
      BY <1>0, <1>4, <1>5, <2>1, <3>1, <3>4 DEF AnswerInTime
    <3> QED BY <3>2, <3>3, <3>4
  <2>2. CASE f = poll /\ chip'[b].due = Reply
    BY <1>0, <1>2, <1>3, <2>2 DEF AnswerInTime
  <2> QED BY <1>7, <1>8, <2>1, <2>2
<1> QED BY <1>6, <1>7, <1>8 DEF TimedExchanges

LEMMA FinishExchangeTimed ==
    ASSUME TypeOK, TimedExchanges, NEW t \in Tags, FinishExchange(t)
    PROVE  TimedExchanges'
<1>1. /\ pc[t] = "wait" /\ pc'[t] = "idle"
      /\ chip[t].status \cap RxEvents # {}
      /\ UNCHANGED <<chip, exchange>>
      /\ \A d \in Device \ {t}: pc'[d] = pc[d]
  BY Constants DEF FinishExchange, TypeOK
<1>2. TagInStep(t)' /\ ReceivedOwn(t)'
  BY <1>1 DEF TimedExchanges, TagInStep, ReceivedOwn
<1> QED BY <1>1, <1>2, TagLocal

LEMMA NextTimed == TypeOK /\ TimedExchanges /\ [Next]_vars => TimedExchanges'
<1> SUFFICES ASSUME TypeOK, TimedExchanges, [Next]_vars PROVE TimedExchanges'
  OBVIOUS
<1>1. CASE UNCHANGED vars
  BY <1>1
  DEF vars, TimedExchanges, TagInStep, ReceivedOwn, AnchorInStep, AnswerInTime, Pending
<1> QED
  BY <1>1, StartExchangeTimed, FinishExchangeTimed, AnchorStepTimed, ReceiverOnTimed,
     TransmitTimed, ChipStepTimed, TickTimed
  DEF Next, TagStep, AirStep

-----------------------------------------------------------------------------
\* Types and timing, together inductive.
THEOREM TimingInvariant == Spec => [](TypeOK /\ TimedExchanges)
BY InitType, InitTimed, NextType, NextTimed, PTL DEF Spec

\* The response a tag accepts answers the exchange it is in, for every delay
\* between the tag's steps, as long as Reply < 2 * RxOn.
THEOREM OwnResponses == Spec => []OwnResponse
<1>1. TimedExchanges => OwnResponse
  BY DEF TimedExchanges, OwnResponse, ReceivedOwn, Accepts, IsResponse
<1> QED BY TimingInvariant, <1>1, PTL

\* No program commands a transceiver that is not idle.
THEOREM IdleCommands == Spec => []IdleAtCommand
<1>1. TimedExchanges => IdleAtCommand
  BY DEF TimedExchanges, IdleAtCommand, TagInStep, AnchorInStep
<1> QED BY TimingInvariant, <1>1, PTL

-----------------------------------------------------------------------------
\* The time for which the transceiver of a tag can still be busy.
WaitLeft(t) == CASE chip[t].mode = "wait4resp" -> chip[t].timer + RxTimeout
                 [] chip[t].mode = "rx"        -> chip[t].timer
                 [] OTHER                      -> 0

WaitBound == \A t \in Tags: /\ chip[t].mode = "wait4resp" => chip[t].timer <= RxOn
                            /\ chip[t].mode = "rx" => chip[t].timer <= RxTimeout

\* What ExchangeEnds needs besides fairness: nothing that the air, the anchors or
\* the other tags do gives an exchange more time, and each tick takes one unit
\* of it, until an event ends it.
RunsOut ==
    \A t \in Tags: pc[t] = "wait" /\ pc'[t] = "wait" =>
        /\ WaitLeft(t)' <= WaitLeft(t)
        /\ Tick /\ chip[t].mode # "idle" => WaitLeft(t)' = WaitLeft(t) - 1

\* A tick shortens every run.
Shorter(t) == /\ chip'[t].mode = chip[t].mode
              /\ chip[t].mode \in {"wait4resp", "rx"} =>
                    chip[t].timer > 0 /\ chip'[t].timer = chip[t].timer - 1

LEMMA TickShortens ==
    ASSUME TypeOK, Tick, NEW t \in Tags
    PROVE  Shorter(t)
<1>1. t \in Device /\ chip[t] \in Chip
  BY Constants DEF TypeOK
<1>2. /\ chip'[t] = Aged(chip[t])
      /\ chip[t].mode \in {"wait4resp", "rx"} => chip[t].timer > 0
  BY <1>1 DEF Tick
<1>3. Aged(chip[t]).mode = chip[t].mode
  BY <1>1, <1>2, AgedFacts
<1>4. chip[t].mode \in {"wait4resp", "rx"} => Aged(chip[t]).timer = chip[t].timer - 1
  BY <1>1 DEF Aged, Chip
<1> QED BY <1>2, <1>3, <1>4 DEF Shorter

\* The other steps leave a tag's transceiver alone, end its run, begin one, or
\* turn the receiver on.
Unmoved(t) == chip'[t] = chip[t]
Ended(t) == chip'[t].mode = "idle"
Begun(t) == pc[t] = "idle" /\ chip'[t].mode = "wait4resp" /\ chip'[t].timer = RxOn
TurnedOn(t) == /\ chip[t].mode = "wait4resp" /\ chip[t].timer = 0
               /\ chip'[t].mode = "rx" /\ chip'[t].timer = RxTimeout

LEMMA RunSteps ==
    ASSUME TypeOK, NEW t \in Tags, Next
    PROVE  Unmoved(t) \/ Ended(t) \/ Begun(t) \/ TurnedOn(t) \/ Shorter(t)
<1>0. /\ t \in Device /\ t \notin Anchors
      /\ \A d \in Device: chip[d] \in Chip
      /\ chip \in [Device -> Chip]
  BY Constants DEF TypeOK
<1>1. ASSUME NEW u \in Tags, NEW a \in Anchors, NEW R \in SUBSET Device, StartExchange(u, a, R)
      PROVE  Unmoved(t) \/ Ended(t) \/ Begun(t)
  <2> DEFINE poll == [tag |-> u, anchor |-> a, exchange |-> exchange[u] + 1]
  <2>1. /\ pc[u] = "idle" /\ poll \in Frame
        /\ chip'[t] = IF t = u THEN PreparedChip(chip[t]) ELSE Heard(t, R, a, poll)
    BY <1>0, <1>1 DEF StartExchange, TypeOK, Frame
  <2> HIDE DEF poll
  <2>2. CASE t = u
    <3>1. chip'[t] = PreparedChip(chip[t])
      BY <2>1, <2>2
    <3>2. chip'[t].mode = "wait4resp" /\ chip'[t].timer = RxOn
      BY <1>0, <3>1, PreparedFacts
    <3> QED BY <2>1, <2>2, <3>2 DEF Begun
  <2>3. CASE t # u
    <3>1. chip'[t] = Heard(t, R, a, poll)
      BY <2>1, <2>3
    <3> QED BY <1>0, <2>1, <3>1, HeardFacts DEF Unmoved, Ended
  <2> QED BY <2>2, <2>3
<1>2. ASSUME NEW u \in Tags, FinishExchange(u) PROVE Unmoved(t)
  BY <1>2 DEF FinishExchange, Unmoved
<1>3. ASSUME NEW a \in Anchors, AnchorStep(a) PROVE Unmoved(t)
  <2>1. a # t
    BY <1>0
  <2>2. \/ UNCHANGED chip
        \/ \E c: chip' = [chip EXCEPT ![a] = c]
    BY <1>3 DEF AnchorStep, EnableReceiver, PollSeen, SendResponse, ResponseSent, Cleanup
  <2> QED BY <1>0, <2>1, <2>2 DEF Unmoved
<1>4. ASSUME NEW u \in Tags, ReceiverOn(u) PROVE Unmoved(t) \/ TurnedOn(t)
  <2>1. /\ chip[u].mode = "wait4resp" /\ chip[u].timer = 0
        /\ chip'[t] = IF t = u THEN Started(chip[t], RxTimeout) ELSE chip[t]
    BY <1>0, <1>4 DEF ReceiverOn
  <2>2. Started(chip[t], RxTimeout).mode = "rx" /\ Started(chip[t], RxTimeout).timer = RxTimeout
    BY <1>0 DEF Started, Chip
  <2> QED BY <2>1, <2>2 DEF Unmoved, TurnedOn
<1>5. ASSUME NEW a \in Anchors, NEW R \in SUBSET Device, Transmit(a, R)
      PROVE  Unmoved(t) \/ Ended(t)
  <2>1. a \in Device /\ chip[a].tx \in Frame
    BY <1>0, Constants DEF Chip
  <2>2. chip'[t] = Heard(t, R, chip[a].tx.tag, chip[a].tx)
    BY <1>0, <1>5 DEF Transmit
  <2> QED BY <1>0, <2>1, <2>2, HeardFacts DEF Unmoved, Ended
<1>6. ASSUME NEW d \in Device, ChipStep(d) PROVE Unmoved(t) \/ Ended(t)
  <2>1. PICK c: c.mode = "idle" /\ chip' = [chip EXCEPT ![d] = c]
    <3>1. CASE ReceiveTimeout(d)
      <4>1. Failed(chip[d], "ALL_RX_TO").mode = "idle"
        BY <1>0, FailedFacts
      <4> QED BY <3>1, <4>1 DEF ReceiveTimeout
    <3>2. CASE ReceiveError(d)
      <4>1. Failed(chip[d], "ALL_RX_ERR").mode = "idle"
        BY <1>0, FailedFacts
      <4> QED BY <3>2, <4>1 DEF ReceiveError
    <3>3. CASE ReceiveStray(d)
      <4>1. Received(chip[d], Stray).mode = "idle"
        BY <1>0, Constants, ReceivedFacts
      <4> QED BY <3>3, <4>1 DEF ReceiveStray
    <3> QED BY <1>6, <3>1, <3>2, <3>3 DEF ChipStep
  <2> QED BY <1>0, <2>1 DEF Unmoved, Ended
<1>7. Tick => Shorter(t)
  BY TickShortens
<1> QED BY <1>1, <1>2, <1>3, <1>4, <1>5, <1>6, <1>7 DEF Next, TagStep, AirStep

LEMMA WaitLeftIs ==
    ASSUME TypeOK, NEW t \in Tags
    PROVE  /\ chip[t].mode \in {"idle", "wait4resp", "rx"}
           /\ chip[t].timer \in Nat
           /\ chip[t].mode = "idle" => WaitLeft(t) = 0
           /\ chip[t].mode = "wait4resp" => WaitLeft(t) = chip[t].timer + RxTimeout
           /\ chip[t].mode = "rx" => WaitLeft(t) = chip[t].timer
<1>1. /\ t \in Device /\ t \notin Anchors
      /\ chip[t].mode = "txdelayed" => t \in Anchors
  BY Constants DEF TypeOK
<1> QED BY <1>1, ChipFields DEF WaitLeft

LEMMA RunsOutStep ==
    ASSUME TypeOK, TypeOK', [Next]_vars
    PROVE  RunsOut
<1> SUFFICES ASSUME NEW t \in Tags, pc[t] = "wait"
             PROVE  /\ WaitLeft(t)' <= WaitLeft(t)
                    /\ Tick /\ chip[t].mode # "idle" => WaitLeft(t)' = WaitLeft(t) - 1
  BY DEF RunsOut
<1> DEFINE now == WaitLeft(t)
           then == WaitLeft(t)'
<1>1. /\ chip[t].mode \in {"idle", "wait4resp", "rx"}
      /\ chip[t].timer \in Nat
      /\ chip[t].mode = "idle" => now = 0
      /\ chip[t].mode = "wait4resp" => now = chip[t].timer + RxTimeout
      /\ chip[t].mode = "rx" => now = chip[t].timer
  BY WaitLeftIs
<1>2. /\ chip'[t].mode = "idle" => then = 0
      /\ chip'[t].mode = "wait4resp" => then = chip'[t].timer + RxTimeout
      /\ chip'[t].mode = "rx" => then = chip'[t].timer
  BY DEF WaitLeft
<1>3. chip'[t] = chip[t] => then = now
  BY DEF WaitLeft
<1> HIDE DEF now, then
<1>4. RxTimeout \in Nat
  BY Constants
<1>5. Shorter(t) => then <= now /\ (chip[t].mode # "idle" => then = now - 1)
  BY <1>1, <1>2, <1>4 DEF Shorter
<1>6. Unmoved(t) \/ Ended(t) \/ TurnedOn(t) \/ UNCHANGED vars => then <= now
  BY <1>1, <1>2, <1>3, <1>4 DEF Unmoved, Ended, TurnedOn, vars
<1>7. ~ Begun(t)
  BY DEF Begun
<1>8. then <= now
  BY <1>5, <1>6, <1>7, RunSteps
<1>9. Tick /\ chip[t].mode # "idle" => then = now - 1
  BY <1>5, TickShortens
<1> QED BY <1>8, <1>9 DEF now, then

LEMMA WaitBoundStep ==
    ASSUME TypeOK, WaitBound, [Next]_vars
    PROVE  WaitBound'
<1> SUFFICES ASSUME NEW t \in Tags
             PROVE  /\ chip'[t].mode = "wait4resp" => chip'[t].timer <= RxOn
                    /\ chip'[t].mode = "rx" => chip'[t].timer <= RxTimeout
  BY DEF WaitBound
<1>1. /\ chip[t].mode = "wait4resp" => chip[t].timer <= RxOn
      /\ chip[t].mode = "rx" => chip[t].timer <= RxTimeout
      /\ chip[t].timer \in Nat /\ RxOn \in Nat /\ RxTimeout \in Nat
  BY WaitLeftIs, Constants DEF WaitBound
<1>2. CASE Unmoved(t) \/ UNCHANGED vars
  BY <1>1, <1>2 DEF Unmoved, vars
<1>3. CASE Ended(t) \/ Begun(t) \/ TurnedOn(t)
  BY <1>1, <1>3 DEF Ended, Begun, TurnedOn
<1>4. CASE Shorter(t)
  BY <1>1, <1>4 DEF Shorter
<1> QED BY <1>2, <1>3, <1>4, RunSteps

\* An exchange keeps the transceiver of its tag busy for RxOn + RxTimeout at
\* most, whoever answers or disturbs it.
THEOREM ExchangesRunOut ==
    Spec => /\ [](\A t \in Tags: WaitLeft(t) <= RxOn + RxTimeout)
            /\ [][RunsOut]_vars
<1>1. Init => WaitBound
  <2>1. ASSUME Init, NEW t \in Tags PROVE chip[t].mode = "idle"
    <3>1. t \in Device
      BY Constants
    <3> QED BY <2>1, <3>1 DEF Init
  <2> QED BY <2>1 DEF WaitBound
<1>2. TypeOK /\ WaitBound => \A t \in Tags: WaitLeft(t) <= RxOn + RxTimeout
  <2> SUFFICES ASSUME TypeOK, WaitBound, NEW t \in Tags
               PROVE  WaitLeft(t) <= RxOn + RxTimeout
    OBVIOUS
  <2>1. /\ chip[t].mode = "wait4resp" => chip[t].timer <= RxOn
        /\ chip[t].mode = "rx" => chip[t].timer <= RxTimeout
        /\ RxOn \in Nat /\ RxTimeout \in Nat
    BY Constants DEF WaitBound
  <2>2. /\ chip[t].mode \in {"idle", "wait4resp", "rx"}
        /\ chip[t].timer \in Nat
        /\ chip[t].mode = "idle" => WaitLeft(t) = 0
        /\ chip[t].mode = "wait4resp" => WaitLeft(t) = chip[t].timer + RxTimeout
        /\ chip[t].mode = "rx" => WaitLeft(t) = chip[t].timer
    BY WaitLeftIs
  <2> QED BY <2>1, <2>2
<1>3. TypeOK /\ WaitBound /\ [Next]_vars => WaitBound'
  BY WaitBoundStep
<1>4. TypeOK /\ TypeOK' /\ [Next]_vars => [RunsOut]_vars
  BY RunsOutStep
<1> QED BY <1>1, <1>2, <1>3, <1>4, TimingInvariant, PTL DEF Spec

-----------------------------------------------------------------------------
\* The same of an anchor: the places of its program until its receiver is on
\* again, and the ticks for which its transceiver can hold one of them up.
PlacesLeft(place) == CASE place = "wait"    -> 4
                       [] place = "reply"   -> 3
                       [] place = "sent"    -> 2
                       [] place = "cleanup" -> 1
                       [] place = "enable"  -> 0

BusyLeft(a) == CASE chip[a].mode = "rx"        -> chip[a].timer
                 [] chip[a].mode = "txdelayed" -> chip[a].due
                 [] OTHER                      -> 0

\* What AnchorReturns needs besides fairness.  A program that waits for an event of
\* its transceiver has it, or will: the receiver runs, or the transmission is
\* programmed, which would not be so had a status been cleared that was to end
\* the wait, or the error of dwt_starttx been ignored.
AwaitsEvent(a) ==
    /\ pc[a] = "wait" => Listening(a) \/ chip[a].status \cap RxEvents # {}
    /\ pc[a] = "sent" => chip[a].mode = "txdelayed" \/ "TXFRS" \in chip[a].status

BusyBound(a) == /\ chip[a].mode = "rx" => chip[a].timer <= PollTimeout
                /\ chip[a].due <= Reply

\* A step of the program brings it on, and while it stays where it is nothing but
\* the end of its transceiver's run changes the time that is left of that.
AnchorAdvances ==
    \A a \in Anchors:
        /\ pc'[a] # pc[a] => \/ pc[a] = "enable"
                             \/ PlacesLeft(pc'[a]) < PlacesLeft(pc[a])
        /\ pc'[a] = pc[a] =>
              /\ BusyLeft(a)' <= BusyLeft(a)
              /\ Tick /\ chip[a].mode # "idle" => BusyLeft(a)' = BusyLeft(a) - 1

\* The steps as an anchor sees them.
Turned(a) == /\ chip'[a].due = chip[a].due
             /\ \/ /\ pc[a] = "enable" /\ pc'[a] = "wait"
                   /\ chip'[a].mode = "rx" /\ chip'[a].timer = PollTimeout
                \/ /\ pc[a] = "wait" /\ pc'[a] \in {"reply", "cleanup"}
                   /\ chip'[a] = chip[a]
                \/ /\ pc[a] = "reply"
                   /\ \/ pc'[a] = "sent" /\ chip'[a].mode = "txdelayed"
                      \/ pc'[a] = "cleanup" /\ chip'[a].mode = "idle"
                \/ /\ pc[a] \in {"sent", "cleanup"} /\ chip'[a].mode = chip[a].mode
                   /\ pc'[a] = IF pc[a] = "sent" THEN "cleanup" ELSE "enable"
                   /\ chip'[a].timer = chip[a].timer
RunEnded(a) == /\ chip'[a].mode = "idle" /\ chip'[a].due \in {chip[a].due, Reply}
               /\ \/ Listening(a) /\ chip'[a].status \cap RxEvents # {}
                  \/ chip[a].mode = "txdelayed" /\ "TXFRS" \in chip'[a].status
Older(a) == /\ chip'[a].mode = chip[a].mode /\ chip'[a].status = chip[a].status
            /\ chip'[a].due \in Nat /\ chip'[a].due <= chip[a].due
            /\ Listening(a) => chip'[a].timer = chip[a].timer - 1
            /\ chip[a].mode = "txdelayed" => chip'[a].due = chip[a].due - 1

LEMMA AnchorTurns ==
    ASSUME TypeOK, NEW a \in Anchors, AnchorStep(a)
    PROVE  Turned(a)
<1>1. /\ a \in Device /\ chip[a] \in Chip /\ PollTimeout \in Nat
      /\ pc \in [Device -> {"idle", "wait", "enable", "reply", "sent", "cleanup"}]
      /\ chip \in [Device -> Chip]
  BY Constants DEF TypeOK
<1>2. CASE EnableReceiver(a)
  <2>1. /\ Started(chip[a], PollTimeout).mode = "rx"
        /\ Started(chip[a], PollTimeout).timer = PollTimeout
        /\ Started(chip[a], PollTimeout).due = chip[a].due
    BY <1>1 DEF Started, Chip
  <2> QED BY <1>1, <1>2, <2>1 DEF EnableReceiver, Turned
<1>3. CASE PollSeen(a)
  BY <1>1, <1>3 DEF PollSeen, Turned
<1>4. CASE SendResponse(a)
  <2>1. \A m \in {"idle", "txdelayed"}: /\ Programmed(chip[a], m).mode = m
                                        /\ Programmed(chip[a], m).due = chip[a].due
    BY <1>1, ProgrammedFacts
  <2> QED BY <1>1, <1>4, <2>1 DEF SendResponse, Turned
<1>5. CASE ResponseSent(a) \/ Cleanup(a)
  <2>1. \A events: /\ Cleared(chip[a], events).mode = chip[a].mode
                   /\ Cleared(chip[a], events).due = chip[a].due
                   /\ Cleared(chip[a], events).timer = chip[a].timer
    BY <1>1 DEF Cleared, Chip
  <2> QED BY <1>1, <1>5, <2>1 DEF ResponseSent, Cleanup, Turned
<1> QED BY <1>2, <1>3, <1>4, <1>5 DEF AnchorStep

LEMMA TickAges ==
    ASSUME TypeOK, Tick, NEW a \in Anchors
    PROVE  pc'[a] = pc[a] /\ Older(a)
<1>1. a \in Device /\ chip[a] \in Chip /\ chip[a].timer \in Nat /\ chip[a].due \in Nat
  BY Constants, ChipFields
<1>2. /\ chip'[a] = Aged(chip[a]) /\ pc' = pc
      /\ chip[a].mode \in {"wait4resp", "rx"} => chip[a].timer > 0
      /\ chip[a].mode = "txdelayed" => chip[a].due > 0
  BY <1>1 DEF Tick
<1>3. /\ Aged(chip[a]).mode = chip[a].mode /\ Aged(chip[a]).status = chip[a].status
      /\ Aged(chip[a]).due = IF chip[a].due > 0 THEN chip[a].due - 1 ELSE 0
  BY <1>1, <1>2, AgedFacts
<1>4. chip[a].mode = "rx" => Aged(chip[a]).timer = chip[a].timer - 1
  BY <1>1 DEF Aged, Chip
<1> QED BY <1>1, <1>2, <1>3, <1>4 DEF Older, Listening

\* A frame on the air ends the run of a receiver, or does nothing to the anchor.
LEMMA HeardByAnchor ==
    ASSUME TypeOK, NEW a \in Anchors, NEW R, NEW dst, NEW f \in Frame,
           a \in R => Listening(a), chip'[a] = Heard(a, R, dst, f)
    PROVE  chip'[a] = chip[a] \/ RunEnded(a)
<1>1. a \in Device
  BY Constants
<1>2. CASE a \in R
  <2>1. /\ chip'[a].mode = "idle" /\ chip'[a].due \in {chip[a].due, Reply}
        /\ chip'[a].status \cap RxEvents # {}
    BY <1>1, <1>2, HeardFacts DEF RxEvents
  <2> QED BY <1>2, <2>1 DEF RunEnded
<1>3. CASE a \notin R
  BY <1>1, <1>3, HeardFacts
<1> QED BY <1>2, <1>3

LEMMA AnchorSees ==
    ASSUME TypeOK, NEW a \in Anchors, Next
    PROVE  \/ Turned(a)
           \/ pc'[a] = pc[a] /\ (chip'[a] = chip[a] \/ RunEnded(a) \/ Older(a))
<1>0. /\ a \in Device /\ a \notin Tags
      /\ pc \in [Device -> {"idle", "wait", "enable", "reply", "sent", "cleanup"}]
      /\ \A d \in Device: chip[d] \in Chip
      /\ chip \in [Device -> Chip]
  BY Constants DEF TypeOK
<1>1. ASSUME NEW t \in Tags, NEW b \in Anchors, NEW R \in SUBSET Device,
             StartExchange(t, b, R)
      PROVE  pc'[a] = pc[a] /\ (chip'[a] = chip[a] \/ RunEnded(a))
  <2> DEFINE poll == [tag |-> t, anchor |-> b, exchange |-> exchange[t] + 1]
  <2>1. /\ pc'[a] = pc[a] /\ poll \in Frame /\ (a \in R => Listening(a))
        /\ chip'[a] = Heard(a, R, b, poll)
    BY <1>0, <1>1 DEF StartExchange, Reachable, TypeOK, Frame
  <2> QED BY <2>1, HeardByAnchor
<1>2. ASSUME NEW t \in Tags, FinishExchange(t) PROVE pc'[a] = pc[a] /\ chip'[a] = chip[a]
  BY <1>0, <1>2 DEF FinishExchange
<1>3. ASSUME NEW b \in Anchors, AnchorStep(b)
      PROVE  Turned(a) \/ (pc'[a] = pc[a] /\ chip'[a] = chip[a])
  <2>1. CASE b = a
    <3>1. AnchorStep(a)
      BY <1>3, <2>1
    <3> QED BY <3>1, AnchorTurns
  <2>2. CASE b # a
    <3>1. /\ \E p: pc' = [pc EXCEPT ![b] = p]
          /\ UNCHANGED chip \/ \E c: chip' = [chip EXCEPT ![b] = c]
      BY <1>3 DEF AnchorStep, EnableReceiver, PollSeen, SendResponse, ResponseSent, Cleanup
    <3> QED BY <1>0, <2>2, <3>1
  <2> QED BY <2>1, <2>2
<1>4. ASSUME NEW t \in Tags, ReceiverOn(t) PROVE pc'[a] = pc[a] /\ chip'[a] = chip[a]
  BY <1>0, <1>4 DEF ReceiverOn
<1>5. ASSUME NEW b \in Anchors, NEW R \in SUBSET Device, Transmit(b, R)
      PROVE  pc'[a] = pc[a] /\ (chip'[a] = chip[a] \/ RunEnded(a))
  <2>1. CASE b = a
    <3>1. /\ Sent(chip[a]).mode = "idle"
          /\ Sent(chip[a]).status = chip[a].status \cup {"TXFRS"}
      BY <1>0, SentFacts
    <3>2. Sent(chip[a]).due = chip[a].due
      BY <1>0 DEF Sent, Chip
    <3>3. pc' = pc /\ chip[a].mode = "txdelayed" /\ chip'[a] = Sent(chip[a])
      BY <1>0, <1>5, <2>1 DEF Transmit
    <3> QED BY <3>1, <3>2, <3>3 DEF RunEnded
  <2>2. CASE b # a
    <3>1. /\ pc' = pc /\ chip[b].tx \in Frame /\ (a \in R => Listening(a))
          /\ chip'[a] = Heard(a, R, chip[b].tx.tag, chip[b].tx)
      BY <1>0, <1>5, <2>2, Constants, ChipFields DEF Transmit, Reachable
    <3> QED BY <3>1, HeardByAnchor
  <2> QED BY <2>1, <2>2
<1>6. ASSUME NEW d \in Device, ChipStep(d)
      PROVE  pc'[a] = pc[a] /\ (chip'[a] = chip[a] \/ RunEnded(a))
  <2>1. PICK c: /\ pc' = pc /\ Listening(d) /\ chip' = [chip EXCEPT ![d] = c]
                /\ c.mode = "idle" /\ c.due \in {chip[d].due, Reply}
                /\ c.status \cap RxEvents # {}
    <3>1. CASE ReceiveTimeout(d)
      <4>1. /\ Failed(chip[d], "ALL_RX_TO").mode = "idle"
            /\ Failed(chip[d], "ALL_RX_TO").due = chip[d].due
            /\ Failed(chip[d], "ALL_RX_TO").status \cap RxEvents # {}
        BY <1>0, FailedFacts DEF RxEvents
      <4> QED BY <3>1, <4>1 DEF ReceiveTimeout
    <3>2. CASE ReceiveError(d)
      <4>1. /\ Failed(chip[d], "ALL_RX_ERR").mode = "idle"
            /\ Failed(chip[d], "ALL_RX_ERR").due = chip[d].due
            /\ Failed(chip[d], "ALL_RX_ERR").status \cap RxEvents # {}
        BY <1>0, FailedFacts DEF RxEvents
      <4> QED BY <3>2, <4>1 DEF ReceiveError
    <3>3. CASE ReceiveStray(d)
      <4>1. /\ Received(chip[d], Stray).mode = "idle"
            /\ Received(chip[d], Stray).due = Reply
            /\ Received(chip[d], Stray).status = chip[d].status \cup {"RXFCG"}
        BY <1>0, Constants, ReceivedFacts
      <4>2. Received(chip[d], Stray).status \cap RxEvents # {}
        BY <4>1 DEF RxEvents
      <4> QED BY <3>3, <4>1, <4>2 DEF ReceiveStray
    <3> QED BY <1>6, <3>1, <3>2, <3>3 DEF ChipStep
  <2>2. CASE d = a
    BY <1>0, <2>1, <2>2 DEF RunEnded
  <2>3. CASE d # a
    BY <1>0, <2>1, <2>3
  <2> QED BY <2>2, <2>3
<1>7. Tick => pc'[a] = pc[a] /\ Older(a)
  BY TickAges
<1> QED BY <1>1, <1>2, <1>3, <1>4, <1>5, <1>6, <1>7 DEF Next, TagStep, AirStep

LEMMA AwaitsStep ==
    ASSUME TypeOK, TimedExchanges, [Next]_vars, NEW a \in Anchors,
           AwaitsEvent(a), BusyBound(a)
    PROVE  AwaitsEvent(a)' /\ BusyBound(a)'
<1>1. /\ a \in Device /\ chip[a].timer \in Nat /\ chip[a].due \in Nat
      /\ Reply \in Nat /\ PollTimeout \in Nat
  BY Constants, ChipFields
<1>2. /\ pc[a] = "wait" => chip[a].mode \in {"rx", "idle"}
      /\ pc[a] = "sent" => chip[a].mode \in {"txdelayed", "idle"}
      /\ pc[a] = "cleanup" => chip[a].mode = "idle"
  BY DEF TimedExchanges, AnchorInStep
<1>3. CASE Turned(a)
  BY <1>1, <1>2, <1>3 DEF Turned, AwaitsEvent, BusyBound, Listening
<1>4. CASE pc'[a] = pc[a] /\ chip'[a] = chip[a]
  BY <1>4 DEF AwaitsEvent, BusyBound, Listening
<1>5. CASE pc'[a] = pc[a] /\ RunEnded(a)
  <2>1. AwaitsEvent(a)'
    BY <1>2, <1>5 DEF RunEnded, AwaitsEvent, Listening
  <2>2. BusyBound(a)'
    BY <1>1, <1>5 DEF RunEnded, BusyBound
  <2> QED BY <2>1, <2>2
<1>6. CASE pc'[a] = pc[a] /\ Older(a)
  <2>1. AwaitsEvent(a)'
    BY <1>6 DEF Older, AwaitsEvent, Listening
  <2>2. chip'[a].due <= Reply
    BY <1>1, <1>6 DEF Older, BusyBound
  <2>3. chip'[a].mode = "rx" => chip'[a].timer <= PollTimeout
    BY <1>1, <1>6 DEF Older, BusyBound, Listening
  <2> QED BY <2>1, <2>2, <2>3 DEF BusyBound
<1>7. CASE UNCHANGED vars
  BY <1>7 DEF vars, AwaitsEvent, BusyBound, Listening
<1> QED BY <1>3, <1>4, <1>5, <1>6, <1>7, AnchorSees

LEMMA AnchorAdvancesStep ==
    ASSUME TypeOK, TypeOK', TimedExchanges, [Next]_vars
    PROVE  AnchorAdvances
<1> SUFFICES ASSUME NEW a \in Anchors
             PROVE  /\ pc'[a] # pc[a] => \/ pc[a] = "enable"
                                         \/ PlacesLeft(pc'[a]) < PlacesLeft(pc[a])
                    /\ pc'[a] = pc[a] =>
                          /\ BusyLeft(a)' <= BusyLeft(a)
                          /\ Tick /\ chip[a].mode # "idle" => BusyLeft(a)' = BusyLeft(a) - 1
  BY DEF AnchorAdvances
<1> DEFINE now == BusyLeft(a)
           then == BusyLeft(a)'
<1>1. /\ a \in Device /\ chip[a].timer \in Nat /\ chip[a].due \in Nat
  BY Constants, ChipFields
<1>2. pc[a] \in {"wait", "enable", "reply", "sent", "cleanup"}
  BY <1>1, Constants DEF TypeOK
<1>3. CASE Turned(a)
  <2>1. /\ PlacesLeft("wait") = 4 /\ PlacesLeft("reply") = 3 /\ PlacesLeft("sent") = 2
        /\ PlacesLeft("cleanup") = 1 /\ PlacesLeft("enable") = 0
    BY DEF PlacesLeft
  <2>2. \/ pc[a] = "enable" /\ pc'[a] = "wait"
        \/ pc[a] = "wait" /\ pc'[a] \in {"reply", "cleanup"}
        \/ pc[a] = "reply" /\ pc'[a] \in {"sent", "cleanup"}
        \/ pc[a] = "sent" /\ pc'[a] = "cleanup"
        \/ pc[a] = "cleanup" /\ pc'[a] = "enable"
    BY <1>3 DEF Turned
  <2> QED BY <2>1, <2>2
<1>4. CASE pc'[a] = pc[a]
  <2>1. /\ chip[a].mode \in {"idle", "rx", "txdelayed"}
    BY <1>2 DEF TimedExchanges, AnchorInStep
  <2>2. /\ chip[a].mode = "idle" => now = 0
        /\ chip[a].mode = "rx" => now = chip[a].timer
        /\ chip[a].mode = "txdelayed" => now = chip[a].due
        /\ chip'[a].mode = "idle" => then = 0
        /\ chip'[a].mode = "rx" => then = chip'[a].timer
        /\ chip'[a].mode = "txdelayed" => then = chip'[a].due
        /\ chip'[a] = chip[a] => then = now
    BY DEF BusyLeft
  <2> HIDE DEF now, then
  <2>3. Older(a) => then <= now /\ (chip[a].mode # "idle" => then = now - 1)
    BY <1>1, <2>1, <2>2 DEF Older, Listening
  <2>4. ~ Turned(a)
    BY <1>4 DEF Turned
  <2>5. then <= now
    <3>1. Next => chip'[a] = chip[a] \/ RunEnded(a) \/ Older(a)
      BY <2>4, AnchorSees
    <3>2. UNCHANGED vars => chip'[a] = chip[a]
      BY DEF vars
    <3>3. now \in Nat
      BY <1>1, <2>1, <2>2
    <3>4. chip'[a] = chip[a] \/ RunEnded(a) => then <= now
      BY <2>2, <3>3 DEF RunEnded
    <3> QED BY <2>3, <3>1, <3>2, <3>4
  <2>6. Tick /\ chip[a].mode # "idle" => then = now - 1
    BY <2>3, TickAges
  <2> QED BY <1>4, <2>5, <2>6 DEF now, then
<1>5. Turned(a) \/ pc'[a] = pc[a]
  <2>1. CASE Next
    BY <2>1, AnchorSees
  <2>2. CASE UNCHANGED vars
    BY <2>2 DEF vars
  <2> QED BY <2>1, <2>2
<1>6. Turned(a) => pc'[a] # pc[a]
  BY DEF Turned
<1> QED BY <1>3, <1>4, <1>5, <1>6

\* An anchor that has turned its receiver on never waits for an event that cannot
\* come, and is back at it after at most four steps of its program, which its
\* transceiver delays by PollTimeout and by Reply.
THEOREM AnchorsGoOn ==
    Spec => /\ [](\A a \in Anchors: AwaitsEvent(a) /\ BusyBound(a))
            /\ [][AnchorAdvances]_vars
<1> DEFINE Good == \A a \in Anchors: AwaitsEvent(a) /\ BusyBound(a)
<1>1. Init => Good
  <2>1. ASSUME Init, NEW a \in Anchors
        PROVE  pc[a] = "enable" /\ chip[a].mode = "idle" /\ chip[a].due = 0 /\ Reply \in Nat
    <3>1. a \in Device /\ a \notin Tags /\ Reply \in Nat
      BY Constants
    <3> QED BY <2>1, <3>1 DEF Init
  <2> QED BY <2>1 DEF AwaitsEvent, BusyBound
<1>2. TypeOK /\ TimedExchanges /\ Good /\ [Next]_vars => Good'
  BY AwaitsStep
<1>3. TypeOK /\ TypeOK' /\ TimedExchanges /\ [Next]_vars => [AnchorAdvances]_vars
  BY AnchorAdvancesStep
<1> QED BY <1>1, <1>2, <1>3, TimingInvariant, PTL DEF Spec
=============================================================================
