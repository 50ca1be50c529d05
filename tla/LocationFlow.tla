---------------------------- MODULE LocationFlow ----------------------------
(***************************************************************************)
(* The path of a location from the tag that computed it to the broker.     *)
(*                                                                         *)
(* Both ends of the mesh use the same arrangement: a producer thread puts  *)
(* the location in a bounded message queue without waiting and submits a   *)
(* work item; the system work queue later runs the item's handler, which   *)
(* takes locations until the queue is empty and passes each one on.        *)
(*                                                                         *)
(*   tag:      main thread -> rtls_result_queue -> mesh_loc_push_work      *)
(*             -> Bluetooth mesh                                           *)
(*   gateway:  mesh receive thread -> locs_queue -> mqtt_loc_push_work     *)
(*             -> gw_mqtt_client_try_publishing                            *)
(*                                                                         *)
(* A location is the pair of the tag it comes from and the rank of the     *)
(* measurement, which the code does not carry: it identifies the location  *)
(* in the properties.  Threads interleave between the calls whose effect   *)
(* another thread can observe.                                             *)
(***************************************************************************)
EXTENDS Naturals, Sequences

CONSTANTS Tags,       \* the tags of the network
          Gw,         \* the gateway
          NoLoc,      \* what a handler holds when it holds no location
          QueueLen,   \* capacity of each message queue (3 in the code)
          MaxLocs     \* bound: measurements per tag in one behaviour

Stage == Tags \cup {Gw}
Loc == [tag: Tags, n: Nat \ {0}]
Msg == [n: Nat \ {0}, seq: Nat]

ASSUME FlowAssumption == /\ Gw \notin Tags
                         /\ NoLoc \notin Loc
                         /\ QueueLen \in Nat \ {0}
                         /\ MaxLocs \in Nat

VARIABLES
  measured,   \* measured[t]: successful measurements of tag t so far
  putting,    \* putting[s]: the producer of s has put and not yet submitted
  queue,      \* queue[s]: the message queue of stage s
  queued,     \* queued[s]: the work item of s waits in the system work queue
  handler,    \* handler[s]: what the work queue thread of s is doing
  hand,       \* hand[s]: the handler's local copy of a location
  sent,       \* sent[t]: last mesh sequence number used by tag t
  air,        \* air[t]: mesh messages of tag t that may still arrive
  replay,     \* replay[t]: the gateway's replay protection entry for tag t
  running,    \* wrapper.running of the MQTT client
  published   \* locations accepted by mqtt_publish, oldest first

work == <<queued, handler, hand>>
meshVars == <<sent, air, replay>>
mqttVars == <<running, published>>
vars == <<measured, putting, queue, work, meshVars, mqttVars>>

Init == /\ measured = [t \in Tags |-> 0]
        /\ putting = [s \in Stage |-> FALSE]
        /\ queue = [s \in Stage |-> <<>>]
        /\ queued = [s \in Stage |-> FALSE]
        /\ handler = [s \in Stage |-> "idle"]
        /\ hand = [s \in Stage |-> NoLoc]
        /\ sent = [t \in Tags |-> 0]
        /\ air = [t \in Tags |-> {}]
        /\ replay = [t \in Tags |-> 0]
        /\ running = FALSE
        /\ published = <<>>

-----------------------------------------------------------------------------
\* The two kernel objects, as both programs use them.

\* k_msgq_put with K_NO_WAIT: a full queue refuses the new message.
Put(s, loc) == IF Len(queue[s]) < QueueLen
               THEN queue' = [queue EXCEPT ![s] = Append(@, loc)]
               ELSE UNCHANGED queue

\* Mutant of Submit: no submission while the handler is still running.
SubmitWhenIdle(s) ==
    /\ putting[s]
    /\ putting' = [putting EXCEPT ![s] = FALSE]
    /\ queued' = [queued EXCEPT ![s] = @ \/ handler[s] = "idle"]
    /\ UNCHANGED <<measured, queue, handler, hand, meshVars, mqttVars>>

\* The producer's second call, k_work_submit: an item that is waiting is left
\* where it is, one whose handler runs is queued to run again.
Submit(s) == /\ putting[s]
             /\ putting' = [putting EXCEPT ![s] = FALSE]
             /\ queued' = [queued EXCEPT ![s] = TRUE]
             /\ UNCHANGED <<measured, queue, handler, hand, meshVars, mqttVars>>

\* The work queue thread takes the item: it is no longer queued, it runs.
RunWork(s) == /\ queued[s]
              /\ handler[s] = "idle"
              /\ queued' = [queued EXCEPT ![s] = FALSE]
              /\ handler' = [handler EXCEPT ![s] = "get"]
              /\ UNCHANGED <<measured, putting, queue, hand, meshVars, mqttVars>>

\* The handler's loop condition, k_msgq_get with K_NO_WAIT: take the oldest
\* location, or leave the loop when there is none.
TakeNext(s) ==
    /\ handler[s] = "get"
    /\ \/ /\ queue[s] # <<>>
          /\ hand' = [hand EXCEPT ![s] = Head(queue[s])]
          /\ queue' = [queue EXCEPT ![s] = Tail(@)]
          /\ handler' = [handler EXCEPT ![s] = "send"]
       \/ /\ queue[s] = <<>>
          /\ handler' = [handler EXCEPT ![s] = "return"]
          /\ UNCHANGED <<hand, queue>>
    /\ UNCHANGED <<measured, putting, queued, meshVars, mqttVars>>

\* The work queue thread is back from the handler and the item is idle, or
\* queued if it was submitted in the meantime.
Return(s) == /\ handler[s] = "return"
             /\ handler' = [handler EXCEPT ![s] = "idle"]
             /\ UNCHANGED <<measured, putting, queue, queued, hand, meshVars, mqttVars>>

\* Mutants of Passed: one location per run, "if" for "while"; the local copy
\* is used again.
PassedOnce(s) == /\ handler' = [handler EXCEPT ![s] = "return"]
                 /\ hand' = [hand EXCEPT ![s] = NoLoc]

PassedTwice(s) == \/ /\ handler' = [handler EXCEPT ![s] = "get"]
                     /\ hand' = [hand EXCEPT ![s] = NoLoc]
                  \/ UNCHANGED <<handler, hand>>

\* The handler is done with its location and evaluates the loop condition.
Passed(s) == /\ handler' = [handler EXCEPT ![s] = "get"]
             /\ hand' = [hand EXCEPT ![s] = NoLoc]

-----------------------------------------------------------------------------
\* The tag.

\* perform_positioning succeeded and send_location puts the result.  A failed
\* positioning sends nothing and is not a step.
SendLocation(t) ==
    /\ ~putting[t]
    /\ measured[t] < MaxLocs
    /\ measured' = [measured EXCEPT ![t] = @ + 1]
    /\ Put(t, [tag |-> t, n |-> measured[t] + 1])
    /\ putting' = [putting EXCEPT ![t] = TRUE]
    /\ UNCHANGED <<work, meshVars, mqttVars>>

\* hrtls_model_tag_loc_push: the mesh accepts the message under the next
\* sequence number.
LocPush(t) ==
    /\ handler[t] = "send"
    /\ sent' = [sent EXCEPT ![t] = @ + 1]
    /\ air' = [air EXCEPT ![t] = @ \cup {[n |-> hand[t].n, seq |-> sent[t] + 1]}]
    /\ Passed(t)
    /\ UNCHANGED <<measured, putting, queue, queued, replay, mqttVars>>

\* The push failed (not provisioned, no key bound, no advertising buffer): the
\* handler logs the result and goes on.
LocPushFails(t) ==
    /\ handler[t] = "send"
    /\ Passed(t)
    /\ UNCHANGED <<measured, putting, queue, queued, meshVars, mqttVars>>

-----------------------------------------------------------------------------
\* The mesh: unacknowledged messages, lost or relayed several times, in any
\* order.  The receiver's replay protection takes a sequence number once.

Lose(t, m) == /\ m \in air[t]
              /\ air' = [air EXCEPT ![t] = @ \ {m}]
              /\ UNCHANGED <<measured, putting, queue, work, sent, replay, mqttVars>>

\* A message accepted by the replay protection reaches loc_push_handler, which
\* puts the location; a copy of it may still be relayed.
LocPushHandler(t, m) ==
    /\ ~putting[Gw]
    /\ m \in air[t]
    /\ m.seq > replay[t]
    /\ replay' = [replay EXCEPT ![t] = m.seq]
    /\ Put(Gw, [tag |-> t, n |-> m.n])
    /\ putting' = [putting EXCEPT ![Gw] = TRUE]
    /\ UNCHANGED <<measured, work, sent, air, mqttVars>>

-----------------------------------------------------------------------------
\* The gateway's handler: gw_mqtt_client_try_publishing.

Publish ==
    /\ handler[Gw] = "send"
    /\ running
    /\ published' = Append(published, hand[Gw])
    /\ Passed(Gw)
    /\ UNCHANGED <<measured, putting, queue, queued, meshVars, running>>

\* -EAGAIN when the client is not running, or an error of mqtt_publish: the
\* handler logs it and the location is gone.
PublishFails ==
    /\ handler[Gw] = "send"
    /\ Passed(Gw)
    /\ UNCHANGED <<measured, putting, queue, queued, meshVars, mqttVars>>

\* The MQTT client starts and stops running on its own (module MqttClient).
ClientRuns == /\ running' = ~running
              /\ UNCHANGED <<measured, putting, queue, work, meshVars, published>>

-----------------------------------------------------------------------------
Producers == \/ \E t \in Tags: SendLocation(t)
             \/ \E t \in Tags: \E m \in air[t]: LocPushHandler(t, m)
             \/ \E s \in Stage: Submit(s)

Handlers == \/ \E s \in Stage: RunWork(s) \/ TakeNext(s) \/ Return(s)
            \/ \E t \in Tags: LocPush(t) \/ LocPushFails(t)
            \/ Publish
            \/ PublishFails

Mesh == \E t \in Tags: \E m \in air[t]: Lose(t, m)

Next == Producers \/ Handlers \/ Mesh \/ ClientRuns

Spec == Init /\ [][Next]_vars

\* Producers finish a call they began, and the work queue threads run: each
\* stage's steps are those of one thread that the scheduler does not starve.
\* Measurements, deliveries and the client are under no obligation.
Fairness == /\ \A s \in Stage: /\ WF_vars(Submit(s))
                               /\ WF_vars(RunWork(s))
                               /\ WF_vars(TakeNext(s))
                               /\ WF_vars(Return(s))
            /\ \A t \in Tags: WF_vars(LocPush(t) \/ LocPushFails(t))
            /\ WF_vars(Publish \/ PublishFails)

FairSpec == Spec /\ Fairness

-----------------------------------------------------------------------------
TypeOK == /\ measured \in [Tags -> Nat]
          /\ putting \in [Stage -> BOOLEAN]
          /\ queue \in [Stage -> Seq(Loc)]
          /\ \A s \in Stage: Len(queue[s]) <= QueueLen
          /\ queued \in [Stage -> BOOLEAN]
          /\ handler \in [Stage -> {"idle", "get", "send", "return"}]
          /\ hand \in [Stage -> Loc \cup {NoLoc}]
          /\ \A s \in Stage: handler[s] = "send" <=> hand[s] # NoLoc
          /\ sent \in [Tags -> Nat]
          /\ air \in [Tags -> SUBSET Msg]
          /\ replay \in [Tags -> Nat]
          /\ running \in BOOLEAN
          /\ published \in Seq(Loc)

\* A location in a queue is never forgotten: whenever the producer is outside
\* its put-then-submit pair, a non-empty queue has a handler that is queued or
\* will look at the queue again.  It would fail if the item were submitted
\* before the put, or only when it is not already running.
NoLostWakeup ==
    \A s \in Stage:
        queue[s] # <<>> /\ ~putting[s] => queued[s] \/ handler[s] \in {"get", "send"}

\* End to end, the broker sees the locations of a tag in the order they were
\* measured and each at most once, however the mesh relays and loses messages
\* and whatever is dropped at a full queue or while the client is down.
PublishedInOrder ==
    \A i, j \in 1..Len(published):
        i < j /\ published[i].tag = published[j].tag
            => published[i].n < published[j].n

\* The same promise as a specification: every step of the two programs and the
\* mesh is a measurement, the delivery of a measured location newer than those
\* of its tag delivered before, or invisible to the subscriber.
Delivery == INSTANCE OrderedDelivery WITH
                Tags <- Tags, measured <- measured, published <- published
ImplementsDelivery == Delivery!Spec

\* The inductive invariant behind the promise.  Seen from the broker, the
\* locations of a tag grow along the whole path: published, in the gateway's
\* hand, in its queue, in the air and acceptable, in the tag's hand, in its
\* queue, not yet measured.
Held(s) == IF hand[s] = NoLoc THEN {} ELSE {hand[s]}
Waiting(s) == {queue[s][i] : i \in 1..Len(queue[s])}
Here(s) == Held(s) \cup Waiting(s)
Published == {published[i] : i \in 1..Len(published)}

OwnLocations == \A t \in Tags: \A loc \in Here(t): loc.tag = t

WereMeasured == \A t \in Tags: \A loc \in Here(t): loc.n <= measured[t]

OrderedAt(s) ==
    /\ \A h \in Held(s), w \in Waiting(s): h.tag = w.tag => h.n < w.n
    /\ \A i, j \in 1..Len(queue[s]):
           i < j /\ queue[s][i].tag = queue[s][j].tag
               => queue[s][i].n < queue[s][j].n

PublishedFirst ==
    \A p \in Published, loc \in Here(Gw): p.tag = loc.tag => p.n < loc.n

\* The n-th location has left tag t: it was measured, before all that t still has.
LeftTag(t, n) == /\ n <= measured[t]
                 /\ \A loc \in Here(t): n < loc.n

AirOrdered ==
    \A t \in Tags: \A m \in air[t]:
        /\ m.seq <= sent[t]
        /\ LeftTag(t, m.n)
        /\ \A o \in air[t]: m.seq < o.seq => m.n < o.n

AirIsNewer ==
    \A loc \in Here(Gw) \cup Published:
        /\ LeftTag(loc.tag, loc.n)
        /\ \A m \in air[loc.tag]: m.seq > replay[loc.tag] => loc.n < m.n

PathOrdered == /\ OwnLocations
               /\ \A s \in Stage: OrderedAt(s)
               /\ PublishedFirst
               /\ WereMeasured
               /\ AirOrdered
               /\ AirIsNewer

\* Every location accepted by a queue leaves it: the handler gets to it.
QueueDrains ==
    \A s \in Stage:
        \A t \in Tags, n \in 1..MaxLocs:
            (\E i \in DOMAIN queue[s]: queue[s][i] = [tag |-> t, n |-> n])
                ~> ~(\E i \in DOMAIN queue[s]: queue[s][i] = [tag |-> t, n |-> n])
=============================================================================
