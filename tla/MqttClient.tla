----------------------------- MODULE MqttClient -----------------------------
(***************************************************************************)
(* The gateway's MQTT client: the main thread connects, subscribes, serves *)
(* the session and starts over when it fails; the system work queue        *)
(* publishes.  They share wrapper and, in it, the client of the MQTT       *)
(* library.  wrapper_ext_access_mutex and running admit the publisher only *)
(* while there is a session.                                               *)
(*                                                                         *)
(* The library runs the event callback on the thread that called it and    *)
(* gives up its own mutex meanwhile: between two callbacks a call of the   *)
(* library is one step here.                                               *)
(***************************************************************************)
EXTENDS Naturals

CONSTANTS HasTopics,   \* topics_len > 0
          MidMod       \* number of message ids, 2^16 in the code

ASSUME ClientAssumption == HasTopics \in BOOLEAN /\ MidMod \in Nat \ {0, 1}

VARIABLES
  main,       \* where the main thread is
  stage,      \* what do_input waits for: "connack", "suback" or any packet
  after,      \* where main goes on after the library's last callback
  pub,        \* where the publisher is in gw_mqtt_client_try_publishing
  owner,      \* wrapper_ext_access_mutex: the thread that holds it
  waiting,    \* the threads that wait for it
  running,
  client,     \* state of the library's client
  override,   \* overrided_evt_cb_handler
  evtErr,     \* evt_err # 0
  failed,     \* the result of mqtt_input is not 0
  event,      \* the event main's callback is given
  nextMid,
  mid         \* the id of the packet sent last

mutex == <<owner, waiting>>
wrapper == <<client, override, evtErr, failed, event>>
ids == <<nextMid, mid>>
vars == <<main, stage, after, pub, mutex, running, wrapper, ids>>

Threads == {"main", "pub"}
Events == {"connack", "refused", "suback", "publish", "other", "closed", "disconnect"}

Init == /\ main = "init" /\ stage = "connack" /\ after = "returned"
        /\ pub = "idle"
        /\ owner = "none" /\ waiting = {}
        /\ running = FALSE
        /\ client = "idle" /\ override = "none" /\ evtErr = FALSE
        /\ failed = FALSE /\ event = "other"
        /\ nextMid = 0 /\ mid = 0

-----------------------------------------------------------------------------
\* k_mutex: unlocking hands the mutex to a thread that waits for it.

Lock(t) == IF owner = "none"
           THEN owner' = t /\ UNCHANGED waiting
           ELSE waiting' = waiting \cup {t} /\ UNCHANGED owner

Unlock == /\ owner' \in IF waiting = {} THEN {"none"} ELSE waiting
          /\ waiting' = waiting \ {owner'}

\* Mutant of GetNextMid: the id 0 is used.
GetAnyMid == /\ mid' = nextMid
             /\ nextMid' = (nextMid + 1) % MidMod

\* get_next_mid: the counter's low bits, 0 excepted.
GetNextMid == /\ mid' = IF nextMid = 0 THEN 1 ELSE nextMid
              /\ nextMid' = (mid' + 1) % MidMod

\* The event by which the library tells that the connection is gone.
Dropped == IF client = "connected" THEN "disconnect" ELSE "closed"

\* client_disconnect on the main thread, which then goes on at next.
Drop(next) == /\ client' = "idle"
              /\ event' = Dropped
              /\ main' = "callback" /\ after' = next
              /\ UNCHANGED <<override, evtErr, failed>>

-----------------------------------------------------------------------------
\* The main thread: run_cycle.

\* init_mqtt_client: a socket the client still has is forgotten, not closed.
InitClient ==
    /\ main = "init"
    /\ main' = "connect" /\ stage' = "connack"
    /\ client' = "idle" /\ override' = "none" /\ nextMid' = 0 /\ mid' = 0
    /\ UNCHANGED <<after, pub, mutex, running, evtErr, failed, event>>

\* The address is resolved, mqtt_connect opens the socket and sends CONNECT.
\* When that write fails, the library drops the connection and tells so.
Connect ==
    /\ main = "connect"
    /\ \/ main' = "await" /\ client' = "tcp" /\ UNCHANGED <<after, event>>
       \/ main' = "sleep" /\ UNCHANGED <<client, after, event>>
       \/ main' = "callback" /\ after' = "sleep" /\ event' = "closed" /\ client' = "idle"
    /\ UNCHANGED <<stage, pub, mutex, running, override, evtErr, failed, ids>>

\* do_await.  Only do_connect aborts when it fails.
Await ==
    /\ main = "await"
    /\ main' \in {"input", IF stage = "connack" THEN "abort" ELSE "sleep"}
    /\ UNCHANGED <<stage, after, pub, mutex, running, wrapper, ids>>

\* do_input sets the handler of the stage.
Input ==
    /\ main = "input"
    /\ main' = "read"
    /\ override' = IF stage = "session" THEN "none" ELSE stage
    /\ evtErr' = FALSE
    /\ UNCHANGED <<stage, after, pub, mutex, running, client, failed, event, ids>>

\* mqtt_input: the client has no connection any more,
ReadNothing ==
    /\ main = "read"
    /\ client = "idle"
    /\ failed' = TRUE
    /\ main' = "returned"
    /\ UNCHANGED <<stage, after, pub, mutex, running, client, override, evtErr, event, ids>>

\* or there is only a part of a packet, which is no error,
ReadPart ==
    /\ main = "read"
    /\ client # "idle"
    /\ failed' = FALSE
    /\ main' = "returned"
    /\ UNCHANGED <<stage, after, pub, mutex, running, client, override, evtErr, event, ids>>

\* or a packet, of which "refused" is a CONNACK that ends the connection,
ReadPacket ==
    /\ main = "read"
    /\ client # "idle"
    /\ \E e \in {"connack", "refused", "suback", "publish", "other"}:
          /\ event' = e
          /\ failed' = (e = "refused")
          /\ client' = IF e = "connack" THEN "connected" ELSE client
    /\ main' = "callback" /\ after' = "returned"
    /\ UNCHANGED <<stage, pub, mutex, running, override, evtErr, ids>>

\* or the read fails.
ReadFails ==
    /\ main = "read"
    /\ client # "idle"
    /\ client' = "idle" /\ event' = Dropped /\ failed' = TRUE
    /\ main' = "callback" /\ after' = "returned"
    /\ UNCHANGED <<stage, pub, mutex, running, override, evtErr, ids>>

\* mqtt_evt_cb on the main thread.  The default handler fails when it cannot
\* read the payload of a PUBLISH, or the payload is too long; a failed read
\* drops the connection, and tells so by an event the handler ignores.
Callback ==
    /\ main = "callback"
    /\ \/ /\ override # "none"
          /\ evtErr' = (evtErr \/ event # override)
          /\ UNCHANGED client
       \/ /\ override = "none"
          /\ evtErr' = evtErr
          /\ event = "publish" => client # "idle"
          /\ UNCHANGED client
       \/ /\ override = "none" /\ event = "publish"
          /\ evtErr' = TRUE
          /\ client' \in {client, "idle"}
    /\ event # "refused"
    /\ main' = after
    /\ UNCHANGED <<stage, after, pub, mutex, running, override, failed, event, ids>>

\* The callback for a refusal; then the library drops the connection.
RefusedCallback ==
    /\ main = "callback"
    /\ event = "refused"
    /\ evtErr' = (evtErr \/ override # "none")
    /\ client' = "idle" /\ event' = Dropped
    /\ UNCHANGED <<main, stage, after, pub, mutex, running, override, failed, ids>>

\* Mutant of Returned: the handler stays.
ReturnedOverridden ==
    /\ main = "returned"
    /\ main' = IF failed \/ evtErr
               THEN CASE stage = "connack" -> "abort"
                      [] stage = "suback" -> "sleep"
                      [] stage = "session" -> "close"
               ELSE CASE stage = "connack" -> IF HasTopics THEN "subscribe" ELSE "open"
                      [] stage = "suback" -> "open"
                      [] stage = "session" -> "poll"
    /\ UNCHANGED <<stage, after, pub, mutex, running, wrapper, ids>>

\* do_input returns.
Returned ==
    /\ main = "returned"
    /\ override' = "none"
    /\ main' = IF failed \/ evtErr
               THEN CASE stage = "connack" -> "abort"
                      [] stage = "suback" -> "sleep"
                      [] stage = "session" -> "close"
               ELSE CASE stage = "connack" -> IF HasTopics THEN "subscribe" ELSE "open"
                      [] stage = "suback" -> "open"
                      [] stage = "session" -> "poll"
    /\ UNCHANGED <<stage, after, pub, mutex, running, client, evtErr, failed, event, ids>>

\* mqtt_abort, the end of a failed do_connect.
Abort ==
    /\ main = "abort"
    /\ IF client = "idle"
       THEN main' = "sleep" /\ UNCHANGED <<after, wrapper>>
       ELSE Drop("sleep")
    /\ UNCHANGED <<stage, pub, mutex, running, ids>>

\* do_subscribe: there is no memory, a fatal error; or the client is not
\* connected; or the write fails or succeeds.
Subscribe ==
    /\ main = "subscribe"
    /\ \/ main' = "halted" /\ UNCHANGED <<stage, after, wrapper, ids>>
       \/ /\ GetNextMid
          /\ \/ client # "connected" /\ main' = "sleep" /\ UNCHANGED <<stage, after, wrapper>>
             \/ client = "connected" /\ Drop("sleep") /\ UNCHANGED stage
             \/ /\ client = "connected"
                /\ main' = "await" /\ stage' = "suback" /\ UNCHANGED <<after, wrapper>>
    /\ UNCHANGED <<pub, mutex, running>>

\* The session begins.
RequestOpen == /\ main = "open"
               /\ main' = "opening"
               /\ Lock("main")
               /\ UNCHANGED <<stage, after, pub, running, wrapper, ids>>

Open == /\ main = "opening"
        /\ owner = "main"
        /\ running' = TRUE
        /\ Unlock
        /\ main' = "poll" /\ stage' = "session"
        /\ UNCHANGED <<after, pub, wrapper, ids>>

\* do_poll: something happened, nothing did within the keepalive, or it failed.
Poll == /\ main = "poll"
        /\ main' \in {"input", "ping", "close"}
        /\ UNCHANGED <<stage, after, pub, mutex, running, wrapper, ids>>

\* Mutant of Ping: a client that is not connected is polled again.
PingAgain ==
    /\ main = "ping"
    /\ \/ main' = "poll" /\ UNCHANGED <<after, wrapper>>
       \/ client = "connected" /\ Drop("close")
    /\ UNCHANGED <<stage, pub, mutex, running, ids>>

Ping ==
    /\ main = "ping"
    /\ \/ client # "connected" /\ main' = "close" /\ UNCHANGED <<after, wrapper>>
       \/ client = "connected" /\ main' = "poll" /\ UNCHANGED <<after, wrapper>>
       \/ client = "connected" /\ Drop("close")
    /\ UNCHANGED <<stage, pub, mutex, running, ids>>

\* The session ends.
RequestClose == /\ main = "close"
                /\ main' = "closing"
                /\ Lock("main")
                /\ UNCHANGED <<stage, after, pub, running, wrapper, ids>>

\* Mutant of Close: the client is not disconnected.
CloseQuietly ==
    /\ main = "closing"
    /\ owner = "main"
    /\ running' = FALSE
    /\ main' = "release"
    /\ UNCHANGED <<after, wrapper, stage, pub, mutex, ids>>

\* running is reset; mqtt_disconnect closes a connected client, and only it.
Close ==
    /\ main = "closing"
    /\ owner = "main"
    /\ running' = FALSE
    /\ IF client = "connected"
       THEN Drop("release")
       ELSE main' = "release" /\ UNCHANGED <<after, wrapper>>
    /\ UNCHANGED <<stage, pub, mutex, ids>>

\* Mutant of Release: the mutex is kept.
ReleaseForgotten == /\ main = "release"
                    /\ main' = "sleep"
                    /\ UNCHANGED <<mutex, stage, after, pub, running, wrapper, ids>>

Release == /\ main = "release"
           /\ Unlock
           /\ main' = "sleep"
           /\ UNCHANGED <<stage, after, pub, running, wrapper, ids>>

\* RETRY_PERIOD has passed: the next cycle.
Retry == /\ main = "sleep"
         /\ main' = "init"
         /\ UNCHANGED <<stage, after, pub, mutex, running, wrapper, ids>>

-----------------------------------------------------------------------------
\* The publisher: gw_mqtt_client_try_publishing.  A fatal error of the main
\* thread halts the gateway, and the publisher with it.

TryPublishing == /\ pub = "idle"
                 /\ main # "halted"
                 /\ pub' = "lock"
                 /\ Lock("pub")
                 /\ UNCHANGED <<main, stage, after, running, wrapper, ids>>

\* Mutant of Check: running is not looked at.
CheckNothing ==
    /\ pub = "lock"
    /\ main # "halted"
    /\ owner = "pub"
    /\ pub' = "write" /\ GetNextMid /\ UNCHANGED mutex
    /\ UNCHANGED <<main, stage, after, running, wrapper>>

Check ==
    /\ pub = "lock"
    /\ main # "halted"
    /\ owner = "pub"
    /\ \/ running /\ pub' = "write" /\ GetNextMid /\ UNCHANGED mutex
       \/ ~running /\ pub' = "idle" /\ Unlock /\ UNCHANGED ids
    /\ UNCHANGED <<main, stage, after, running, wrapper>>

\* mqtt_publish: refused or written,
Publish ==
    /\ pub = "write"
    /\ main # "halted"
    /\ pub' = "idle"
    /\ Unlock
    /\ UNCHANGED <<main, stage, after, running, wrapper, ids>>

\* or the write fails and the library drops the connection.
PublishFails ==
    /\ pub = "write"
    /\ main # "halted"
    /\ client = "connected"
    /\ client' = "idle"
    /\ pub' = "callback"
    /\ UNCHANGED <<main, stage, after, mutex, running, override, evtErr, failed, event, ids>>

\* mqtt_evt_cb on the work queue, for a disconnection.
PublishCallback ==
    /\ pub = "callback"
    /\ main # "halted"
    /\ evtErr' = (evtErr \/ override # "none")
    /\ pub' = "idle"
    /\ Unlock
    /\ UNCHANGED <<main, stage, after, running, client, override, failed, event, ids>>

-----------------------------------------------------------------------------
MainStep == \/ InitClient \/ Connect \/ Await \/ Input
            \/ ReadNothing \/ ReadPart \/ ReadPacket \/ ReadFails
            \/ Callback \/ RefusedCallback \/ Returned
            \/ Abort \/ Subscribe
            \/ RequestOpen \/ Open \/ Poll \/ Ping
            \/ RequestClose \/ Close \/ Release \/ Retry

\* The publisher once it was asked to publish.
PubStep == Check \/ Publish \/ PublishFails \/ PublishCallback

Next == MainStep \/ TryPublishing \/ PubStep

Spec == Init /\ [][Next]_vars

\* Both threads run; nothing obliges anyone to publish.
Fairness == WF_vars(MainStep) /\ WF_vars(PubStep)

FairSpec == Spec /\ Fairness

-----------------------------------------------------------------------------
Mains == {"init", "connect", "await", "input", "read", "callback", "returned", "abort",
          "subscribe", "open", "opening", "poll", "ping", "close", "closing", "release",
          "sleep", "halted"}

MutexOK == owner \in Threads \cup {"none"} /\ waiting \subseteq Threads
FlagsOK == running \in BOOLEAN /\ evtErr \in BOOLEAN /\ failed \in BOOLEAN
IdsOK == nextMid \in 0..(MidMod - 1) /\ mid \in 0..(MidMod - 1)

PlacesOK ==
    /\ main \in Mains
    /\ stage \in {"connack", "suback", "session"}
    /\ after \in {"returned", "close", "release", "sleep"}
    /\ pub \in {"idle", "lock", "write", "callback"}

ClientOK ==
    /\ client \in {"idle", "tcp", "connected"}
    /\ override \in {"none", "connack", "suback"}
    /\ event \in Events

TypeOK == PlacesOK /\ ClientOK /\ MutexOK /\ FlagsOK /\ IdsOK

\* The session lasts from the subscription until mqtt_disconnect is called.
Releasing == main = "release" \/ (main = "callback" /\ after = "release")

InSession == /\ stage = "session"
             /\ main \notin {"sleep", "init", "halted"}
             /\ ~Releasing

\* The publisher is inside the library, its callback included, only within one
\* session of the main thread: the client is neither reset nor connected nor
\* disconnected under it.
PublishInSession == pub \in {"write", "callback"} => InSession

\* The handlers for the answers to CONNECT and SUBSCRIBE see no event of the
\* publisher, which would fail them: wrapper is written without a lock.
PublisherEvents == pub = "callback" => override = "none"

\* Message ID == 0 is disallowed by the spec, and the counter wraps.
ValidMids ==
    pub = "write" \/ (main = "await" /\ stage = "suback") => mid # 0

\* The socket a cycle leaves open, which the next one forgets: that of a
\* failed subscription, and that of a session in which no CONNACK came.
SocketsLeft ==
    main = "sleep" /\ client # "idle"
        => \/ stage = "suback"
           \/ client = "tcp" /\ (stage = "session" \/ HasTopics)

\* The inductive invariant behind them.  Who holds the mutex and waits for it:
MutexHeld ==
    /\ owner \notin waiting
    /\ owner = "none" => waiting = {}
    /\ pub = "idle" => owner # "pub" /\ "pub" \notin waiting
    /\ pub = "lock" => owner = "pub" \/ "pub" \in waiting
    /\ pub \in {"write", "callback"} => owner = "pub"
    /\ main \in {"opening", "closing"} => owner = "main" \/ "main" \in waiting
    /\ Releasing => owner = "main"
    /\ main \notin {"opening", "closing"} /\ ~Releasing
          => owner # "main" /\ "main" \notin waiting

\* Where the main thread is in each stage, and where its callbacks return to:
Staged ==
    /\ main \in {"connect", "abort", "subscribe"} => stage = "connack"
    /\ main \in {"await", "open", "opening"} => stage # "session"
    /\ main \in {"poll", "ping", "close", "closing", "release"} => stage = "session"
    /\ main = "callback" => after \in {"returned"} \cup
           IF stage = "session" THEN {"close", "release"} ELSE {"sleep"}
    /\ stage = "suback" => HasTopics

\* How a cycle comes to its end with the socket open or closed.
Sockets ==
    /\ main = "connect" => client = "idle"
    /\ main = "subscribe" => HasTopics
    /\ main = "callback" /\ after # "returned" => client = "idle"
    /\ main = "release" => client # "connected"

Gate == /\ MutexHeld
        /\ Staged
        /\ Sockets
        /\ running <=> InSession
        /\ pub \in {"write", "callback"} => running
        /\ override # "none" => /\ override = stage
                               /\ \/ main \in {"read", "returned"}
                                  \/ main = "callback" /\ after = "returned"

\* What assert(!wrapper.evt_err) in mqtt_evt_cb says: no event comes after one
\* that failed.
NoEventAfterError == main = "callback" \/ pub = "callback" => ~evtErr

\* A session whose connection is gone ends, and the client connects again: also
\* when it was the publisher that lost the connection.  Only do_subscribe
\* without memory halts the gateway.
BrokenSessionEnds == running /\ client = "idle" ~> main \in {"connect", "halted"}

\* gw_mqtt_client_try_publishing returns: the work queue is not stuck.
PublishReturns == pub # "idle" ~> pub = "idle" \/ main = "halted"
=============================================================================
