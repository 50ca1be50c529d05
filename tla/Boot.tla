--------------------------------- MODULE Boot ---------------------------------
(***************************************************************************)
(* The start of the three programs and of the mesh between tags and        *)
(* gateways: main, the callback bt_ready on the system work queue, the     *)
(* provisioning of a node by itself, its reset and provisioning by others  *)
(* over the mesh.                                                          *)
(*                                                                         *)
(* The system work queue of a node runs one item after the other: bt_ready *)
(* at the end of the initialisation of Bluetooth, then the pushes.  A node *)
(* that calls hrtls_fail does nothing any more.                            *)
(***************************************************************************)
EXTENDS Naturals, Sequences

CONSTANTS Tags, Gateways, Anchors,
          Ids         \* first two bytes of device ids

\* dev_uuid before it is set.
NoId == <<>>

DeviceIds == (0..255) \X (0..255)

ASSUME BootAssumption ==
  /\ Ids \subseteq DeviceIds
  /\ Tags \cap Gateways = {} /\ Anchors \cap (Tags \cup Gateways) = {}

Nodes == Tags \cup Gateways \cup Anchors

VARIABLES
  main,      \* where main is
  uuid,      \* first bytes of dev_uuid
  workq,     \* items of the system work queue, the first one running
  ready,     \* how far bt_ready has come
  prov,      \* by whom the node is provisioned
  addr,      \* its address
  keys,      \* net, app: the keys it has; bound: that of its model
  reset      \* was it ever reset over the mesh?

boot == <<main, uuid>>
mesh == <<prov, addr, keys, reset>>
vars == <<boot, workq, ready, mesh>>

-----------------------------------------------------------------------------
\* First bytes of a device id, when there is none: bytes i, or 16 + i.
FallbackId(n) == IF n \in Gateways THEN <<0, 1>> ELSE <<16, 17>>

\* Mutant of Address: the bytes are taken in network order.
AddressBigEndian(bytes) == (bytes[2] + 256 * bytes[1]) % 2^15

\* sys_get_le16(dev_uuid) & BIT_MASK(15)
Address(bytes) == (bytes[1] + 256 * bytes[2]) % 2^15

\* Where mesh_loc_push_work_handler sends locations.
gw_addr == 256

\* What the work queue of a node may hold.
Items == {"bt_ready", "push"}

Queues == Seq(Items)

Init ==
    /\ main = [n \in Nodes |-> IF n \in Gateways THEN "hwinfo" ELSE "uwb"]
    /\ uuid = [n \in Nodes |-> NoId]
    /\ workq = [n \in Nodes |-> <<>>]
    /\ ready = [n \in Nodes |-> "no"]
    /\ prov = [n \in Nodes |-> "none"]
    /\ addr = [n \in Nodes |-> 0]
    /\ keys = [n \in Nodes |-> {}]
    /\ reset = [n \in Nodes |-> FALSE]

Main(n, from, to) == main[n] = from /\ main' = [main EXCEPT ![n] = to]

\* hrtls_fail: k_fatal_halt
Fail(n) == main' = [main EXCEPT ![n] = "halted"]

-----------------------------------------------------------------------------
\* uwb_module_initialize fails: a tag halts, an anchor returns from main.
InitializeUwb(n) ==
    /\ \/ Main(n, "uwb", IF n \in Anchors THEN "loop" ELSE "hwinfo")
       \/ Main(n, "uwb", IF n \in Anchors THEN "returned" ELSE "halted")
    /\ UNCHANGED <<uuid, workq, ready, mesh>>

GetDeviceId(n) ==
    /\ Main(n, "hwinfo", "bt_enable")
    /\ \E id \in Ids \cup {FallbackId(n)}: uuid' = [uuid EXCEPT ![n] = id]
    /\ UNCHANGED <<workq, ready, mesh>>

\* bt_enable submits the initialisation and returns, or fails.
BtEnable(n) ==
    /\ \/ /\ Main(n, "bt_enable", IF n \in Tags THEN "tag_model" ELSE "sleep")
          /\ workq' = [workq EXCEPT ![n] = Append(@, "bt_ready")]
       \/ Main(n, "bt_enable", "halted") /\ UNCHANGED workq
    /\ UNCHANGED <<uuid, ready, mesh>>

\* mesh_initialize stores the model; main of the gateway sleeps five seconds.
MeshInitialized(n) ==
    /\ Main(n, "tag_model", "loop") \/ Main(n, "sleep", "loop")
    /\ UNCHANGED <<uuid, workq, ready, mesh>>

\* gw_mqtt_client_run never returns, or the gateway halts.
ClientReturned(g) ==
    /\ Main(g, "loop", "halted")
    /\ UNCHANGED <<uuid, workq, ready, mesh>>

\* send_location: an item that waits is not queued twice.
SendLocation(t) ==
    /\ main[t] = "loop"
    /\ workq' = [workq EXCEPT ![t] = IF "push" \in {@[i]: i \in DOMAIN @} THEN @ ELSE Append(@, "push")]
    /\ UNCHANGED <<boot, ready, mesh>>

-----------------------------------------------------------------------------
\* bt_ready, a step for each call that can fail.
Running(n, item) == main[n] # "halted" /\ workq[n] # <<>> /\ Head(workq[n]) = item

Ready(n, from, to) ==
    /\ Running(n, "bt_ready") /\ ready[n] = from
    /\ ready' = [ready EXCEPT ![n] = to]

\* The initialisation of Bluetooth and bt_mesh_init.  That provisioning by
\* others cannot be enabled is ignored.
BtReady(n) ==
    /\ \/ Ready(n, "no", "mesh") /\ UNCHANGED main
       \/ Ready(n, "no", "failed") /\ Fail(n)
       \/ Ready(n, "mesh", "provision") /\ UNCHANGED main
       \/ Ready(n, "mesh", "failed") /\ Fail(n)
    /\ UNCHANGED <<uuid, workq, mesh>>

\* Mutant of Provision: a failure is logged.
ProvisionLogged(n) ==
    /\ \/ /\ Ready(n, "provision", "app_key")
          /\ prov' = [prov EXCEPT ![n] = "self"]
          /\ addr' = [addr EXCEPT ![n] = Address(uuid[n])]
          /\ keys' = [keys EXCEPT ![n] = {"net"}]
       \/ Ready(n, "provision", "app_key") /\ UNCHANGED <<prov, addr, keys>>
    /\ UNCHANGED <<boot, workq, reset>>

\* bt_mesh_provision
Provision(n) ==
    /\ \/ /\ Ready(n, "provision", "app_key")
          /\ prov' = [prov EXCEPT ![n] = "self"]
          /\ addr' = [addr EXCEPT ![n] = Address(uuid[n])]
          /\ keys' = [keys EXCEPT ![n] = {"net"}]
          /\ UNCHANGED main
       \/ Ready(n, "provision", "failed") /\ Fail(n) /\ UNCHANGED <<prov, addr, keys>>
    /\ UNCHANGED <<uuid, workq, reset>>

\* Mutant of AddAppKey: on failure the callback waits instead of returning.
AddAppKeyStuck(n) ==
    /\ \/ Ready(n, "app_key", "bind") /\ keys' = [keys EXCEPT ![n] = @ \cup {"app"}]
       \/ Ready(n, "app_key", "waiting") /\ UNCHANGED keys
    /\ UNCHANGED <<boot, workq, prov, addr, reset>>

\* bt_mesh_app_key_add fails: a tag halts, a gateway goes on.
AddAppKey(n) ==
    /\ \/ /\ Ready(n, "app_key", "bind")
          /\ keys' = [keys EXCEPT ![n] = @ \cup {"app"}]
          /\ UNCHANGED main
       \/ n \in Tags /\ Ready(n, "app_key", "failed") /\ Fail(n) /\ UNCHANGED keys
       \/ n \in Gateways /\ Ready(n, "app_key", "bind") /\ UNCHANGED <<main, keys>>
    /\ UNCHANGED <<uuid, workq, prov, addr, reset>>

\* keys[0] = 0 binds the model, and bt_ready returns.
Bind(n) ==
    /\ Ready(n, "bind", "done")
    /\ keys' = [keys EXCEPT ![n] = @ \cup {"bound"}]
    /\ workq' = [workq EXCEPT ![n] = Tail(@)]
    /\ UNCHANGED <<boot, prov, addr, reset>>

Complete == {"net", "app", "bound"}

\* mesh_loc_push_work_handler; its locations are the subject of LocationFlow.
LocPush(t) ==
    /\ Running(t, "push")
    /\ workq' = [workq EXCEPT ![t] = Tail(@)]
    /\ UNCHANGED <<boot, ready, mesh>>

-----------------------------------------------------------------------------
\* The mesh: a configuration client resets a node, prov_reset allows others to
\* provision it, and a provisioner gives it an address and the keys.
Alive(n) == main[n] # "halted" /\ ready[n] = "done"

NodeReset(n) ==
    /\ Alive(n) /\ prov[n] # "none"
    /\ prov' = [prov EXCEPT ![n] = "none"]
    /\ keys' = [keys EXCEPT ![n] = {}]
    /\ reset' = [reset EXCEPT ![n] = TRUE]
    /\ UNCHANGED <<boot, workq, ready, addr>>

ProvisionByOther(n) ==
    /\ Alive(n) /\ prov[n] = "none"
    /\ prov' = [prov EXCEPT ![n] = "other"]
    /\ addr' = [addr EXCEPT ![n] = 1]
    /\ \E k \in {{"net"}, Complete}: keys' = [keys EXCEPT ![n] = k]
    /\ UNCHANGED <<boot, workq, ready, reset>>

Boots(n) == InitializeUwb(n) \/ GetDeviceId(n) \/ BtEnable(n) \/ MeshInitialized(n)

Works(n) == BtReady(n) \/ Provision(n) \/ AddAppKey(n) \/ Bind(n)

Next == \/ \E n \in Nodes: Boots(n)
        \/ \E n \in Tags \cup Gateways: Works(n) \/ NodeReset(n) \/ ProvisionByOther(n)
        \/ \E t \in Tags: SendLocation(t) \/ LocPush(t)
        \/ \E g \in Gateways: ClientReturned(g)

Spec == Init /\ [][Next]_vars

\* The main thread and the work queue thread of each node run.
FairSpec == Spec /\ \A n \in Nodes: /\ WF_vars(Boots(n))
                                    /\ n \in Tags \cup Gateways => WF_vars(Works(n))
                                    /\ n \in Tags => WF_vars(LocPush(n))

-----------------------------------------------------------------------------
TypeOK ==
    /\ main \in [Nodes -> {"uwb", "hwinfo", "bt_enable", "tag_model", "sleep", "loop",
                           "halted", "returned"}]
    /\ uuid \in [Nodes -> {NoId} \cup DeviceIds]
    /\ workq \in [Nodes -> Queues]
    /\ ready \in [Nodes -> {"no", "mesh", "provision", "app_key", "bind", "done", "failed"}]
    /\ prov \in [Nodes -> {"none", "self", "other"}]
    /\ addr \in [Nodes -> Nat]
    /\ keys \in [Nodes -> SUBSET Complete]
    /\ reset \in [Nodes -> BOOLEAN]

\* The handler of the pushes never runs on a tag that is not yet in the mesh,
\* although main submits it without waiting for bt_ready: at a push the model
\* is stored, the callback has returned, and the tag has its keys unless it
\* was reset over the mesh.
PushesWhenReady ==
    \A t \in Tags: Running(t, "push") =>
        /\ main[t] = "loop" /\ ready[t] = "done"
        /\ reset[t] \/ keys[t] = Complete

\* A gateway without a device id provisions itself with the address to which
\* all tags send, and no tag without one takes that address from it.
DefaultsMeet ==
    \A n \in Tags \cup Gateways:
        prov[n] = "self" /\ uuid[n] = FallbackId(n) => (addr[n] = gw_addr <=> n \in Gateways)

\* The programs start or stop: every node comes to its loop with Bluetooth
\* ready, or halts, or its main returns.
Started(n) == main[n] = "loop" /\ (n \in Anchors \/ ready[n] = "done")

BootEnds == \A n \in Nodes: <>(Started(n) \/ main[n] \in {"halted", "returned"})
=============================================================================
