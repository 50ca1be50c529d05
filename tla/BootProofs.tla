----------------------------- MODULE BootProofs -----------------------------
(***************************************************************************)
(* Proofs of the safety properties of Boot, for any number of nodes and    *)
(* any device ids.                                                         *)
(***************************************************************************)
EXTENDS Boot, TLAPS

Meshed == Tags \cup Gateways

Early == {"uwb", "hwinfo", "bt_enable"}

\* Before Bluetooth is enabled nothing has been queued or provisioned; from
\* then on bt_ready is the first item until it is done, and no other.
QueueOrdered(n) ==
    /\ main[n] # "returned"
    /\ main[n] \in Early => workq[n] = <<>> /\ ready[n] = "no" /\ prov[n] = "none"
    /\ main[n] \in {"tag_model", "sleep", "loop"} /\ ready[n] # "done" => workq[n] # <<>>
    /\ \A i \in 1..Len(workq[n]): workq[n][i] = "bt_ready" <=> i = 1 /\ ready[n] # "done"

\* A push is queued by main's loop only.
Pushed(n) ==
    \A i \in 1..Len(workq[n]): workq[n][i] = "push" => main[n] \in {"loop", "halted"}

\* The address of a node that provisioned itself is that of its id.
Addressed(n) ==
    /\ main[n] \in {"bt_enable", "tag_model", "sleep", "loop"} => uuid[n] # NoId
    /\ prov[n] = "self" => addr[n] = Address(uuid[n])

\* The keys of a tag at each call of bt_ready.
Keyed(t) ==
    /\ ready[t] \in {"no", "mesh", "provision"} => prov[t] = "none"
    /\ ready[t] = "app_key" => keys[t] = {"net"} /\ prov[t] = "self"
    /\ ready[t] = "bind" => keys[t] = {"net", "app"} /\ prov[t] = "self"
    /\ ready[t] = "done" => reset[t] \/ (keys[t] = Complete /\ prov[t] # "none")

NodeInv(n) ==
    /\ QueueOrdered(n)
    /\ Pushed(n)
    /\ Addressed(n)
    /\ n \in Tags => Keyed(n)

Inv == TypeOK /\ \A n \in Meshed: NodeInv(n)

-----------------------------------------------------------------------------
LEMMA Disjoint ==
    /\ Meshed \subseteq Nodes /\ Tags \subseteq Meshed /\ Gateways \subseteq Meshed
    /\ \A n \in Meshed: n \notin Anchors
    /\ \A n \in Tags: n \notin Gateways
BY BootAssumption DEF Meshed, Nodes

LEMMA IdTypes ==
    ASSUME NEW n, NEW id \in Ids \cup {FallbackId(n)}
    PROVE  id \in DeviceIds /\ id # NoId
<1>1. FallbackId(n) \in DeviceIds
  BY DEF FallbackId, DeviceIds
<1>2. id \in DeviceIds
  BY <1>1, BootAssumption
<1>3. \A b \in DeviceIds: b # NoId
  BY DEF DeviceIds, NoId
<1> QED BY <1>2, <1>3

LEMMA AddressTypes ==
    ASSUME NEW bytes \in DeviceIds
    PROVE  Address(bytes) \in Nat
<1>1. bytes[1] \in Nat /\ bytes[2] \in Nat
  BY DEF DeviceIds
<1>2. bytes[1] + 256 * bytes[2] \in Nat /\ 2^15 = 32768
  BY <1>1
<1> QED BY <1>2 DEF Address

LEMMA Appended ==
    ASSUME NEW q \in Queues, NEW e \in Items
    PROVE  /\ Append(q, e) \in Queues
           /\ Len(q) \in Nat
           /\ Len(Append(q, e)) = Len(q) + 1
           /\ \A i \in 1..Len(q): Append(q, e)[i] = q[i]
           /\ Append(q, e)[Len(q) + 1] = e
BY DEF Queues

LEMMA Shortened ==
    ASSUME NEW q \in Queues, q # <<>>
    PROVE  /\ Tail(q) \in Queues
           /\ Len(q) \in Nat /\ Len(q) >= 1
           /\ Head(q) = q[1]
           /\ Len(Tail(q)) = Len(q) - 1
           /\ \A i \in 1..Len(Tail(q)): Tail(q)[i] = q[i + 1] /\ i + 1 \in 1..Len(q)
<1>1. Len(q) \in Nat /\ Len(q) >= 1
  BY DEF Queues
<1> QED BY <1>1 DEF Queues

LEMMA Empty == <<>> \in Queues /\ Len(<<>>) = 0
BY DEF Queues

\* While an item runs it is the first of the queue.
LEMMA First ==
    ASSUME TypeOK, NEW n \in Meshed, NodeInv(n), NEW item, Running(n, item)
    PROVE  /\ workq[n] \in Queues /\ workq[n] # <<>> /\ 1 \in 1..Len(workq[n])
           /\ workq[n][1] = item
           /\ item = "bt_ready" <=> ready[n] # "done"
           /\ main[n] \notin Early \cup {"halted", "returned"}
<1>1. workq[n] \in Queues /\ workq[n] # <<>>
  BY Disjoint DEF TypeOK, Running
<1>2. 1 \in 1..Len(workq[n]) /\ workq[n][1] = item
  BY <1>1, Shortened DEF Running
<1> QED BY <1>1, <1>2 DEF NodeInv, QueueOrdered, Running

-----------------------------------------------------------------------------
LEMMA TypeStep ==
    ASSUME Inv, Next
    PROVE  TypeOK'
<1> USE DEF TypeOK, Main, Fail, Ready
<1>0. TypeOK /\ \A n \in Meshed: n \in Nodes /\ NodeInv(n)
  BY Disjoint DEF Inv
<1>1. ASSUME NEW n \in Nodes, InitializeUwb(n) PROVE TypeOK'
  BY <1>0, <1>1 DEF InitializeUwb, mesh
<1>2. ASSUME NEW n \in Nodes, GetDeviceId(n) PROVE TypeOK'
  BY <1>0, <1>2, IdTypes DEF GetDeviceId, mesh
<1>3. ASSUME NEW n \in Nodes, BtEnable(n) PROVE TypeOK'
  <2>1. Append(workq[n], "bt_ready") \in Queues
    BY <1>0, Appended DEF Items
  <2>2. [workq EXCEPT ![n] = Append(@, "bt_ready")] \in [Nodes -> Queues]
    BY <1>0, <2>1
  <2>3. workq' \in [Nodes -> Queues]
    BY <1>0, <1>3, <2>2 DEF BtEnable
  <2>4. main' \in [Nodes -> {"uwb", "hwinfo", "bt_enable", "tag_model", "sleep", "loop",
                            "halted", "returned"}]
    BY <1>0, <1>3 DEF BtEnable
  <2>5. UNCHANGED <<uuid, ready, mesh>>
    BY <1>3 DEF BtEnable
  <2> QED BY <1>0, <2>3, <2>4, <2>5 DEF mesh
<1>4. ASSUME NEW n \in Nodes, MeshInitialized(n) PROVE TypeOK'
  BY <1>0, <1>4 DEF MeshInitialized, mesh
<1>5. ASSUME NEW n \in Meshed, BtReady(n) PROVE TypeOK'
  BY <1>0, <1>5 DEF BtReady, mesh
<1>6. ASSUME NEW n \in Meshed, Provision(n) PROVE TypeOK'
  <2>1. Running(n, "bt_ready")
    BY <1>6 DEF Provision
  <2>2. uuid[n] \in DeviceIds
    <3>1. main[n] \in {"bt_enable", "tag_model", "sleep", "loop"}
      BY <1>0, <2>1, First DEF Early
    <3>2. uuid[n] # NoId
      BY <1>0, <3>1 DEF NodeInv, Addressed
    <3>3. uuid[n] \in {NoId} \cup DeviceIds
      BY <1>0
    <3> QED BY <3>2, <3>3
  <2>3. Address(uuid[n]) \in Nat
    BY <2>2, AddressTypes
  <2>4. {"net"} \in SUBSET Complete
    BY DEF Complete
  <2> QED BY <1>0, <1>6, <2>3, <2>4 DEF Provision
<1>7. ASSUME NEW n \in Meshed, AddAppKey(n) PROVE TypeOK'
  <2>1. \A k \in SUBSET Complete: k \cup {"app"} \in SUBSET Complete
    BY DEF Complete
  <2> QED BY <1>0, <1>7, <2>1 DEF AddAppKey
<1>8. ASSUME NEW n \in Meshed, Bind(n) PROVE TypeOK'
  <2>1. \A k \in SUBSET Complete: k \cup {"bound"} \in SUBSET Complete
    BY DEF Complete
  <2>2. Running(n, "bt_ready")
    BY <1>8 DEF Bind
  <2>3. Tail(workq[n]) \in Queues
    BY <1>0, <2>2, First, Shortened
  <2> QED BY <1>0, <1>8, <2>1, <2>3 DEF Bind, boot
<1>9. ASSUME NEW n \in Meshed, NodeReset(n) PROVE TypeOK'
  <2>1. {} \in SUBSET Complete
    OBVIOUS
  <2> QED BY <1>0, <1>9, <2>1 DEF NodeReset, boot
<1>10. ASSUME NEW n \in Meshed, ProvisionByOther(n) PROVE TypeOK'
  <2>1. \A k \in {{"net"}, Complete}: k \in SUBSET Complete
    BY DEF Complete
  <2> QED BY <1>0, <1>10, <2>1 DEF ProvisionByOther, boot
<1>11. ASSUME NEW t \in Tags, SendLocation(t) PROVE TypeOK'
  <2>1. t \in Nodes
    BY Disjoint
  <2>2. Append(workq[t], "push") \in Queues
    BY <1>0, <2>1, Appended DEF Items
  <2>3. workq' \in [Nodes -> Queues]
    BY <1>0, <1>11, <2>1, <2>2 DEF SendLocation
  <2> QED BY <1>0, <1>11, <2>3 DEF SendLocation, boot, mesh
<1>12. ASSUME NEW t \in Tags, LocPush(t) PROVE TypeOK'
  <2>1. t \in Meshed /\ Running(t, "push")
    BY <1>12, Disjoint DEF LocPush
  <2>2. Tail(workq[t]) \in Queues
    BY <1>0, <2>1, First, Shortened
  <2> QED BY <1>0, <1>12, <2>1, <2>2 DEF LocPush, boot, mesh
<1>13. ASSUME NEW g \in Gateways, ClientReturned(g) PROVE TypeOK'
  BY <1>0, <1>13, Disjoint DEF ClientReturned, mesh
<1> QED BY <1>1, <1>2, <1>3, <1>4, <1>5, <1>6, <1>7, <1>8, <1>9, <1>10, <1>11,
           <1>12, <1>13
        DEF Next, Boots, Works, Meshed

-----------------------------------------------------------------------------
\* A step of another node leaves a node alone.
LEMMA Others ==
    ASSUME NEW m, NodeInv(m),
           main'[m] = main[m], uuid'[m] = uuid[m], workq'[m] = workq[m],
           ready'[m] = ready[m], prov'[m] = prov[m], addr'[m] = addr[m],
           keys'[m] = keys[m], reset'[m] = reset[m]
    PROVE  NodeInv(m)'
BY DEF NodeInv, QueueOrdered, Pushed, Addressed, Keyed

LEMMA BootsStep ==
    ASSUME TypeOK, NEW n \in Nodes, NEW m \in Meshed, NodeInv(m), Boots(n)
    PROVE  NodeInv(m)'
<1> USE DEF Main, Fail
<1>0. m \in Nodes /\ m \notin Anchors
  BY Disjoint
<1>1. CASE InitializeUwb(n)
  <2>1. CASE m # n
    BY <1>0, <1>1, <2>1, Others DEF TypeOK, InitializeUwb, mesh
  <2>2. CASE m = n
    <3>1. main[m] = "uwb" /\ main'[m] \in {"hwinfo", "halted"}
      BY <1>0, <1>1, <2>2 DEF TypeOK, InitializeUwb
    <3> QED BY <1>1, <3>1 DEF InitializeUwb, mesh, NodeInv, QueueOrdered, Pushed,
                              Addressed, Keyed, Early
  <2> QED BY <2>1, <2>2
<1>2. CASE GetDeviceId(n)
  <2>1. CASE m # n
    BY <1>0, <1>2, <2>1, Others DEF TypeOK, GetDeviceId, mesh
  <2>2. CASE m = n
    <3>1. main[m] = "hwinfo" /\ main'[m] = "bt_enable" /\ uuid'[m] # NoId
      BY <1>0, <1>2, <2>2, IdTypes DEF TypeOK, GetDeviceId
    <3> QED BY <1>2, <3>1 DEF GetDeviceId, mesh, NodeInv, QueueOrdered, Pushed,
                              Addressed, Keyed, Early
  <2> QED BY <2>1, <2>2
<1>3. CASE BtEnable(n)
  <2>1. CASE m # n
    BY <1>0, <1>3, <2>1, Others DEF TypeOK, BtEnable, mesh
  <2>2. CASE m = n
    <3>1. /\ main[m] = "bt_enable"
          /\ \/ main'[m] \in {"tag_model", "sleep"} /\ workq'[m] = Append(workq[m], "bt_ready")
             \/ main'[m] = "halted" /\ workq'[m] = workq[m]
      BY <1>0, <1>3, <2>2 DEF TypeOK, BtEnable
    <3>2. workq[m] = <<>> /\ ready[m] = "no" /\ prov[m] = "none" /\ uuid[m] # NoId
      BY <3>1 DEF NodeInv, QueueOrdered, Addressed, Early
    <3>3. Len(workq[m]) = 0
      BY <3>2, Empty
    <3>4. /\ UNCHANGED <<uuid, ready, prov, addr, keys, reset>>
          /\ Addressed(m)' /\ (m \in Tags => Keyed(m)')
      BY <1>3, <3>2 DEF BtEnable, mesh, NodeInv, Addressed, Keyed
    <3>5. CASE main'[m] = "halted" /\ workq'[m] = workq[m]
      BY <3>3, <3>4, <3>5 DEF NodeInv, QueueOrdered, Pushed, Early
    <3>6. CASE /\ main'[m] \in {"tag_model", "sleep"}
               /\ workq'[m] = Append(workq[m], "bt_ready")
      <4>1. workq[m] \in Queues /\ "bt_ready" \in Items
        BY <1>0 DEF TypeOK, Items
      <4>2. Len(workq'[m]) = Len(workq[m]) + 1 /\ workq'[m][Len(workq[m]) + 1] = "bt_ready"
        BY <3>6, <4>1, Appended
      <4>3. Len(workq'[m]) = 1 /\ workq'[m][1] = "bt_ready"
        BY <3>3, <4>2
      <4>4. workq'[m] # <<>>
        BY <4>3, Empty
      <4>5. QueueOrdered(m)' /\ Pushed(m)'
        BY <3>2, <3>4, <3>6, <4>3, <4>4 DEF QueueOrdered, Pushed, Early
      <4> QED BY <3>4, <4>5 DEF NodeInv
    <3> QED BY <3>1, <3>5, <3>6
  <2> QED BY <2>1, <2>2
<1>4. CASE MeshInitialized(n)
  <2>1. CASE m # n
    BY <1>0, <1>4, <2>1, Others DEF TypeOK, MeshInitialized, mesh
  <2>2. CASE m = n
    <3>1. main[m] \in {"tag_model", "sleep"} /\ main'[m] = "loop"
      BY <1>0, <1>4, <2>2 DEF TypeOK, MeshInitialized
    <3> QED BY <1>4, <3>1 DEF MeshInitialized, mesh, NodeInv, QueueOrdered, Pushed,
                              Addressed, Keyed, Early
  <2> QED BY <2>1, <2>2
<1> QED BY <1>1, <1>2, <1>3, <1>4 DEF Boots

LEMMA WorksStep ==
    ASSUME TypeOK, NEW n \in Meshed, NodeInv(n), NEW m \in Meshed, NodeInv(m), Works(n)
    PROVE  NodeInv(m)'
<1> USE DEF Main, Fail, Ready
<1>0. m \in Nodes
  BY Disjoint
<1>r. /\ Running(n, "bt_ready") /\ main[n] \notin Early /\ main[n] # "returned"
      /\ ready[n] # "done" /\ workq[n] \in Queues /\ workq[n] # <<>>
  BY First DEF Works, BtReady, Provision, AddAppKey, Bind, Early
<1>1. CASE BtReady(n)
  <2>1. CASE m # n
    BY <1>0, <1>1, <2>1, Others DEF TypeOK, BtReady, mesh
  <2>2. CASE m = n
    <3>1. /\ main'[m] \in {main[m], "halted"}
          /\ ready[m] \in {"no", "mesh"} /\ ready'[m] \in {"mesh", "provision", "failed"}
      BY <1>0, <1>1, <2>2 DEF TypeOK, BtReady
    <3> QED BY <1>1, <1>r, <2>2, <3>1 DEF BtReady, mesh, NodeInv, QueueOrdered, Pushed,
                                          Addressed, Keyed, Early
  <2> QED BY <2>1, <2>2
<1>2. CASE Provision(n)
  <2>1. CASE m # n
    BY <1>0, <1>2, <2>1, Others DEF TypeOK, Provision
  <2>2. CASE m = n
    <3>1. /\ ready[m] = "provision"
          /\ \/ /\ main'[m] = main[m] /\ ready'[m] = "app_key"
                /\ prov'[m] = "self" /\ addr'[m] = Address(uuid[m]) /\ keys'[m] = {"net"}
             \/ /\ main'[m] = "halted" /\ ready'[m] = "failed"
                /\ prov'[m] = prov[m] /\ addr'[m] = addr[m]
      BY <1>0, <1>2, <2>2 DEF TypeOK, Provision
    <3> QED BY <1>2, <1>r, <2>2, <3>1 DEF Provision, NodeInv, QueueOrdered, Pushed,
                                          Addressed, Keyed, Early
  <2> QED BY <2>1, <2>2
<1>3. CASE AddAppKey(n)
  <2>1. CASE m # n
    BY <1>0, <1>3, <2>1, Others DEF TypeOK, AddAppKey
  <2>2. CASE m = n
    <3>1. /\ ready[m] = "app_key"
          /\ \/ /\ main'[m] = main[m] /\ ready'[m] = "bind"
                /\ keys'[m] = keys[m] \cup {"app"} \/ m \notin Tags
             \/ main'[m] = "halted" /\ ready'[m] = "failed"
      BY <1>0, <1>3, <2>2, Disjoint DEF TypeOK, AddAppKey
    <3>2. m \in Tags => keys[m] = {"net"} /\ prov[m] = "self"
      BY <3>1 DEF NodeInv, Keyed
    <3>3. {"net"} \cup {"app"} = {"net", "app"}
      OBVIOUS
    <3> QED BY <1>3, <1>r, <2>2, <3>1, <3>2, <3>3
            DEF AddAppKey, NodeInv, QueueOrdered, Pushed, Addressed, Keyed, Early
  <2> QED BY <2>1, <2>2
<1>4. CASE Bind(n)
  <2>1. CASE m # n
    BY <1>0, <1>4, <2>1, Others DEF TypeOK, Bind, boot
  <2>2. CASE m = n
    <3>1. /\ ready[m] = "bind" /\ ready'[m] = "done"
          /\ keys'[m] = keys[m] \cup {"bound"} /\ workq'[m] = Tail(workq[m])
          /\ main'[m] = main[m] /\ uuid'[m] = uuid[m] /\ prov'[m] = prov[m] /\ addr'[m] = addr[m]
      BY <1>0, <1>4, <2>2 DEF TypeOK, Bind, boot
    <3>2. m \in Tags => keys'[m] = Complete /\ prov'[m] = "self"
      <4>1. m \in Tags => keys[m] = {"net", "app"} /\ prov[m] = "self"
        BY <3>1 DEF NodeInv, Keyed
      <4>2. {"net", "app"} \cup {"bound"} = Complete
        BY DEF Complete
      <4> QED BY <3>1, <4>1, <4>2
    <3>3. \A i \in 1..Len(workq'[m]): /\ workq'[m][i] = workq[m][i + 1]
                                      /\ i + 1 \in 1..Len(workq[m]) /\ i + 1 # 1
      BY <1>r, <2>2, <3>1, Shortened
    <3>4. QueueOrdered(m)' /\ Pushed(m)'
      BY <1>r, <2>2, <3>1, <3>3 DEF NodeInv, QueueOrdered, Pushed
    <3>5. Addressed(m)' /\ (m \in Tags => Keyed(m)')
      BY <3>1, <3>2 DEF NodeInv, Addressed, Keyed
    <3> QED BY <3>4, <3>5 DEF NodeInv
  <2> QED BY <2>1, <2>2
<1> QED BY <1>1, <1>2, <1>3, <1>4 DEF Works

LEMMA MeshStep ==
    ASSUME TypeOK, NEW n \in Meshed, NodeInv(n), NEW m \in Meshed, NodeInv(m),
           NodeReset(n) \/ ProvisionByOther(n)
    PROVE  NodeInv(m)'
<1>0. m \in Nodes
  BY Disjoint
<1>1. ready[n] = "done" /\ main[n] \notin Early
  BY DEF NodeReset, ProvisionByOther, Alive, NodeInv, QueueOrdered
<1>2. CASE m # n
  BY <1>0, <1>2, Others DEF TypeOK, NodeReset, ProvisionByOther, boot
<1>3. CASE m = n
  <2>1. CASE NodeReset(n)
    <3>1. prov'[m] = "none" /\ reset'[m] = TRUE
      BY <1>0, <1>3, <2>1 DEF TypeOK, NodeReset
    <3> QED BY <1>1, <1>3, <2>1, <3>1 DEF NodeReset, boot, NodeInv, QueueOrdered, Pushed,
                                          Addressed, Keyed
  <2>2. CASE ProvisionByOther(n)
    <3>1. prov'[m] = "other" /\ prov[m] = "none"
      BY <1>0, <1>3, <2>2 DEF TypeOK, ProvisionByOther
    <3>2. m \in Tags => reset'[m]
      BY <1>1, <1>3, <2>2, <3>1 DEF ProvisionByOther, NodeInv, Keyed
    <3> QED BY <1>1, <1>3, <2>2, <3>1, <3>2
            DEF ProvisionByOther, boot, NodeInv, QueueOrdered, Pushed, Addressed, Keyed
  <2> QED BY <2>1, <2>2
<1> QED BY <1>2, <1>3

LEMMA PushStep ==
    ASSUME TypeOK, NEW t \in Tags, NodeInv(t), NEW m \in Meshed, NodeInv(m),
           SendLocation(t) \/ LocPush(t)
    PROVE  NodeInv(m)'
<1>0. m \in Nodes /\ t \in Meshed /\ workq[m] \in Queues
  BY Disjoint DEF TypeOK
<1>1. CASE m # t
  BY <1>0, <1>1, Others DEF TypeOK, SendLocation, LocPush, boot, mesh
<1>2. CASE m = t
  <2>1. /\ main'[m] = main[m] /\ ready'[m] = ready[m]
        /\ Addressed(m)' /\ (m \in Tags => Keyed(m)')
    BY DEF SendLocation, LocPush, boot, mesh, NodeInv, Addressed, Keyed
  <2>2. main[m] \notin Early /\ main[m] # "returned" /\ prov'[m] = prov[m]
    BY <1>0, <1>2, First DEF SendLocation, LocPush, boot, mesh, Early
  <2>3. CASE SendLocation(t)
    <3>1. main[m] = "loop"
      BY <1>2, <2>3 DEF SendLocation
    <3>2. workq'[m] = workq[m] \/ workq'[m] = Append(workq[m], "push")
      BY <1>0, <1>2, <2>3 DEF TypeOK, SendLocation
    <3>3. CASE workq'[m] = workq[m]
      BY <2>1, <2>2, <3>3 DEF NodeInv, QueueOrdered, Pushed
    <3>4. CASE workq'[m] = Append(workq[m], "push")
      <4>1. /\ Len(workq[m]) \in Nat /\ Len(workq'[m]) = Len(workq[m]) + 1
            /\ \A i \in 1..Len(workq[m]): workq'[m][i] = workq[m][i]
            /\ workq'[m][Len(workq[m]) + 1] = "push"
        BY <1>0, <3>4, Appended DEF Items
      <4>2. ready[m] # "done" => Len(workq[m]) >= 1
        <5>1. workq[m] # <<>> => Len(workq[m]) >= 1
          BY <1>0, Shortened
        <5> QED BY <3>1, <5>1 DEF NodeInv, QueueOrdered
      <4>3. QueueOrdered(m)'
        BY <2>1, <2>2, <4>1, <4>2 DEF NodeInv, QueueOrdered
      <4> QED BY <2>1, <3>1, <4>3 DEF NodeInv, Pushed
    <3> QED BY <3>2, <3>3, <3>4
  <2>4. CASE LocPush(t)
    <3>1. Running(m, "push") /\ workq'[m] = Tail(workq[m])
      BY <1>0, <1>2, <2>4 DEF TypeOK, LocPush
    <3>2. ready[m] = "done" /\ workq[m] # <<>>
      BY <3>1, First
    <3>3. \A i \in 1..Len(workq'[m]): /\ workq'[m][i] = workq[m][i + 1]
                                      /\ i + 1 \in 1..Len(workq[m]) /\ i + 1 # 1
      BY <1>0, <3>1, <3>2, Shortened
    <3>4. QueueOrdered(m)' /\ Pushed(m)'
      BY <2>1, <2>2, <3>2, <3>3 DEF NodeInv, QueueOrdered, Pushed
    <3> QED BY <2>1, <3>4 DEF NodeInv
  <2> QED BY <2>3, <2>4
<1> QED BY <1>1, <1>2

-----------------------------------------------------------------------------
LEMMA ClientStep ==
    ASSUME TypeOK, NEW g \in Gateways, NEW m \in Meshed, NodeInv(m), ClientReturned(g)
    PROVE  NodeInv(m)'
<1>1. g \in Nodes /\ m \in Nodes /\ (m = g => main[m] = "loop")
  BY Disjoint DEF ClientReturned, Main
<1>2. CASE m # g
  BY <1>1, <1>2, Others DEF TypeOK, ClientReturned, Main, mesh
<1>3. CASE m = g
  <2>1. main'[m] = "halted"
    BY <1>1, <1>3 DEF TypeOK, ClientReturned, Main
  <2> QED BY <1>1, <1>3, <2>1 DEF ClientReturned, mesh, NodeInv, QueueOrdered, Pushed,
                                  Addressed, Keyed, Early
<1> QED BY <1>2, <1>3

LEMMA Invariance == Spec => []Inv
<1>1. ASSUME Init PROVE Inv
  <2>1. TypeOK
    <3>1. <<>> \in Queues
      BY Empty
    <3> QED BY <1>1, <3>1 DEF Init, TypeOK
  <2>2. ASSUME NEW n \in Meshed PROVE NodeInv(n)
    BY <1>1, <2>2, Disjoint, Empty
    DEF Init, NodeInv, QueueOrdered, Pushed, Addressed, Keyed, Early
  <2> QED BY <2>1, <2>2 DEF Inv
<1>2. ASSUME Inv, [Next]_vars PROVE Inv'
  <2>1. CASE Next
    <3>1. TypeOK'
      BY <1>2, <2>1, TypeStep
    <3>2. ASSUME NEW m \in Meshed PROVE NodeInv(m)'
      BY <1>2, <2>1, <3>2, BootsStep, WorksStep, MeshStep, PushStep, ClientStep, Disjoint
      DEF Inv, Next, Meshed
    <3> QED BY <3>1, <3>2 DEF Inv
  <2>2. CASE UNCHANGED vars
    BY <1>2, <2>2 DEF vars, boot, mesh, Inv, TypeOK, NodeInv, QueueOrdered, Pushed,
                      Addressed, Keyed, Running
  <2> QED BY <1>2, <2>1, <2>2
<1> QED BY <1>1, <1>2, PTL DEF Spec

\* The values of Boot's variables are always those the programs know.
THEOREM TypeCorrect == Spec => []TypeOK
<1>1. Inv => TypeOK
  BY DEF Inv
<1> QED BY <1>1, Invariance, PTL

\* The work handler that pushes locations runs on no tag before bt_ready has
\* given it its keys, however many nodes there are and however main and the
\* work queue interleave.
THEOREM PushesReady == Spec => []PushesWhenReady
<1>1. ASSUME Inv PROVE PushesWhenReady
  <2>1. ASSUME NEW t \in Tags, Running(t, "push")
        PROVE  /\ main[t] = "loop" /\ ready[t] = "done"
               /\ reset[t] \/ keys[t] = Complete
    <3>1. t \in Meshed /\ TypeOK /\ NodeInv(t)
      BY <1>1, Disjoint DEF Inv
    <3>2. 1 \in 1..Len(workq[t]) /\ workq[t][1] = "push" /\ ready[t] = "done"
      BY <2>1, <3>1, First
    <3> QED BY <2>1, <3>1, <3>2 DEF NodeInv, Pushed, Keyed, Running
  <2> QED BY <2>1 DEF PushesWhenReady
<1> QED BY <1>1, Invariance, PTL

\* Whatever the device ids, of the nodes without one those that come to have
\* the address all tags send to are the gateways.
THEOREM DefaultAddresses == Spec => []DefaultsMeet
<1>1. ASSUME Inv PROVE DefaultsMeet
  <2>1. ASSUME NEW n \in Tags \cup Gateways, prov[n] = "self", uuid[n] = FallbackId(n)
        PROVE  addr[n] = gw_addr <=> n \in Gateways
    <3>1. addr[n] = Address(FallbackId(n))
      BY <1>1, <2>1 DEF Inv, Meshed, NodeInv, Addressed
    <3>2. CASE n \in Gateways
      <4>1. addr[n] = (0 + 256 * 1) % 2^15
        BY <3>1, <3>2 DEF FallbackId, Address
      <4> QED BY <3>2, <4>1 DEF gw_addr
    <3>3. CASE n \notin Gateways
      <4>1. addr[n] = (16 + 256 * 17) % 2^15
        BY <3>1, <3>3 DEF FallbackId, Address
      <4> QED BY <3>3, <4>1 DEF gw_addr
    <3> QED BY <3>2, <3>3
  <2> QED BY <2>1 DEF DefaultsMeet
<1> QED BY <1>1, Invariance, PTL

-----------------------------------------------------------------------------
\* The steps of main and of bt_ready that remain until a node is started.
MainLeft(place) ==
    CASE place = "uwb" -> 4
      [] place = "hwinfo" -> 3
      [] place = "bt_enable" -> 2
      [] place \in {"tag_model", "sleep"} -> 1
      [] place \in {"loop", "halted", "returned"} -> 0

ReadyLeft(place) ==
    CASE place = "no" -> 5
      [] place = "mesh" -> 4
      [] place = "provision" -> 3
      [] place = "app_key" -> 2
      [] place = "bind" -> 1
      [] place \in {"done", "failed"} -> 0

BootLeft(n) == MainLeft(main[n]) + ReadyLeft(ready[n])

\* What BootEnds needs besides the fairness of the two threads.  Each of their
\* steps brings their node closer to its start or its end; no step, not even of
\* the mesh, takes a node back,
BootAdvances ==
    \A n \in Nodes: /\ BootLeft(n)' <= BootLeft(n)
                    /\ Boots(n) \/ Works(n) => BootLeft(n)' < BootLeft(n)

\* and from bt_enable on bt_ready is not kept from running by what main queues
\* behind it: until it is done it runs, or the node has halted.
CallbackRuns ==
    \A n \in Meshed:
        main[n] \in {"tag_model", "sleep", "loop"} /\ ready[n] # "done" =>
            /\ Running(n, "bt_ready")
            /\ ready[n] \in {"no", "mesh", "provision", "app_key", "bind"}

FailedHalts == \A n \in Meshed: ready[n] = "failed" => main[n] = "halted"

LEMMA MainValues ==
    /\ MainLeft("uwb") = 4 /\ MainLeft("hwinfo") = 3 /\ MainLeft("bt_enable") = 2
    /\ MainLeft("tag_model") = 1 /\ MainLeft("sleep") = 1
    /\ MainLeft("loop") = 0 /\ MainLeft("halted") = 0 /\ MainLeft("returned") = 0
BY DEF MainLeft

LEMMA ReadyValues ==
    /\ ReadyLeft("no") = 5 /\ ReadyLeft("mesh") = 4 /\ ReadyLeft("provision") = 3
    /\ ReadyLeft("app_key") = 2 /\ ReadyLeft("bind") = 1
    /\ ReadyLeft("done") = 0 /\ ReadyLeft("failed") = 0
BY DEF ReadyLeft

LEMMA LeftTypes ==
    ASSUME TypeOK, NEW n \in Nodes
    PROVE  MainLeft(main[n]) \in Nat /\ ReadyLeft(ready[n]) \in Nat
<1>1. MainLeft(main[n]) \in Nat
  BY MainValues DEF TypeOK
<1>2. ReadyLeft(ready[n]) \in Nat
  BY ReadyValues DEF TypeOK
<1> QED BY <1>1, <1>2

\* What a step does to a node: nothing to its start, a step of main, or a step
\* of bt_ready, which fails only when it halts the node.
Still(n) == main'[n] = main[n] /\ ready'[n] = ready[n]
MainMoves(n) == /\ MainLeft(main'[n]) \in Nat
                /\ MainLeft(main'[n]) < MainLeft(main[n])
                /\ ready'[n] = ready[n] /\ main[n] # "halted"
ReadyMoves(n) == /\ ReadyLeft(ready'[n]) \in Nat
                 /\ ReadyLeft(ready'[n]) < ReadyLeft(ready[n])
                 /\ main'[n] \in {main[n], "halted"}
                 /\ ready'[n] = "failed" => main'[n] = "halted"
Halts(n) == main[n] = "loop" /\ main'[n] = "halted" /\ ready'[n] = ready[n]

LEMMA BootsMoves ==
    ASSUME TypeOK, NEW n \in Nodes, Boots(n)
    PROVE  MainMoves(n) /\ \A m \in Nodes \ {n}: Still(m)
<1>1. /\ UNCHANGED ready
      /\ main' = [main EXCEPT ![n] = main'[n]]
      /\ \/ main[n] = "uwb" /\ main'[n] \in {"loop", "hwinfo", "returned", "halted"}
         \/ main[n] = "hwinfo" /\ main'[n] = "bt_enable"
         \/ main[n] = "bt_enable" /\ main'[n] \in {"tag_model", "sleep", "halted"}
         \/ main[n] \in {"tag_model", "sleep"} /\ main'[n] = "loop"
  <2>1. CASE InitializeUwb(n)
    BY <2>1 DEF InitializeUwb, Main, TypeOK
  <2>2. CASE GetDeviceId(n)
    BY <2>2 DEF GetDeviceId, Main, TypeOK
  <2>3. CASE BtEnable(n)
    BY <2>3 DEF BtEnable, Main, TypeOK
  <2>4. CASE MeshInitialized(n)
    BY <2>4 DEF MeshInitialized, Main, TypeOK
  <2> QED BY <2>1, <2>2, <2>3, <2>4 DEF Boots
<1>2. MainMoves(n)
  BY <1>1, MainValues DEF MainMoves
<1>3. ASSUME NEW m \in Nodes \ {n} PROVE Still(m)
  BY <1>1 DEF Still, TypeOK
<1> QED BY <1>2, <1>3

LEMMA WorksMoves ==
    ASSUME TypeOK, NEW n \in Nodes, Works(n)
    PROVE  ReadyMoves(n) /\ \A m \in Nodes \ {n}: Still(m)
<1>1. /\ main' = main \/ main' = [main EXCEPT ![n] = "halted"]
      /\ ready' = [ready EXCEPT ![n] = ready'[n]]
      /\ \/ ready[n] = "no" /\ ready'[n] \in {"mesh", "failed"}
         \/ ready[n] = "mesh" /\ ready'[n] \in {"provision", "failed"}
         \/ ready[n] = "provision" /\ ready'[n] \in {"app_key", "failed"}
         \/ ready[n] = "app_key" /\ ready'[n] \in {"bind", "failed"}
         \/ ready[n] = "bind" /\ ready'[n] = "done"
      /\ ready'[n] = "failed" => main' = [main EXCEPT ![n] = "halted"]
  <2>1. CASE BtReady(n)
    BY <2>1 DEF BtReady, Ready, Fail, TypeOK
  <2>2. CASE Provision(n)
    BY <2>2 DEF Provision, Ready, Fail, TypeOK
  <2>3. CASE AddAppKey(n)
    BY <2>3 DEF AddAppKey, Ready, Fail, TypeOK
  <2>4. CASE Bind(n)
    BY <2>4 DEF Bind, Ready, boot, TypeOK
  <2> QED BY <2>1, <2>2, <2>3, <2>4 DEF Works
<1>2. ReadyLeft(ready'[n]) \in Nat /\ ReadyLeft(ready'[n]) < ReadyLeft(ready[n])
  BY <1>1, ReadyValues
<1>3. /\ main'[n] \in {main[n], "halted"}
      /\ ready'[n] = "failed" => main'[n] = "halted"
  BY <1>1 DEF TypeOK
<1>4. ASSUME NEW m \in Nodes \ {n} PROVE Still(m)
  BY <1>1 DEF Still, TypeOK
<1> QED BY <1>2, <1>3, <1>4 DEF ReadyMoves

LEMMA NodeMoves ==
    ASSUME TypeOK, [Next]_vars, NEW n \in Nodes
    PROVE  Still(n) \/ MainMoves(n) \/ ReadyMoves(n) \/ Halts(n)
<1>1. ASSUME NEW m \in Nodes, Boots(m) PROVE Still(n) \/ MainMoves(n)
  BY <1>1, BootsMoves
<1>2. ASSUME NEW m \in Tags \cup Gateways, Works(m) PROVE Still(n) \/ ReadyMoves(n)
  BY <1>2, WorksMoves DEF Nodes
<1>3. ASSUME NEW m \in Tags \cup Gateways, NodeReset(m) \/ ProvisionByOther(m) PROVE Still(n)
  BY <1>3 DEF NodeReset, ProvisionByOther, boot, Still
<1>4. ASSUME NEW t \in Tags, SendLocation(t) \/ LocPush(t) PROVE Still(n)
  BY <1>4 DEF SendLocation, LocPush, boot, Still
<1>5. ASSUME NEW g \in Gateways, ClientReturned(g) PROVE Still(n) \/ Halts(n)
  BY <1>5 DEF ClientReturned, Main, Still, Halts, TypeOK
<1>6. UNCHANGED vars => Still(n)
  BY DEF vars, boot, Still
<1> QED BY <1>1, <1>2, <1>3, <1>4, <1>5, <1>6 DEF Next

LEMMA BootAdvancesStep ==
    ASSUME TypeOK, [Next]_vars
    PROVE  BootAdvances
<1>1. ASSUME NEW n \in Nodes
      PROVE  /\ BootLeft(n)' <= BootLeft(n)
             /\ Boots(n) \/ Works(n) => BootLeft(n)' < BootLeft(n)
  <2> DEFINE m == MainLeft(main[n])
             r == ReadyLeft(ready[n])
             mm == MainLeft(main'[n])
             rr == ReadyLeft(ready'[n])
  <2>1. m \in Nat /\ r \in Nat
    BY LeftTypes
  <2>2. BootLeft(n) = m + r /\ BootLeft(n)' = mm + rr
    BY DEF BootLeft, MainLeft, ReadyLeft
  <2>3. Still(n) => mm = m /\ rr = r
    BY DEF Still
  <2>4. MainMoves(n) => mm \in Nat /\ mm < m /\ rr = r
    BY DEF MainMoves
  <2>5. ReadyMoves(n) => rr \in Nat /\ rr < r /\ (mm = m \/ mm = 0)
    BY MainValues DEF ReadyMoves
  <2>6. Halts(n) => m = 0 /\ mm = 0 /\ rr = r
    BY MainValues DEF Halts
  <2> HIDE DEF m, r, mm, rr
  <2>7. BootLeft(n)' <= BootLeft(n)
    BY <2>1, <2>2, <2>3, <2>4, <2>5, <2>6, NodeMoves
  <2>8. Boots(n) => MainMoves(n)
    BY BootsMoves
  <2>9. Works(n) => ReadyMoves(n)
    BY WorksMoves
  <2>10. Boots(n) \/ Works(n) => BootLeft(n)' < BootLeft(n)
    BY <2>1, <2>2, <2>4, <2>5, <2>8, <2>9
  <2> QED BY <2>7, <2>10
<1> QED BY <1>1 DEF BootAdvances

LEMMA FailedHaltsStep ==
    ASSUME TypeOK, FailedHalts, [Next]_vars
    PROVE  FailedHalts'
<1>1. ASSUME NEW n \in Meshed, ready'[n] = "failed" PROVE main'[n] = "halted"
  <2>1. n \in Nodes /\ (ready[n] = "failed" => main[n] = "halted")
    BY Disjoint DEF FailedHalts
  <2>2. Still(n) \/ MainMoves(n) \/ ReadyMoves(n) \/ Halts(n)
    BY <2>1, NodeMoves
  <2> QED BY <1>1, <2>1, <2>2 DEF Still, MainMoves, ReadyMoves, Halts
<1> QED BY <1>1 DEF FailedHalts

\* A node takes at most nine steps to start or to end, and can always take the
\* next one of bt_ready.
THEOREM StartsGoOn == Spec => []CallbackRuns /\ [][BootAdvances]_vars
<1>1. Init => FailedHalts
  BY Disjoint DEF Init, FailedHalts
<1>2. TypeOK /\ FailedHalts /\ [Next]_vars => FailedHalts'
  BY FailedHaltsStep
<1>3. ASSUME Inv, FailedHalts PROVE CallbackRuns
  <2>1. ASSUME NEW n \in Meshed, main[n] \in {"tag_model", "sleep", "loop"}, ready[n] # "done"
        PROVE  /\ Running(n, "bt_ready")
               /\ ready[n] \in {"no", "mesh", "provision", "app_key", "bind"}
    <3>1. TypeOK /\ NodeInv(n) /\ n \in Nodes /\ workq[n] \in Queues
      BY <1>3, Disjoint DEF Inv, TypeOK
    <3>2. workq[n] # <<>>
      BY <2>1, <3>1 DEF NodeInv, QueueOrdered
    <3>3. 1 \in 1..Len(workq[n]) /\ Head(workq[n]) = workq[n][1]
      BY <3>1, <3>2, Shortened
    <3>4. workq[n][1] = "bt_ready"
      BY <2>1, <3>1, <3>3 DEF NodeInv, QueueOrdered
    <3>5. ready[n] # "failed"
      BY <1>3, <2>1 DEF FailedHalts
    <3> QED BY <2>1, <3>1, <3>2, <3>3, <3>4, <3>5 DEF Running, TypeOK
  <2> QED BY <2>1 DEF CallbackRuns
<1>4. TypeOK /\ [Next]_vars => [BootAdvances]_vars
  BY BootAdvancesStep
<1> QED BY <1>1, <1>2, <1>3, <1>4, Invariance, TypeCorrect, PTL DEF Spec
=============================================================================
