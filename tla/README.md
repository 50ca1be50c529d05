# A verification project for hyperrtls-gateway

HyperRTLS is an indoor positioning system in three programs for Zephyr. A
**tag** measures its distance to fixed **anchors** by ultra-wideband ranging,
solves for its position and sends it over a Bluetooth mesh to a **gateway**,
which publishes it to an MQTT broker. This directory holds TLA+ models of the
programs, the TLC configurations that check them and TLAPS proofs about them.
Paths in the texts below are relative to the root of the repository.

## 1. The system

### Inventory

| Component | Source | State it keeps | Operations |
|---|---|---|---|
| tag main loop, positioning | `src/apps/tag/main.c`, `positioning.c`, `rtls/rtls.c` | `last_timestamp`, `anchor_indices`, `measurements`, `last_pos`, the heap | `perform_positioning`, selection, rounds of rangings, `rtls_find_position`, pacing, `send_location` |
| two-way ranging | `src/apps/tag/uwb/tag.c`, `src/apps/anchor/uwb/anchor.c`, `src/uwb/utils.c`, `src/apps/anchor/main.c` | program counter of each side, the transceiver: mode, status register, frame buffers, delayed times | `uwb_tag_twr_ss`, `uwb_anchor_twr_ss`, `wait_for_status`, `clear_status`, `send_frame_ack`/`_ff` |
| location path | `src/apps/tag/main.c`, `models_impl.c`, `src/apps/gw/main.c`, `models_impl.c` | `rtls_result_queue`, `locs_queue`, two work items, the mesh | `send_location`, both work handlers, `hrtls_model_tag_loc_push`, `loc_push_handler` |
| MQTT client | `src/apps/gw/mqtt.c`, `gai.c` | `wrapper` (library client, `running`, `evt_err`, the overriding handler, message ids), `wrapper_ext_access_mutex` | connect, subscribe, session, ping, disconnect, retry, `gw_mqtt_client_try_publishing` |
| UWB initialisation | `src/uwb/uwb.c` | `uwb_current_mode`, the SPI rate | `uwb_module_initialize` |
| DW1000 driver | `src/dw1000/decadriver/deca_device.c` | `dw1000local`: `wait4resp`, double buffering, sleep mode, copies of registers; the chip's registers, its clocks, its OTP, the memory that is kept while it sleeps | `dwt_starttx`, `dwt_rxenable`, `dwt_forcetrxoff`, `dwt_isr`, the sleep functions, the services that force clocks, the functions that share `SYS_CFG` and `TX_FCTRL`, the corrections over temperature |
| parameters and range tables | `src/dw1000/decadriver/deca_params_init.c`, `src/dw1000/platform/deca_range_tables.c` | constants | the lookups of `dwt_getrangebias`; those of `dwt_configure` (not modelled) |
| port | `src/dw1000/platform/` | the selected SPI configuration, the interrupt lock | SPI transfers, reset, sleep |
| boot and provisioning | `src/apps/{tag,gw}/mesh/mesh.c`, `src/apps/{tag,gw,anchor}/main.c` | `dev_uuid`, mesh keys, the node's address | `main`, `bt_ready`, `self_provision`, `prov_reset` |

### How they interact

* main thread of the tag → `uwb_tag_twr` → driver → SPI → chip; the answer of
  the anchor comes over the air, and the program learns of it by polling the
  status register.
* main thread of the tag → message queue and work item → system work queue →
  mesh → receive thread of the gateway → message queue and work item → system
  work queue → `gw_mqtt_client_try_publishing`.
* main thread of the gateway and its system work queue share `wrapper`, under
  a mutex and the flag `running`; the MQTT library calls back on whichever
  thread called it.
* main thread of tag and gateway → `bt_enable` → `bt_ready` on the system work
  queue, the queue on which the handler of locations runs later.
* a client of the driver → commands on its thread; the chip → interrupt →
  `dwt_isr` → the client's callbacks, which command the chip again. The programs
  of this repository poll and install no callback; the driver is written for
  clients that do, and is modelled for them.
* driver → `writetospi`/`readfromspi` → one SPI bus, shared by thread and routine.

### What is hard

Threads that share queues and the MQTT client; callbacks that come in the
middle of a call; a mesh that loses, repeats and reorders; frames without a
compared sequence number, told apart by timing; polling loops without a
timeout; a program that starts over after every kind of failure and has to
leave nothing behind; an interrupt routine that changes the registers and the
flags the thread is about to write; a chip that goes on by itself (wakes up,
falls asleep, acknowledges, turns its receiver on); a program whose start ends on
another thread than the one that goes on; resources (queue, heap, sockets,
message ids) at their limit. `PROJECT.json` lists these hazards line by line with the properties
that cover them.

### What makes each component correct

| Component | Correctness |
|---|---|
| tag main loop | a location stems from complete rounds of one positioning; anchors alternate; the pace neither exceeds nor stalls |
| ranging | a distance is computed from the answer to the present poll; nobody commands a busy chip; both sides always get on |
| location path | nothing is stranded in a queue; a tag's locations reach the broker in order, at most once |
| MQTT client | the publisher is in the library only during a session; its events do not reach the handlers of the main thread; a broken session is replaced; no socket is left behind but in known cases |
| initialisation | chip spoken to at the rate its clock allows; a mode is set only on a configured chip; local flags agree with the registers |
| driver, radio | frames reach the callback in order, once and whole; what the driver remembers of the chip is so; nothing is on or pending when the client was told that all has ended |
| driver, services | each unit is accessed with the clocks it needs, and what is on afterwards is exactly what the services leave on; each field of a shared register is as it was asked for last; a sleeping chip can be woken; a word of the OTP is verified as it will be read; corrections and times come out right at every limit |
| port | a value is read or written as a whole, at its place, whoever else uses the bus |
| boot | no push before the keys; all tags find a gateway; every program starts or stops |

## 2. Modules

| Module | Models |
|---|---|
| `OrderedDelivery` | abstract: what a subscriber may rely on |
| `LocationFlow` | the location path; implements `OrderedDelivery` |
| `Twr` | ranging between any number of tags and anchors, with transceivers and time |
| `TagLoop` | the tag's main thread |
| `MqttClient` | the gateway's two threads and the library's client |
| `Boot` | the start of the three programs and of the mesh |
| `Dw1000Init` | `dwt_initialise` against the chip; the part of the driver that `UwbInit` extends |
| `UwbInit` | `uwb_module_initialize`, with restarts of the host and wake-ups of the chip |
| `RxFifo` | abstract: what a client that receives through interrupts may rely on |
| `Dw1000Radio` | commands, interrupt routine and chip; implements `RxFifo` |
| `RegisterFile` | abstract: registers accessed as a whole |
| `Dw1000Registers` | headers, transfers, the chip's side of the bus; implements `RegisterFile` |
| `Dw1000Clocks` | the services that force clocks, OTP programming, against the interrupt routine |
| `Dw1000Sleep` | sleep, wake-up, low-power listening |
| `Dw1000Config` | the functions that share `SYS_CFG` and `TX_FCTRL`, and the driver's copies of them |
| `Dw1000Tables` | the tables of the range bias and how they are indexed |
| `Dw1000Calc` | range bias, bandwidth and power over temperature, timestamps; extends `Dw1000Tables` |
| `Dw1000Services` | `Dw1000Registers`, `Dw1000Clocks`, `Dw1000Sleep`, `Dw1000Config` and `Dw1000Calc` side by side; they share no state, and `focus` names the one that moves |
| `MC*` | instances for TLC: sets of values, symmetry |
| `*Proofs` | theorems of the module they extend |

Operators whose comment says *mutant* are plausible defects of a definition.
No specification uses them; with one of them in place of the definition the
property it is listed with in `PROJECT.json` fails, which shows that the
property depends on that piece of the code.

### LocationFlow

A stage is a tag or the gateway. Each has a `queue` (`K_MSGQ_DEFINE`), a work
item with `queued` and the place of its `handler`, and the location in the
handler's `hand`. `SendLocation` and `LocPushHandler` are the puts of the two
producers, `Submit` their second call: the two are separate steps, as is every
`k_msgq_get` of a handler, because the other thread may run in between.
`LocPush`/`LocPushFails` are the two results of `bt_mesh_model_send`, which the
handler treats alike. The mesh is a set of messages that are delivered any
number of times or lost, filtered by the sequence number check of the mesh
stack's replay protection. `Publish` and `PublishFails` are the results of
`gw_mqtt_client_try_publishing`; `ClientRuns` reduces the client to the flag.
A location is its tag and rank. The code sends neither; they are there to
state the properties.

Left out: coordinates and their conversion to millimetres and text, the topic.

### Twr

Each device has a program counter and a transceiver, `chip`. `StartExchange`
is `uwb_tag_twr_ss` up to the transmission of the poll: nothing before the
transmission can be observed by others, and with `DWT_RESPONSE_EXPECTED` the
chip goes to `wait4resp` by itself. `FinishExchange` is the rest, from the end
of `wait_for_status`; `Accepts` says that it takes the frame for a response.
The anchor's steps are those between which time matters: enabling the receiver,
seeing the poll, programming the delayed response (or being too late for it),
seeing it leave, and the cleanup. A program may be arbitrarily slow; the chips
keep time. `Transmit` and `StartExchange` choose the set of receivers that get
the frame, which covers loss; errors, collisions and frames of strangers are
`ReceiveError` and `ReceiveStray`.

What the model relies on of the chip: a receiver without a delay starts at
once; the delayed receiver and a timeout fire on time; frames for other
addresses are rejected by the filter set in `src/uwb/uwb.c:71`; a delayed
transmission whose time has passed is reported (`SYS_STATUS_TXERR`).

Left out: the timestamps and the distance; the double-sided mode, which the
code does not implement (`assert(false)`).

### TagLoop

The loop of `main` with `perform_positioning` spelled out: `Select` chooses the
order of anchors, `Range`/`RangeFails` are the results of `uwb_tag_twr`,
`Advance` the two loops, `Solve` the two results of `rtls_find_position`,
`Send` the hand-over to the location path, `Pace` and `Wake` the pacing.
The 2 ms pause after a ranging is part of the time that passes between any
two steps. The nearest anchors for an arbitrary last position may come in any
order. `Select` takes a heap block that nothing gives back
(`src/apps/tag/rtls/rtls.c:63`). When there is none, the four indices are what
the stack holds: any anchors, equal ones too, or `Garbage` for an index beyond
the table.

### MqttClient

The main thread goes through `run_cycle`: one action for each call whose
effect the publisher or the library's callback can see. The library's client
is `idle`, `tcp` (connected, no CONNACK yet) or `connected`. `mqtt_input` is
`ReadNothing`, `ReadPart`, `ReadPacket` or `ReadFails`; an event is delivered by
`Callback` on the main thread or `PublishCallback` on the work queue.
`RefusedCallback` is a CONNACK with a refusal, after which the library drops
the connection and reports that as well. A CONNECT that `mqtt_connect` fails
to write ends in a callback within the call. The mutex hands over to a waiting
thread. `HasTopics` distinguishes the gateway as built, with an empty topic
list, from a client with topics. (`assert(config->topics_len > 0)` in
`gw_mqtt_client_run` contradicts the empty list in `src/apps/gw/main.c:83`. Such
assertions are not compiled in: `assert(wrapper)` in `init_mqtt_client`
applies `!` to a struct.)

What the model relies on of the library, Zephyr's: `mqtt_input` returns 0
for an incomplete packet, `mqtt_disconnect` refuses unless connected,
`mqtt_abort` closes any open socket, a failed write or read disconnects and
notifies, and the library's own mutex is released during callbacks.

### Dw1000Init and UwbInit

`chip` is what the configuration of the DW1000 amounts to: power, the PLL and
the clock settings, the sequencing, `SYS_CFG`, the registers that
`dwt_configure` writes besides, addresses, microcode, LDO tune and crystal
trim. `local` is `dw1000local`. `Dw1000Init` holds one action for each transfer,
or group of transfers, of `dwt_initialise` after which the chip is in another
state; `UwbInit` holds the caller: `PullReset`, `ReleaseReset` and `SlowRate` are
`try_initalizing`, `Attempted` is the loop around it, the rest the
configuration that follows. `EnableClocks` is `_dwt_enableclocks` with the three of its
settings that are used here.

`Restart` is a restart of the host at any moment, a watchdog, a fault or the
reset button: its memory is initialised anew, the reset pin is released,
and the chip keeps what it had. `Woken` is the other caller of
`dwt_initialise`, an application that is not part of the repository, for which
the driver has its `WAKE_UP` flags: the chip slept and reloaded its
registers while the host lost its memory.

What the model relies on of the chip: a reset sets every register to its
default; a chip on its crystal, not yet started, does not answer
with its identity; the PLL locks in the millisecond `dwt_softreset` sleeps; a
word of the OTP read on another clock than the crystal may be anything, as the
driver's comment says; the microcode loads only with its clock on.

Left out: the values of the radio's parameters (constants, with nothing in the
repository to compare them with), the polling of `device_is_ready`, the callbacks, which nobody sets.

### Dw1000Radio

The client's thread is at most in one call: `thread.pc` is the next transfer of
`dwt_starttx`, `dwt_rxenable` or `dwt_forcetrxoff` after which the routine
could see another state, and `thread.mask` the copy of the interrupt mask that
`dwt_forcetrxoff` reads before it locks. `isr.pc` does the same for `dwt_isr`:
one action for each of its branches and callbacks, with the status read first
(`isr.st`) and the frame whose header was read. `chip` is the transceiver: its
mode, `WAIT4RESP` while that can still have an effect, the two buffers with
their flags and pointers `ic` and `hs`. `status` is `SYS_STATUS` by groups of
bits. `wait4resp` and `dblbuffon` are those of `dw1000local`.

`Chip` is what the chip does by itself: a transmission ends and turns the
receiver on when a response is awaited; a frame arrives, in double buffering into
the buffer `ic`; a reception fails or times out; an acknowledgement ends, after
which the chip turns its receiver on although nobody asked for that
(mode `wrong`, the erratum for which `dwt_isr` has its workaround at
`deca_device.c:2447`).

What the model relies on of the client, from the driver's comments: it gives no
command while another is under way, changes the buffering only when everything
is off, and enables the receiver from a callback without synchronising the
pointers when both buffers are in use. `busy` is the command it awaits the end
of. The client masks the timeouts at times (`SetInterrupt`); `EventsServed`
speaks of the other events, which are masked only inside `dwt_forcetrxoff`.
Of the chip it relies on this: the receiver that is on by mistake completes no
frame, because the routine gets from reading the status to the workaround
(`deca_device.c:2447-2450`) in less than the time of a frame.

### Dw1000Registers

A transfer is a list of bytes: `Header` and the body. `Call` composes it, `Begin`
takes the lock (`decamutexon` of the port), `Shift` moves one byte, which the
chip decodes (`Decoded`) or stores, `End` releases the chip select. The
refinement maps a transfer to an access at the moment it begins; `StoreOf` is
the memory with the transfer in progress applied. A sub-index of 128 and more
takes two bytes in the header.

### Dw1000Clocks

A service is a list of steps, each one transfer, and runs on the thread;
`Interrupt` starts the routine's `dwt_rxreset`, or a callback that reads the
accumulator, between any two of them. `get`, `low` and `high` are the read and
the two byte-wise writes of `_dwt_enableclocks`; `use` is the access the clocks
were changed for. `otp` is one word of the OTP with the mode registers: a
programming may leave it weak, and a weak word reads right with one margin and
wrong with another.

`steady` is what the services that have returned leave on, each taken by itself
(`Leaves`), and not every service leaves what it found. `ENABLE_ALL_SEQ` clears one
bit of the second byte (`deca_device.c:2649`), so the clock of the OTP stays on
after `dwt_loadopsettabfromotp`; nothing switches off the crystal that
`dwt_otpwriteandverify` forces (`:1801-1843`); and `dwt_rxreset` writes the whole
fourth byte (`:3219-3226`) and with it clears the `PLL2_SEQ_EN` that
`dwt_setsniffmode` set (`:2894-2896`), on the first reception that fails.
`ClocksGivenBack` compares the register with `steady` exactly, but for that one bit,
which a register read before the reset of the receiver may bring back.

What the model relies on: the client does not read the accumulator on the
thread while receiving, and after a test mode it calls only `dwt_softreset`.

### Dw1000Sleep

`hif` is what the driver wrote into the registers, `aon` what was uploaded into
the part of the chip that stays powered; `todo` is the list of writes of the
function that runs. `PMSC_CTRL1` is shared by `dwt_entersleepaftertx`,
`dwt_setlowpowerlistening` and the routine of low-power listening: each reads it
and changes its own bits (`Switch`), so a client may listen and have the chip
sleep after its transmissions, and the routine keeps `ATXSLP`. The chip may fall
asleep after a frame or between two phases of listening, also in the middle of a
function, and then takes no more writes. The client follows the notes in the
driver's header: it calibrates the counter before it sets it and sets it before it
configures sleep.

What the model relies on of the client: its thread writes `PMSC_CTRL1` only when
it does not listen (the read and the write would have the routine between
them), and no transmission of its own ends while one of these functions runs.

### Dw1000Config

`sysCfg` and `txFctrl` are the registers, `local` the copies in `dw1000local`,
`asked` what the client asked for by field. The functions differ in where they
start: `EnableFrameFilter` and `SetSmartTxPower` read the register; `Configure`,
`EnableAutoAck` and `SetDblRxBuffMode` start from the copy `sysCFGreg`;
`SetRxTimeout` writes one byte of the register and changes the copy for itself.
All of them write the fields of the others back. `WriteTxFctrl` ORs the length of
a frame to the copy that `Configure` made. `Initialise` resets the chip and reads
the copies; `InitialiseAfterWakeUp` (`DWT_DW_WAKE_UP`) finds registers that a sleep
kept; `InitialiseFails` is a chip that does not answer.

Initialised after a wake-up the driver knows less than the chip, in two ways
that `RegistersAsAsked` names and does not hide. `dblbuffon` is taken to be off
(`deca_device.c:178`) while lines 320-321 read the register that says otherwise: until
`dwt_setdblrxbuffmode` is called again the routine does not toggle the buffers
(`asked.woken` in its part `RoutineKnows`). And line 323 copies `TX_FCTRL` with the length
of the last frame, which `dwt_writetxfctrl` ORs to the length of every frame
until `dwt_configure` is called (`asked.left` in `FrameAsAsked`). The programs of
this repository do neither: they reset the chip and configure it.

### Dw1000Tables and Dw1000Calc

The four tables of the range bias have the values of the code. In `Dw1000Calc` every computation with a
loop is an action per iteration (`Look`, `Test`, `LowerAttenuation`,
`RaiseAttenuation`), so that what holds at its end can be told from what holds
on the way. `Exchange` computes the two intervals of a ranging as
`uwb_anchor_twr_ss` and `uwb_tag_twr_ss` do: the anchor truncates the time
to the steps in which a transmission can be delayed and both sides subtract
numbers of four digits of a counter with five. The base of a digit, 256 in
the code, is a parameter.

### Boot

`main` is where the main thread of a node is, `workq` the items of its system
work queue, `ready` the next call of `bt_ready` that can fail. `bt_enable` only
submits `bt_ready`, so that main goes on beside it. `Provision`, `AddAppKey` and
`Bind` are `self_provision`; the two copies of that function differ in that
a gateway goes on without its application key (`gw/mesh/mesh.c:99`).
`NodeReset` and `ProvisionByOther` are the mesh's. `InitializeUwb`,
`GetDeviceId` and `MeshInitialized` are the calls of main before its loop, with
their failures; `hrtls_fail` halts the node (`Fail`). A node without a device id
takes the fallback of its program; of an id the model has the two bytes of which
the address is made.

## 3. Runs

| Run | Question |
|---|---|
| `location` | wake-ups, the refinement of `OrderedDelivery` and draining queues, with a full queue, losses and repetitions |
| `twr` | own responses, idle chips; exchanges end and anchors return to listening |
| `mqtt` | gate, callbacks, ids, sockets; a broken session is replaced, the publisher returns |
| `mqtt_assert` | **violation**: an event after a failed one |
| `tag_loop` | complete measurements and pace; a positioning ends |
| `tag_loop_leak` | **violation**: an anchor polled twice in a row |
| `uwb_init` | bus rate, OTP, sleep mode, with restarts and wake-ups; the initialisation ends |
| `uwb_wakeup_otp` | **violation**: a word of the OTP read on the PLL |
| `radio` | the refinement of `RxFifo`, the receiver that nobody asked for, forcing off against the routine; events are served |
| `driver_services` | the refinement of `RegisterFile`; clocks; OTP; sleep; shared registers; the computations |
| `driver_txpower` | **violation**: the attenuation wraps around |
| `boot` | pushes and keys, default addresses; every program starts or stops |

Four runs show disagreements of the code with itself.

* `tag_loop_leak`. `positioning.c:55` says that the order of iteration keeps
  tags from being overwhelmed by being "pinged in a row". `rtls.c:63` leaks an
  array in each positioning; when `malloc` fails `positioning.c:53` ignores it,
  the order is uninitialised and one anchor may be polled twice in a row.
* `mqtt_assert`. `mqtt.c:120` asserts that no event comes after one that
  failed. A refused CONNACK is one event, and the disconnection that follows
  it within the same `mqtt_input` another.
* `uwb_wakeup_otp`. `deca_device.c:204` says that the crystal is necessary for
  reliable reads of the OTP, and that "when not reading from OTP, clocks don't
  need to change". The condition at line 202 is the other way round for a chip
  that woke up: it leaves the clocks alone when the OTP is read, and forces
  the crystal when it is not. The two programs of this repository never pass
  `WAKE_UP`, and for them `OtpReliable` holds.
* `driver_txpower`. The comments at `deca_device.c:3755-3757` and `:3767-3769` say
  that the attenuation "has reached the max value" and is restored. What
  is compared with the limit is the change of the attenuation, which starts at
  0, not the attenuation with its change. For the byte 0x01 and a large
  correction the sum leaves 0..7 and is masked: the transmitter ends at the
  other end of its range. `PowerKept` says, of the byte that is written, what remains
  true: whenever some byte with a best gain has the power asked for, the new byte
  has that power and a best gain, and nothing is changed when nothing was asked.

`SocketsLeft` states precisely which sockets a cycle leaves open: that of a
subscription that failed (`mqtt.c:278` returns without an abort), and that of
a session for which the CONNACK never came in full.

### Bounds

| Bound | Value | Why it is enough |
|---|---|---|
| `Tags`, `QueueLen`, `MaxLocs` in `LocationFlow` | 1, 2 (code: 3), 3 | more locations than the queue holds: dropped, queued, in hand and in the air at once. Two tags are too large together with liveness; order and refinement are proved for any number of tags and any length |
| `Tags`, `Anchors`, `MaxExchanges` in `Twr` | 1, 1, 2 | the answer to an old poll can meet the present one. Any number is proved |
| delays in `Twr` | 2, 1, 3, 4 | keep the order of 940, 210, 1130 µs and the poll timeout, and of the two sums the assumptions name |
| `HasTopics`, `MidMod` in `MqttClient` | TRUE, 3 | with topics the client goes through every call; ids wrap several times. The gateway as built has no topics: `mqtt_assert`, and the proofs, which are for both |
| `Anchors`, `Slots`, `Repetitions` in `TagLoop` | 3, 2, 3 | more anchors than are selected; first, middle and last round. `tag_loop_leak`: 4, 4, 2, as four distances solve for a position |
| `HeapBlocks`, `Period`, `MaxTime` | 2, 2, 9 | two good selections and at least one failed one, periods kept and missed |
| `Timeout` in `UwbInit` | 2 (code: 2000 ms) | attempts that fail and are repeated, and one after which the time is up. The proof is for any |
| `MaxRestarts` | 2 | a restart during the attempt after a restart |
| `WakeConfigs` | with and without microcode; asking for the OTP | the flags of a wake-up that matter |
| `MaxFrames` in `Dw1000Radio` | 3 | both buffers full and a third frame after one was read |
| files, sub-indices in `Dw1000Registers` | 5 and 63; 0, 1, 127, 128, 300 | headers of one, two and three bytes, a value that crosses the limit of 127, values that overlap |
| `Tries` in `Dw1000Clocks` | 2 (code: 10) | a word that fails, one that is right at the last try |
| `Counts` in `Dw1000Sleep` | 1 and 2 | an old and a new time |
| `PhyModes`, `SlowModes` in `Dw1000Config` | two, one of them slow | `RXM110K` is switched both ways |
| `Masks`, `Frames` | none, one and two types; lengths {2} and {0, 3} as sets of bits | a filter that is widened, narrowed and switched off; two lengths whose OR is neither |
| `Quarters`, `Bytes`, `Deltas` in `Dw1000Calc` | −2..258, all, −255 to 255 | below, in and above every row; every power byte; corrections in both directions beyond every limit |
| `Counts`, `Targets` in `Dw1000Calc` | three falling curves, 16 targets | targets above, in and below the curve, in a gap, and at the largest difference |
| `Base`, `ReplyDelay`, `AntennaDelay`, `Times` | 4, 35, 9, 1003..1040 | the counter wraps at 1024 and a truncated timestamp at 256, for either end at another moment |
| nodes and `Ids` in `Boot` | one of each kind; 00 01 and 12 01 | an id that gives the gateway's address and one that does not. Any is proved |

Deadlock is checked but where the system may stop: in `location` all
measurements are made and delivered in the end; in `mqtt` the gateway halts
when `do_subscribe` finds no memory; in the two runs of `TagLoop` a behaviour
ends when the thread sleeps beyond `MaxTime`; in those of `UwbInit` the
initialisation ends; in `boot` nodes halt. Symmetry, of the anchors, is used in
`tag_loop_leak` only, which checks no liveness.

### Fairness

* `LocationFlow`: the producer finishes its pair of calls and the work queue
  thread runs; both are threads of a scheduler that starves none. No fairness
  for measurements, the mesh, or the client.
* `Twr`: the programs run, time goes on, timeouts and delayed starts fire.
  None for the reception of frames: an exchange ends even if nothing arrives.
* `TagLoop`: the thread runs, and so does the clock.
* `MqttClient`: both threads run. Weak fairness of the main thread's steps
  includes that a poll returns, which the keepalive bounds, and that the
  library's calls return. None for publishing.
* `UwbInit`: the thread runs and time goes on. None for the chip, which may
  never start.
* `Dw1000Radio`: the processor takes interrupts and finishes the routine, and
  the thread finishes a call it began. None for the chip or for new calls.
* `Boot`: the main thread and the work queue thread of every node run. None for
  the mesh, or for measurements.

## 4. Proofs

All theorems are proved for every value of the constants that satisfies the
named assumptions, with behaviours of any length.

* `LocationFlowProofs`. `PathOrdered` is the inductive invariant: seen from
  the broker, a tag's locations grow through published, the gateway's hand and
  queue, acceptable messages in the air, the tag's hand and queue, to those not
  measured yet. Order at the broker alone is not inductive: it says nothing of
  the locations that come next. From `PathOrdered` follow `PublicationsInOrder`
  and `DeliveryInOrder`, the refinement: each step is a measurement, a
  delivery of a location newer than those before, or a stutter. `Wakeups` is
  inductive with the types.
* `TwrProofs`. `TimedExchanges` bounds the time left until each answer against
  the time left until the tag's receiver comes on: an answer to an old exchange
  falls into the delay `RxOn` of the next one, given `Reply < 2 * RxOn`
  (`TwrSeparation`; 1130 < 1880 in the code). `OwnResponse` and `IdleAtCommand`
  follow. A longer reply delay or a shorter receiver delay would break
  the assumption, and then nothing in the frames would tell an old answer from a
  new one.
* `MqttClientProofs`. `Gate` relates the holder of the mutex, the place of each
  thread, `running` and the client. `running` alone does not protect the
  client; that the main thread changes it only under the mutex, and that a
  publisher that passed the check still holds it, does.
* `TagLoopProofs`. `LoopInvariant`: the sums of a round are those of the slots
  before the present one, a selection takes a block, `last_timestamp` runs
  ahead of the number of periods and never more than a period ahead of the
  clock of a thread that is awake. From it `Complete`, `Pacing` and, with one
  more inductive step, `Alternation`.
* `UwbInitProofs`. `InitInvariant` says what the chip is at every place of the
  thread (`Staged`, and `StagedAwake` after a wake-up), what the driver
  remembers of it (`Remembered`) and what the module has announced
  (`Announced`). The properties speak of the end, where the mode is set;
  the invariant is needed because each register gets its value at another
  place, and most get it from the reset. It holds for any number of attempts
  and restarts. `OtpHolds` needs a hypothesis on the flags of a wake-up, the one
  the violation run breaks.

* `BootProofs`. The invariant says that `bt_ready` is the first item of the
  work queue until it is done, and the only one of its kind (`QueueOrdered`),
  that pushes are queued by main's loop only (`Pushed`), that a node
  that provisioned itself has the address of its id (`Addressed`), and which keys
  a tag has before each call of `bt_ready` (`Keyed`). `PushesWhenReady` itself
  speaks only of the moment a push runs; what makes it true is the order of
  the queue before. `DefaultsMeet` follows from `Addressed` by arithmetic.
* `Dw1000RadioProofs`. The invariant has a part for each of the parties that
  move on their own. `ThreadInv` and `LateInv` say what a command has done to the
  chip at each of its transfers, `ModeInv` what the driver's `wait4resp` says
  about the chip's `WAIT4RESP` and when the receiver can be on by mistake,
  `StatusInv` which events the status can hold in which mode, `BufferInv` what the
  two buffers, their flags and the pointers say about each other, `SnapshotInv`
  that the status the routine read is still true where it acts on it, and
  `RoutineInv` which branch can follow which. `WaitKnown`, `WrongReceiverEnds`,
  `EndedTxKnown` and `RestIsOff` follow. The refinement of `RxFifo` has a step
  for each action: the routine's reading of a frame takes it, the
  switching of buffers is a stutter, and only turning the transceiver off clears
  the queue. All of it for any number of frames; the run has three.
* `Dw1000ServicesProofs`, about the services side by side, of which one moves:
  `ServicesSpec` implies the specification of each.
  * Computations. `PowerInv`: the loop goes one way only, for after a step in
    one direction the gain is too far from the other limit (`OneWay`), and
    attenuation and gain are changed in balance (`Balanced`); it ends with one of
    the best gains, or with one too low after the last step up (`Ended`).
    `PowerKept` follows: where some byte has the power asked for with a best
    gain, neither field of the new byte is cut by its mask. `BiasInv`: the
    rows passed so far are smaller than what is looked up, and as each of the
    tables, proved row by row, ends in 255 the loops that have no bound end.
    `SearchInv`: what the eight tests of the bandwidth have ruled out; that the
    nearest count is found needs that the count of pulses falls with the value
    of the register (`CountsFall`), which is how a pulse generator works and
    what the code relies on. `TimesAgree` is proved for counters of any width `Base`^5, any start and any
    time of flight for which an exchange is shorter than a truncated
    timestamp (`ExchangesFit`; 2^32 ticks are 67 ms and an exchange takes one).
  * Sleep. `SleepInv` has a part for each function of the driver (`Counting`,
    `Calibrating`, `Configuring`, `Switching`, `Entering`, `Serving`) that says
    what it has written and uploaded at each step; `Armed` and `Counted` carry to
    the moment the chip falls asleep what the client asked for. Each of the parts
    also says which bits of `PMSC_CTRL1` its own switch has changed so far and that
    the others are as the client asked for them.
  * Shared registers. `ConfigInv` adds to the parts of `RegistersAsAsked` that the copy of
    `SYS_CFG` is the register while the driver may be used, and that the copy of
    `TX_FCTRL` has the configured mode and no length but one left at a wake-up
    (`CopiesAgree`). The parts alone are not inductive: half of the functions
    write the register from the copy, whatever it holds. For any set of modes,
    filters and lengths.
  * Clocks. `ClocksInv` follows thread and routine through their programs:
    `On`, `InSequence` and `Forces` are tables of what a service has switched
    on when it comes to its k-th step, `Informed` says that what was read of
    the register is still so in the bits the service will write back, and
    `Received` the same of the routine. The reason that neither destroys
    the other's clocks is that the thread forces `Driven`, the routine
    `Receiving`, both run their own pair of read and write through the byte of
    the other, and the routine, which runs to its end, leaves what it found.
    What is on before a service is not fixed: it is any set of the clocks that
    earlier ones leave on (`Bases`), and `StaysOn` is carried through each program
    to what the service leaves on itself. `Attempts` counts what was tried on a
    word of the OTP, for any `Tries`.
    `RightClock`, `ClocksGivenBack` and `OtpVerified` follow.
  * Registers. `RegistersInv`: at most one caller is in a transfer, and it has the
    lock; when k of its bytes are shifted, the chip has decoded as much of the
    header (`ChipAt`), the rest of the bytes are still to come, and those of the
    body are at their places (`Written`, `Taken`). `HeaderDecodes` shows for every
    file and every index up to 2^15 that the chip finds the place the header
    was composed for. `ValuesAreWhole` is the refinement of `RegisterFile`, for any
    callers, files and requests: `Begin` is the access, for the store is seen with
    the value in progress already in it (`StoreOf`), and shifts change nothing
    of that (`WriteByte`, `ReadByte`); without the lock they would. The refinement
    only needs that both sides take `ValueOf` of the same bytes; `WrittenIsRead`
    adds that this is the value written.

Some theorems state invariants that no run checks any more, because a
property of a run implies what a reader wants of them: the types, `PathOrdered`,
`PublishedInOrder`, `TimedExchanges`, `Gate`, `LoopInvariant`,
`AlternatesInMemory` and `SleepBound`, `InitInvariant`, `ModeMeansConfigured`.

Liveness itself is model-checked only, for the prover has no rule for fairness or
`ENABLED`. The other half of the argument is safety, and of eight of the nine
properties it is proved: a rank that is bounded, that every step of the thread in
question lowers and that nobody else raises. TLC then answers for small instances
what is left, that a thread with fairness which is not done can take a step.

| property | theorem | rank |
|---|---|---|
| `PositioningEnds` | `TagLoopProofs!Progress` | at most `Repetitions * Slots + 4` steps of the loop until it sleeps; the clock does not put it off |
| `InitialisationEnds` | `UwbInitProofs!Progress` | attempts left times places of the program: at most 22 (`Timeout` + 1) + 21 steps, whatever the chip answers; only a restart of the host begins again |
| `ExchangeEnds` | `TwrProofs!ExchangesRunOut` | at most `RxOn + RxTimeout` ticks while the transceiver of the tag is busy |
| `AnchorReturns` | `TwrProofs!AnchorsGoOn` | at most four steps of the program until the receiver is on again; at most `PollTimeout` or `Reply` ticks while it waits for the transceiver, and the event it waits for has come or will |
| `QueueDrains` | `LocationFlowProofs!QueuesEmpty` | at most 2 `QueueLen` + 2 steps of the stage until a location is taken; what is put behind it does not put it off |
| `BootEnds` | `BootProofs!StartsGoOn` | at most nine steps of the two threads; until `bt_ready` is done it is the item the work queue runs, or the node has halted |
| `BrokenSessionEnds` | `MqttClientProofs!Recovery` | at most twelve steps of the main thread until it connects again; the publisher takes none of them back |
| `PublishReturns` | `MqttClientProofs!Publishing` | at most six steps: three of the main thread while it keeps the mutex, then three of the publisher |

That the publisher gets the mutex needs an invariant of its own (`EndsQuietly`): a
session that ends with the mutex taken calls back once, and only a refused
connection calls back twice. That a queue's item will run is `NoLostWakeup`. For
`EventsServed` no rank is proved: what the routine has left to do depends on the
events that arrive while it runs. The three refinements, of `OrderedDelivery`, `RxFifo` and `RegisterFile`, are
proved.

## 5. Not modelled

* The numerics of `rtls_find_position`, a 4×4 inverse in floating point, and
  the conversion of coordinates to 16 bit millimetres (`tag/main.c:37`): values
  without a sequence of steps.
* The topic of a location. The gateway publishes all of them under that of
  `tag_1` (`gw/main.c:34`) and drops the sender's address; a subscriber cannot tell
  tags apart. A fact of one line, which a model would only restate.
* The moment at which a write to a dead broker fails (`mqtt.c:297`): that of the
  TCP stack.
* In the driver: functions that write one register and change nothing else
  (antenna delays, addresses, GPIO), readers of timestamps and diagnostics,
  `dwt_readdiagnostics` and the event counters. `deca_regs.h` and the other headers
  are declarations. Logging.
* The services of the driver against each other: `Dw1000Radio`, `Dw1000Clocks` and
  `Dw1000Sleep` each have the routine as far as it concerns them, and
  `Dw1000Config` has the functions of `SYS_CFG` one after the other, for the driver
  has no lock for them and its client one thread. A client that listens with
  low power and programs the OTP at once is outside the driver's documentation.
* The tables of `deca_params_init.c`, from which `dwt_configure` picks the values of
  its registers: constants, to which the repository has nothing to compare.
* The composition of `LocationFlow` with `MqttClient`, and of `Twr` with
  `Dw1000Radio`: the location path uses of the client one flag, for any value of
  which at any time its properties hold, and the ranging polls, with no routine
  installed.
