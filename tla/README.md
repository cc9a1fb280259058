# esp-csi-rs in TLA+

A model of the control logic of `esp-csi-rs`, the crate that collects Channel
State Information (CSI) on ESP32 devices. The modules follow the Rust source
(`src/lib` of the repository) function by function; `PROJECT.json` maps every
definition to the lines it stands for. TLC checks small instances, TLAPS
proves the most important invariants for all values of the constants.

    tlc -workers 2 -config MCCsiDelivery.cfg MCCsiDelivery
    tlapm CsiDelivery_proofs.tla

## 1. The system

A *node* is configured for one mode (Wi-Fi sniffer, station or access point,
ESP-NOW initiator or responder, ESP-NOW simplex source or peer, raw emitter)
and *run*. While it runs, a set of futures, joined in one task of the Embassy
executor, produces traffic that sounds the channel; the radio driver's Wi-Fi
task calls back into the crate for every received frame with a measurement,
which is filtered, subjected to the reporting policy and *delivered*.

| Component | State | Operations | Interacts through |
|---|---|---|---|
| CSI delivery (`csi/delivery.rs`, `csi/source.rs`) | nine process-wide atomics: intent, reports, output, the cached gate, logging, local-only, mode, two callback pointers | the public setters, `set_reporting`, `reset`, `capture_csi_info`, `emit`, `deliver` | atomics shared by the executor's tasks and the Wi-Fi task; user callbacks run inside the Wi-Fi task |
| Async queue (`csi/delivery.rs`) | ring of 32 packets, waker slot, overflow policy, drop counters | `deliver` in mode Async, `next_csi_packet`, `set_csi_queue_overflow` | lock-free ring and waker between the Wi-Fi task (and `emit`) and one consumer task |
| ESP-NOW link (`initiator/esp_now.rs`, `responder/esp_now.rs`, `esp_now_pool.rs`) | initiator: sounding number, known peers; responder: lock, owed reply, streak, last number; a static pool of 16 received frames | sounding, reply, pairing, takeover of reporting, miss counting | frames over the air; the driver's callback fills the pool |
| Run lifecycle (`node.rs`) | `STOP_SIGNAL`, the joined futures, the reset at the end | `run`, `run_duration`, `send_stop` | every future selects on the one-valued stop signal |
| Station (`wifi/sta.rs`) | association, DHCP lease, `DHCP_CLIENT_INFO`, flood target | connect with recovery, reconnect, DHCP client, ICMP flood | radio driver, embassy-net, the static signal |
| Access point (`wifi/ap.rs`, floods in `wifi/sta.rs`) | DHCP client table, `ACTIVE_LEASES`, flood targets and turn | DHCP server, station monitor, gathering, round-robin and burst floods | UDP socket, the static registry |
| ESP-NOW simplex, raw emitter | pacing state | one-directional floods | air |
| Reporting policy (`csi/policy.rs`, `csi/delivery.rs`) | `POLICY_*` atomics, hold window, decimation count, layout of the last buffer | `set_reporting`, `policy_admits` | stored by the executor, read and ticked by the Wi-Fi callback and `emit` |
| Session (`csi/session.rs`) | session id, wall-time anchor, pending announcement, stream number, widened timestamp | `set_session`, `begin_run`, `take_announcement`, `next_envelope`, `widen_timestamp` | stored by the executor, consumed by the callback for each packet |
| Statistics (`stats.rs`) | table of transmitters behind a lock, counters, a resynchronisation flag | `record_tx_frame`, `stats_begin_run`, output switches | written by the callback, reset by the executor |
| Logging (`logging/logging.rs`) | format, header flag, a CSI and a message channel | `set_log_mode`, `log_csi`, `log_ln!`, `log_line`, `logger_backend` | inline in the callback, or through the channels to one task; one link to the host |
| Wire format (`wire/`, `csi/esp.rs`) | none | classification of buffers, metadata, header digest, setups in both directions | called per frame and per setup |
| Setup (`node.rs`, `measurement.rs`, `config/csi.rs`) | the node's mode and setup, the attribution filters | `apply_measurement_setup`, the setters | process-wide filters read by the callback; flags packed into the radio |
| Radio bring-up (`node.rs`, `radio.rs`, `profile.rs`, `protocol.rs`, `emitter/`) | the controller: mode, protocols, band, channel, CSI registration | the steps of `run_inner` before a run's task | a controller that outlives every run |

What is hard here, and hardly testable on hardware:

- **Interleaving.** The Wi-Fi task preempts the executor between any two
  atomic accesses, and on the two-core chips both run at once. The gate is a
  *cached* conjunction of three atomics; the dispatch reads mode, pointer and
  flags one by one.
- **One-valued signals.** `STOP_SIGNAL` and `DHCP_CLIENT_INFO` hold one value
  and the first waiter takes it; up to nine futures have to be reached.
- **State that outlives a run.** Gate, queue, pool, registry, DHCP info and
  the radio's CSI configuration are statics or hardware state; a run starts
  with whatever the last one left.
- **State kept from frame to frame.** Timestamps, stream numbers, hold
  windows, decimation and per-transmitter gaps are read and written access by
  access in the callback, while the executor restarts or reconfigures them.
- **An unreliable air.** Soundings, replies and acknowledgements are lost,
  peers restart, numbers repeat and wrap, stations retry DHCP and leave
  without a word.
- **Limits.** The ring, the pool, the peer table, the registry, the DHCP
  socket and the transmit buffer all overflow in normal operation.

`PROJECT.json` lists the hazards line by line with the property that covers
each, or the reason why none does yet.

## 2. Modules

### CsiDelivery: the delivery state machine

`mem` holds the atomics, `pc[t]` the next access of thread `t`, where "app" is
the executor (whose tasks do not preempt each other and never await between
the stores modelled) and "wifi" the driver's task. **One step is one atomic
access**, so `set_csi_callback` is a store of the pointer, of the mode, of the
intent, three loads and the store of the gate. `Parallel` chooses between free
interleaving (two cores) and preemption by the Wi-Fi task, which runs to
completion (one core). A user callback may make API calls itself
(`CallbackCalls`), inside `deliver`, those that move an input of the gate too;
its recomputation of the gate may then overlap one of the executor. Attribution
filter, policy and packet build are one choice, a frame that is rejected.
Histories (`fate`, `calm`, `rep`, `window`, `torn`) record where a frame ended,
whether an API call overlapped it, which reportings were in force while it was
processed, and whether the last recomputation of the gate was overlapped.

### CsiQueue and LossyFifo: the async queue

`CsiQueue` has `deliver`'s Async branch per producer (enqueue; on a full ring
count, read the policy, evict, retry; wake) and `next_csi_packet` as polls
(dequeue, register the waker, dequeue, park), including futures dropped
between polls, as `csi_data_collection`'s time limit does. The ring and the
waker are external (heapless, embassy): one operation is one step. `LossyFifo`
is what the queue promises its consumer, without slots, wakers and polls;
`CsiQueue` implements it under `waiting <- queue, discarded <- evicted,
asking <- cpc # "working"`.

### EspNowLink: initiator, responder, pool

Nodes are run, stopped, run again with another configuration, and lose power.
A transmission's outcome says which radios took the frame and whether the
sender was told: broadcasts are not acknowledged, and a unicast frame may be
taken and its acknowledgement lost, after which its number is used again. The
pool is a bounded sequence that outlives a run. `ResponderReceive` is the whole
of `ingest_control_packet` (filter, lock, owed reply, gap, streak, takeover).
History fields count what a pool really missed, to judge the code's count.
Pacing is left out: a sounding or a reply may be due at any time.

### NodeRun: runs, stop signal, station, access point

`pc[f]` says where each of the futures that `drive_main` joins waits. A wait is
*guarded* if it is a `select` with the stop signal, which is polled first: then
no other arm is taken once the signal is raised, and `ObserveStop` ends the
future, leaving the signal raised (it is taken and raised again before another
future is polled). Unguarded waits (`disconnect_async`, the 300 ms pause after
it, `send_async`, the DHCP server's `send_to`, the timed collection) ignore it.
`armed` is whether the radio has a CSI configuration; failed connections and
associations may drop it, as the comments of `run_sta_connect` say. Timers may
fire at any moment.

### ApLeases: DHCP server, registry, floods of the access point

The client table is per run, `leases` (`ACTIVE_LEASES`) is static, in the order
of registration, and cleared by no run: addresses that earlier runs handed out
may fill it. `Serve` is one request and its reply, which may be lost.
`MultiWake` and `BurstWake` are one wake-up of the two flood loops, with any
number of frames due and taken by the transmit buffer, and the refresh of the
targets that happens once per second.

### ReceiveClock, CsiSession, CsiPolicy, CsiStats: what a capture remembers

Four parts of one callback, each with state that lasts from frame to frame.
Again one step is one access to a static, on both sides.

- `ReceiveClock`: `widen_timestamp` and `begin_run`'s restart of it. Frames come
  with any receive time; `calm` says whether the run's silences and delays stay
  within half the counter's range, which is what the widening is built for.
- `CsiSession`: `set_session` and `begin_run` on the executor, the announcement
  (load by load) and the stream number in the callback or in a task that emits,
  the queue under both overflow policies, which may be switched at any moment,
  and a consumer that counts. `lost` are the packets the queue refused or
  discarded, whichever of the two it was. Histories tell a frame captured across
  `begin_run` (`muddled`) and an anchor replaced while it is read (`disturbed`).
- `CsiPolicy`: the five stores of `set_runtime_reporting` against
  `policy_admits_frame`, `policy_admits` and the shaping of the payload. Only one
  measurement is judged at a time, as `emit`'s documentation demands.
- `CsiStats`: `record_tx_frame` under its lock, the counter outside it, eviction
  of the least recently heard transmitter, retries, output switches through
  `run_process_csi_packet`, and `stats_begin_run`. `missing` counts the numbers
  of a transmitter that no first transmission recorded, whatever became of their
  frames (lost, withheld, hidden by output being off, recorded as a retry only);
  `truth` and `total` are what the table and the counter should make of them.

`MCCapture` composes them. They share no variable, so one behaviour has a
*focus* (`Foci`) and exercises that part alone; the sum, not the product, of
the four state spaces is explored.

### NodeSetup, NodeBringUp, WireLayout, CsiLog: how a capture is set up and put out

- `NodeSetup`: any sequence of configuration calls, accepted and refused setups
  (`Refused` has every refusal of `apply_measurement_setup`), runs, and what the
  radio captures under the resulting filters and acquisition flags. On the C5
  the flags pass through `c5_bitfield_workaround` and the driver's misplacement
  (`EspRadioPacking`, from the comment above the workaround). Sets of formats
  that the code accepts without selecting them are `TakenInPart`; `narrowed`
  says that a call before the setup restricted what is captured.
- `NodeBringUp`: `run_inner` before the role's task, one step per stretch
  between two awaits, for consecutive runs of any modes on one controller. What
  the driver does with a call is external and taken from the comments of the
  crate; where they are silent it may do either.
- `WireLayout`: the layout tables as sets of subcarriers, both classifications,
  the metadata `frame_from_esp` derives and `HeaderDigest::parse`; every
  combination of fields for the lengths around those of the tables.
- `CsiLog`: both back ends. A message and a packet are told apart by what the
  host finds between two delimiters (`unread`), and CSI-tool rows by what came
  before them (`format`).

`MCSetup` composes these four in the same way.

### Proof modules

`CsiDelivery_proofs`, `CsiQueue_proofs`, `EspNowLink_proofs`, `NodeRun_proofs`
and `ApLeases_proofs` extend their component's module; `CsiSession_proofs` extends
`CsiSession` and `ReceiveClock`. `Capture_proofs` holds the proofs about
`CsiPolicy` and `CsiStats` and extends `MCCapture`, `CaptureSetup_proofs` those
about `NodeBringUp`, `NodeSetup`, `CsiLog` and `WireLayout` and extends `MCSetup`:
both end with theorems about the parts together (section 5).

## 3. What the runs check

| Run | Instance | Question, and answer |
|---|---|---|
| `delivery` | one callback, every API call but `set_csi_delivery_mode(callback)`, both threads in parallel, a user callback that switches to Async, turns the output off or stops the reporting | Is the cached gate the conjunction of its inputs when no call is under way; do calm frames go where the configuration sends them; does a silenced node deliver nothing; does mode Callback always find a pointer? *Yes*, as long as no two recomputations of the gate overlap, and except that a raw callback is called past a closed gate. |
| `delivery_torn_gate` | the same on one core | Does the gate follow its inputs when recomputations do overlap? *No.* |
| `queue` | one producer, 2 slots, 6 frames | No lost wake-up, every drop counted, DropOldest keeps the newest, implements `LossyFifo` with its liveness. *Yes.* |
| `link` | one initiator, one responder, each restarted with three configurations | No phantom misses, takeover after three silent frames, never early, the pair pairs up, someone reports. *Yes.* |
| `link_dropout` | automatic pairing, one initiator and one responder | Does the downlink move away from a responder that dropped out? *No.* |
| `node_run` | every role with every combination of rx, tx and time limit, run again and again; two gateways | Does a stop or a time limit end the run; is capture armed on live associations; does the flood follow the lease? *Yes*, except where `ap_stop` shows. |
| `ap_stop` | an access point with all its tasks | Does a stop always end an access point's run? *No.* |
| `ap_leases` | three stations, overlapping pools over four addresses, a registry of three that earlier runs fill, every flood | Distinct addresses, leases registered and flooded in the end, fair bursts. *Yes*, except for stations whose addresses came after the registry was full. |
| `ap_turns` | two leases, round robin | Does the turn advance one lease per frame? *No.* |
| `capture` | the four parts of `MCCapture`: a 4-valued counter over two wraps; two runs, two calls of `set_session`, three frames of the callback or of a task that emits, a queue of one packet under both overflow policies; six policies, two changes, four measurements; three transmitters, two slots, numbers modulo 8 | Are timestamps and anchors true; are gaps in the stream numbers the queue's losses, and does nothing else keep a run's announcement from the consumer; is the policy in force followed; are a transmitter's gaps its unrecorded numbers, however the executor interleaves with the callback? *Yes*, within the conditions each property names. |
| `setup_and_output` | the four parts of `MCSetup`: every mode, chip and any three configuration calls; two consecutive runs of every pair of modes; all buffers and headers; channels of two entries | Is an accepted setup honoured; does a run that comes up have what its mode needs, whatever came before it; is a buffer read as what it is; is a message kept out of packets and never starved? *Yes*, with these exceptions: sets of formats taken in part are not selected, and what an earlier call restricted stays restricted; a sniffer after an access point or a station, or ESP-NOW on the band an earlier run left, may panic instead of coming up; the header of a CSI-tool capture may be missing when the inline callback runs inside `set_log_mode`; text is kept apart on the asynchronous back end only. |
| `bringup_channel` | the bring-up alone | Does an ESP-NOW run use the channel its config names? *No.* |

The type invariant of `NodeRun` is proved and in no run. Every property of a
passing run has a mutant: a plausible bug in one
definition (a dropped guard, swapped stores, a forgotten reset) that makes TLC
find the property violated.

### Bounds, and why they are enough

- `CsiDelivery` has no counter, so its state space is complete. One callback is
  enough: the code compares none with another, and registering it again, removing
  it and finding it gone are all there; the theorems are about any number.
- `CsiQueue`: capacity 2 tells oldest from newest and leaves room for a
  consumer that empties the ring between eviction and retry; 6 frames fill it,
  overflow it and refill it.
- `EspNowLink`: one pool slot makes it overflow at every burst and still lets a
  stale frame survive a run (two slots pass eight million states); numbers
  modulo 3 include a loss, a repetition, a restart and a wrap; the streak
  saturates at 4, one above the hysteresis of 3.
- `NodeRun`: two gateways (one to leave, one to move to), two replies in the
  socket (three in the code).
- `ApLeases`: three stations compete for pools of two, three and one address.
  There are four addresses, one more than `MaxClients` 3 (8 in the code), so that
  a run may find the registry full of what earlier runs handed out; bursts of 2
  frames (16 in the code) show a full and a partial wake-up.
- `ReceiveClock`: `Half = 1` gives a counter of four values, in which half the
  range, one step less and one more all occur; the theorem covers every width.
- `CsiSession`: a queue of one packet overflows at the second frame, whose
  victim under DropOldest is the run's announcement; three frames leave gaps at
  the beginning and between two packets; two runs and two calls of `set_session`
  let either overtake a frame.
- `CsiPolicy`: decimation by two and three, thresholds with and without a hold;
  four measurements pass a full beat before and after a change.
- `CsiStats`: three transmitters compete for two slots; numbers start at 6 of 8
  so that four frames cross the wrap; a gap of `GapLimit - 2 = 2` is the largest
  counted (498 of 4096 in the code).
- `NodeSetup`: any three of the calls (seven setups, most of them refused
  by some modes) include a setup, a second one and a setter in every order.
- `NodeBringUp`: two runs, since what a run leaves is a function of its last
  state; one channel per band.
- `CsiLog`: two entries per channel show empty, partly filled and full.

### Fairness

Nothing obliges users, stations, frames, leases or associations to come.
Assumed is only what the executor and the driver do:

- queue: `deliver` never blocks, so a producer inside it goes on; a poll that
  began ends; a scheduled task is polled (weak fairness).
- link: running tasks handle what the pool holds; frames keep falling due and,
  of those sent again and again, some get through, and the peer table has room
  now and then (strong fairness of the delivery outcomes). `PairsUp` and
  `SomeoneReports` hold under the condition that both nodes stay on.
- node run: a future whose timer fired, whose event came or that the signal
  woke is polled; transmissions and disconnections of the driver end. The
  success of an association, a lease and a request are not assumed.
- logging: `logger_backend` is polled when it can go on (`LogFairness`), since
  the executor polls its ready tasks in turn. Nothing is assumed of the radio:
  packets may arrive faster than they are written.
- access point: the flood's timers fire, and once per second it refreshes.

## 4. Findings

Disagreements between the code and what its docs or comments say, each shown
by a counterexample of a run:

1. `delivery_torn_gate`: `apply_publish_gate` loads three inputs and stores
   their conjunction without a lock. A user callback that calls a setter between
   the executor's loads and its store has its recomputation overwritten, and the
   gate stays open over inputs that close it, until the next setter.
2. `link_dropout`: a responder that left stays in `known_peers`, and the
   downlink stays on it.
3. `ap_stop`: the DHCP server's `send_to` waits, without the stop signal, for
   room that only the network task makes, which the same signal ends.
4. `ap_turns`: `run_icmp_flood_multi` chooses its destination once per wake-up,
   so that a catch-up burst goes to one lease while the turn advances.
5. `bringup_channel`: `apply_ht40_channel` is called for access points only; an
   ESP-NOW node at 40 MHz relies on it, and stays on the controller's channel.

The following contradict a doc or comment as well. They have no run of their
own; the property of the passing run states the exception, and a comment at it
names the text that says otherwise.

- A raw callback is called past a closed gate: `capture_csi_info` returns before
  it loads the gate, and `reset` leaves `CSI_RAW_CALLBACK` registered
  (`delivery.rs:286-287`, `:294`, `:576-582`). `PastTheGate` in
  `CalmFramesFollowConfiguration`.
- `ACTIVE_LEASES` ignores addresses once it is full and is never cleared, so a
  station of a later run may never be flooded (`sta.rs:627-629`). `CrowdedOut`
  in `LeasesAreRegistered` and `FloodReachesStations`.
- The announcement of a run is consumed before the queue accepts the packet that
  carries it, and is lost with that packet (`lib.rs:172`, `csi/mod.rs:30`).
  `OnlyLossHidesARun`; a frame that passes the gate before `begin_run` sets the
  flag is unannounced, too (`muddled`).
- The stream number is documented per source (`wire/mod.rs:53`); there is one
  counter for the callback and for `emit`. `GapsAreDrops` is about that counter.
- A transmitter's gaps count frames that a filter or the policy withheld
  (`stats.rs:24-26`, `:34`, `:252` call them no losses) and frames recorded as a
  retry only (`:292-295`); a retry that is the first frame after an output switch
  uses up the resynchronisation, so that the silence is counted after all
  (`:73-75`). `GapsAreUnrecordedNumbers` says what is counted.
- A CSI-tool capture begins without its header when the inline callback writes a
  row between the two stores of `set_log_mode` (`logging.rs:1153`,
  `lib.rs:175`). `raced` in `HeaderBeforeRows`.
- A set of formats without the legacy ones, other than HE alone, is accepted but
  not selected: under a setup for HT only, a C5 or C6 also captures VHT and HE
  frames (`node.rs:700-709`, `wire/setup.rs:10-12`, `:71`). `TakenInPart` in
  `SetupsTakeEffect`.
- A setup that names no transmitter, or no formats, leaves the filter and the
  acquisition of an earlier one in place (`wire/setup.rs:71-73`). `narrowed` in
  `SetupsTakeEffect`.

Observed while modelling, without a run of its own:

- Delivery. Changing reporting from `Report{Local}` to `None` stores the flag
  before it closes the gate, so a frame in between reaches the host. Switching
  inline logging off closes the intent that a registered callback shares. With `emit` as a second producer
  DropOldest may lose two packets for one count. Neither `REPORTS` and the policy
  nor `CSI_QUEUE` are reset between runs, and a run opens the gate before
  `begin_run`.
- Session. Replacing an anchor while the callback reads it can tear it.
- Statistics. A gap found before a reset may be counted after it.
- Logging. On the inline back end `log_ln!` writes unframed text, which merges
  with the next serialized packet, and the callback may come between
  `log_line`'s three writes; `TextStaysOutOfPackets` is therefore about the
  asynchronous one. Messages that arrive fast can in turn starve packets.
- Setups. The filters are process-wide and no run resets them. A period above one second is sounded at 1 Hz, a period of 0 at 65535 Hz. The
  wire form of a 40 MHz node's own setup is refused by that node when it names
  no width.
- Bring-up. A sniffer after a run as access point or associated station panics
  at `set_channel().unwrap()`. AX implied by an HE20 ESP-NOW config stays in
  `self.protocol` for later runs. `set_config` overwrites the protocol set
  applied just before. An emitter leaves promiscuous mode on. ESP-NOW runs on the
  C5 select no band. A simplex source registers CSI it never delivers.
- DHCP. A failed connection's recovery calls `set_csi` whatever `rx_enabled`
  says; a link flap between two polls of the lease is not published.
- A `send_stop` before a run begins ends it at once.

## 5. What is proved

All theorems are for every value of the constants allowed by the named assumptions,
and safety only.

**CsiDelivery_proofs.** `TypeCorrect`. `GateNeverStale` needs an invariant that
says, for each access inside a call, what the partial conjunction `known` and the
gate are relative to the inputs (`GateInv`): a recomputation that no other overlaps
is, at its last load, past inputs that still hold, and two that overlap are recorded
in `torn`. The theorem has no hypothesis on what user callbacks call: until a
recomputation runs alone again the gate is excused, and `delivery_torn_gate` shows
that it has to be. `CalmFramesGoWhereConfigured` adds what a frame has seen at each
access while it is calm. `SilentUnlessReporting` relates the gate's history to the
reportings in force during a frame (`ReportInv`, `WindowInv`); a torn gate that let
a frame through is in its window. `CallbackModeHasAPointer` is proved under
`PointerFollowsMode`: nobody selects the mode by hand and no user callback registers
another.

**CsiQueue_proofs.** `TypeCorrect`. `NeverLosesAWakeup`: `NoLostWakeup` is inductive
once the waker is known to be registered from the second dequeue on.
`ImplementsLossyFifoSafely`: every step is a step or a stutter of `LossyFifo`; the
invariant `Distinct` says that busy producers hold different measurements and none
of them was accepted before. With any number of producers a count stands for at most
one loss from the ring and one at its door (`CountsBoundLosses`); `CountInv` adds
the producers that have counted and not yet dropped. That every loss has a count of
its own, and that DropOldest keeps the newest, holds of a sole producer, the
hypothesis of `SoleProducerCountsDrops` and `SoleProducerKeepsNewest` (the callback,
when nobody calls `emit`): `SoleInv` says that nobody takes the slot it made and
that the ring is in the order of making.

**EspNowLink_proofs.** For every set of initiators and responders, although the run
has one of each. `TypeCorrect`. `TakesOver` and `TakesOverOnlyThen`: the code keeps
a saturating streak and the last flag, the properties speak of the last three flags;
`TakeOverInv` relates them (`Trail`) and says that a silent streak of three already
made the responder report. `MissesHappened`: `NoPhantomMisses` looks at the head of
the receive pool, but the numbers in it were drawn long before, over restarts of the
initiator. `StreamInv` therefore speaks of everything a responder may yet take from
an initiator: the frames in its pool in order, and behind them the frame the
initiator would send next (`ControlFrame`). Along this stream every number is at
most the losses and frames since the earlier one ahead of it, or the pool's overflow
and the initiator's restarts made it smaller, and then it counts nothing.
`OriginInv` says whose frame was ingested last. While a responder is not locked onto
an initiator the numbers of two of them do mix: the property's second condition
(`lastFrom`, a history) excludes the frame where that happens.

**NodeRun_proofs.** `TypeCorrect`. `StopIsPassedOn`: no future ends other than by
the signal or by raising it, so it is inductive with the types. `CaptureIsArmed`
needs `RoleInv`: connections, monitors and links occur only in the roles they belong
to, and the station's monitor begins when its main task has ended, so that a failed
connection never disarms under a monitor.

**ApLeases_proofs.** `TypeCorrect`. `AddressesAreDistinct` from `BoundInv`: the
table binds no address twice and a station uses what it is bound to; the lemma
`AssignProperties` is about the least free index of the pool.
`RegistryKnowsEveryLease`, for any pools and without a condition on their size:
`RegistryInv` says that the registry holds no address twice and everything the table
binds unless it is full, so that a station it misses came after `MaxClients` other
addresses. `BurstsStayFair`: `BurstsAreFair` counts targets in the window of the
last 2N - 1 frames, and nothing in it says where the next burst begins. `TurnInv`
does: the frames of the unfinished burst went in turn to the places before the next
one, and before them lies a full burst, the window's beginning, or what a window of
this length does not reach back to.

**CsiSession_proofs.** Of the receive clock, `ClockTypes` and
`WidenedTimestampsAreTrue`, for every width of the raw counter and any bound on its
wraps. `TimestampsAreTrue` speaks of stamps already given; `ClockInv` adds what
holds at each access of a calm run: the statics hold the newest receive time unless
that frame is being stamped (`Settled`, `Entered`), the loaded value tells a new
epoch from a straggler (`Judging`), and the count about to be returned is the
frame's epoch (`Storing`). It is needed because the stamp is the outcome of three
steps, and a late frame must not move the newest time. A restart under a frame ends
the calm.

Of the session, `SessionContextTypes`, `AnnouncedTimesAreTrue`, `GapsCountTheDrops`
and `RunsHideByLossOnly`, for every capacity of the queue, both overflow policies,
both producers, and any number of frames, runs and calls. `AnchorIsTrue` speaks of
announcements already made; `AnchorInv` says what holds between `set_session`'s
three stores (wall time, its instant, the flag) and between the callback's loads:
behind a raised flag the two values belong together except right after the first of
two stores, and that exception is possible only when an anchor is replaced, since
the first call stores them before it raises the flag. `GapsAreDrops` speaks of
packets already received, so it is not inductive either: `NumberInv` says the same
of every packet that waits in the queue (`InOrder`) and of the number that is given
next (`Given`): it comes after those before it (`Follows`), is not lost, and each
smaller number of its run was received, waits ahead of it or is lost; and that
nothing is of a later run than the present one (`Past`). A refusal then loses the
highest number, a discard one that is lower than all that wait. `AnnouncedInv` adds
who has the announcement: it is pending exactly until the run's first packet takes
it, the packet with number 0 carries it wherever it is, and who receives a later one
without it comes after the loss of that packet.

**Capture_proofs.** Of the policy, `PolicyTypes` and `PolicyInForceIsFollowed`, for
every set of policies, every score and any number of changes and measurements.
Between the stores of a change the decimator's count and the hold window may still
be an earlier policy's, so `PolicyIsFollowed` is not inductive. `HoldInv`: an open
hold of an earlier policy is about to be cleared, because the reset it needs is
still pending. `BeatInv`: the count is the number of measurements since the change
modulo the factor, unless a reset is pending or the parameters are being stored; and
a context past its reset that belongs to an earlier policy has one to come. The
lemmas before them (`DivMod`, `RemainderIsUnique`, `NextBeat`) are the arithmetic of
a count that restarts at the factor.

Of the statistics, `StatsTypes` and `GapsAreTrue`, for a table of any size, any
modulus from 2 up and limit within it, any number of transmitters, frames, output
switches and runs. `GapsAreUnrecordedNumbers` compares sums; why they stay equal is
in four conjuncts, the last three of which end, as the property does, with a frame
amid a switch (`mixed`). `RecencyInv`: the stamps order the table as the
transmitters were heard, so that the entry evicted is that of the one heard longest
ago, and the history that decides what is tracked is the table's. It needs that the
stamp drawn before the lock is still the newest when the lock is taken.
`NumbersInv`: a transmitter's next number on the air is the one in its entry plus
those missing since plus one, modulo `SeqModulus`, where what only a retry recorded
is missing too, and the frame in hand continues from the entry (`Continues`).
`SwitchInv`: an entry's transmitter saw a switch of output exactly if the entry, the
swapped flag, `RESET_SEQ_TRACKER` or the signal still carries it. `SumsInv`: entries
hold their true gaps, and the counter lacks only the gap found and not yet recorded.
`GapFoundIsTrue` draws them together: the difference modulo `SeqModulus` is the
number skipped plus one.

`CaptureImplementsItsParts`: `MCCapture` implements `ReceiveClock`, `CsiSession`,
`CsiPolicy` and `CsiStats`, each step one of the part in focus and a stutter of the
others. `CaptureTypes` follows from the parts' types.

**CaptureSetup_proofs.** Of the logging back end, `LogTypes`,
`MessagesStayOutOfPackets` and `RowsFollowTheirHeader`, for channels of every
capacity. `BackEndInv`: only the task writes with the asynchronous back end, only
the caller without it. `FramingInv`: with the former the link never ends in an open
message. `HeaderInv`: whoever is about to write a CSI-tool row comes after a header
or row of that kind, and under a header that was printed nobody holds a packet of
another format; it holds until the inline callback runs between the two stores of
`set_log_mode`, which is the condition of `HeaderBeforeRows` itself.

Of setups, `SetupTypes` and `SetupsHonoured`, for every set of addresses and of
setups a controller may send and any number of calls; what they do not claim are the
exceptions of section 4 (`TakenInPart`, `narrowed`). What a run captures depends on
filters and flags that earlier calls left, so `SetupInv` says what a setup that was
taken on leaves behind: `ShutsOut`, the filters and flags that keep other frames out
whatever came before; `LeavesOpen`, that nothing else restricts the node if no call
narrowed it; `SoundsAsAsked`; and that a run's radio holds the setup's flags in the
right slots. `SlotsOfFlags` is the lemma about the C5: the pre-placement followed by
the driver's misplacement is the identity on every flag that decides an estimate.
`RateOfPeriod` is the arithmetic of a period that is turned into whole Hz and back.
It assumes that no address is the all-zero one (`AnySourceAssumption`): a setup
naming it would switch the filter off.

Of the bring-up, `BringUpTypes` and `RunsComeUp`, for any number of consecutive
runs, any 5 GHz channels and both of the driver's answers wherever the crate's
comments leave them open. `RunsAreBroughtUp` is about the end of the bring-up;
`BringInv` says, step by step, what each stage has already settled and no later one
may undo: that only a started controller has a band selected (`OneBandInv`), the
dispatcher, the parked station interface, the protocols AX needs, the band of the
channel, the registered callback; and, across runs, that the protocol is the one
asked for or the one HE20 implies and that a part with one band is never tuned to
another.

Of measured buffers, `LayoutTypes` and `StatedIsMeasured`, for buffers and headers
of any length, where the run tries those around the tables. A layout of the classic
MAC is checked against the buffer (`Checked`); the newer MAC's classification trusts
literal lengths, and `C5Layouts` shows that each is the size of the layout it names,
for every side of the secondary channel. `ControlFields` is the arithmetic of the
frame control field.

`SetUpImplementsItsParts` (with `LogFairness`) and `PartsTypes`: as for the capture.

Assumptions on constants: the bounds on runs, calls, frames and wraps are naturals,
the producers finitely many, capacities positive, lengths naturals, the sequence
numbers' modulus at least 2, `StreakMax` is at least the hysteresis, a counter's
`Half` positive, `WireSetups` are setups. Each is named in its module and evaluated
by the runs.

Every invariant of the passing runs and every action property is a theorem, under
the hypotheses named above. Only model-checked: liveness under fairness
(`StopEndsRun`, `TimedRunEnds`, `FloodFollowsPublishedLease`, `PairsUp`,
`SomeoneReports`, `FloodReachesStations`, `TextIsNotStarved`, and the liveness of
`LossyFifo`, whose safety is proved), since the prover supports neither ENABLED nor
weak and strong fairness.

## 6. What is not modelled

- Pacing: deadlines, catch-up budgets, back-off and the adaptive rate decide
  *when* a frame is due; the models allow any moment.
- What esp-radio, embassy-net, heapless and smoltcp do inside; they appear as
  the external definitions of the map.
- Encodings and layouts of bytes: DHCP packets, frame templates, postcard and
  COBS, the text of log rows, register writes. They are data without shared
  state; `CsiLog` keeps the framing that rows and packets need.
- How a variation score is computed from subcarriers (`ChannelScore`): a
  measurement's score is any value.
- Counters that only add up single events, and the rates read from them.
- Calendar arithmetic (`time.rs`), the benchmark hook, examples and host tests.
- The driver's undocumented choices: where the crate's comments are silent it
  may do either (`NodeBringUp`).
- Two initiators within one responder's range: the link with a second one is
  beyond what TLC exhausts in the time of a run.
- Memory ordering weaker than sequential consistency: the relaxed accesses to
  different atomics are interleaved, not reordered.

## 7. Plan

Done: delivery, queue, link, node runs, access point; session, receive clock,
policy, statistics; setups, bring-up, layouts, logging, each with its runs. The
invariants and action properties of all runs are proved. Next, in this order:

1. **Proofs**: the safety side of the liveness properties, such as the quantities
   that fall on the way from a stop to the end of a run and that nothing raises.
2. **Link, extended**: RAW_LISTEN, soundings that measurements are attributed
   to, the reporting flag that is read once per run.
3. **Score**: `ChannelScore` as a function of two buffers against its definition.
4. **Simplex and emitter**: sequence numbers and pacing as functions of time.
