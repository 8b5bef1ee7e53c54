# TLA+ models of the compressing point-to-point link and the compression detector

This directory holds TLA+ specifications of the ns-3 code in `src/`:

- a point-to-point link device that compresses selected traffic;
- a UDP client/server pair that tries to detect that compression from packet timing.

Each module is translated from the source. `PROJECT.json` records three things:

- which definition models which source lines (`map`);
- which TLC runs check what (`runs`);
- which mutants each property catches (`mutants`).

## 1. Inventory

### Components and their state

| Component | Source | State | Operations |
|---|---|---|---|
| Link device, transmit side | `model/point-to-point-net-device.cc` | `m_txMachineState` (READY/BUSY), `m_currentPkt`, `m_queue` (ns-3 DropTailQueue), `m_linkUp`, `compressionEnabled`, `m_protocol` | `Send`, `TransmitStart`, `TransmitComplete`, `Attach`/`NotifyLinkUp`, `DoInitialize` |
| Link device, receive side | same | `m_receiveErrorModel`, `compressionEnabled` | `Receive` (and `DoMpiReceive`) |
| Codec | same | none | `Compress`, `Decompress` (plus the unused `CompressExample`/`DecompressExample`) |
| Framer | same | none | `AddHeader`, `ProcessHeader`, `PppToEther`, `EtherToPpp` |
| Channel, queue | ns-3 library, not in `src/` | frames in flight; queued packets | `TransmitStart` → delivery to the peer's `Receive`; `Enqueue`/`Dequeue` |
| Traffic generator | `model/udp-app-client.cc` | `m_sent_l`, `m_dataSize` (0 means the low phase), `m_count`, `m_sendEvent`, the `packets` pool | `StartApplication`, `Send` (self-rescheduling), `FillInPacketArray`, `StopApplication`, `HandleRead` |
| Timing analyzer | `model/udp-app-server.cc` | `m_received_l`, `m_received_h`, `receivedAllLowEntropy`, `m_first_t`, `m_last_t`, `m_duration_l`, `m_duration_h` | `HandleRead` (counts, stamps, echoes), `StopApplication` (verdict) |
| Scenario scripts | `project1.cc`, `examples/udp-app.cc` | nodes, channels, addresses, where each application is installed and when it starts | set-up, then `Simulator::Run` |

### How the components interact

- A client's `Send` hands a UDP packet to its node's IP stack.
- The stack reaches the compressing router's `PointToPointNetDevice::Send`. This is the path the spec describes. In the shipped scripts, however, no client's packets take it (see `Topology` below).
- `Send` enqueues the frame. If the device is READY, it starts transmitting at once.
- `TransmitStart` schedules `TransmitComplete` on the simulator, then hands the frame to the channel.
- The channel schedules the peer's `Receive`.
- `Receive` removes the compression, strips the PPP header and calls the node's receive callback.
- The packet then travels on to the server, whose `HandleRead` counts it, timestamps it and echoes a reply.

Everything runs on ns-3's single discrete-event timeline. The concurrency is therefore the interleaving of scheduled events:

- application sends;
- transmit completions;
- channel deliveries.

Two other things can disturb the stream:

- **Loss.** A receive error model can drop a frame, and the queue drops when full. The model also lets the channel refuse a frame. ns-3's `PointToPointChannel::TransmitStart` always returns true, so this over-approximates the channel: it only adds behaviours, and the properties hold with or without it.
- **Several senders.** The scripts install two (`udp-app.cc`) or four (`project1.cc`) clients. All of them send to the server's address, but only one has a route to it.

### What is hard here

- **The transmit state machine under interleaving.** `Send`'s compressed branch dequeues one packet but transmits another (`newPacket`). This is right only because a READY device always has an empty queue.
- **The codec.**
  - Input lengths come from `strlen`, which stops at the first zero byte.
  - The output buffer is `packetSize + 8` bytes. A deflate stream of incompressible data is longer than that once it has about seven bytes from 144 up.
  - `Decompress` returns the wrong buffer.
  - Sizes are off by the 8 bytes of slack and the 2-byte PPP header.
- **The detector's counting.**
  - The client's phase boundary and the server's do not match.
  - With loss, the counters drift.
  - With several clients, their streams are merged.
  - With `MaxPackets = 1`, the server never leaves the low phase.
  - `SetFill` before the run puts a client in high mode from its first packet.
- **The scripts' topology and start order.**
  - The routes decide which client's packets reach the server, and whether they cross the compressing link.
  - The start order decides which client creates `randomfile`, and so gets an all-zero pool.

### What makes each component correct

- **Link device.** The following must hold:
  - it never idles with a backlog;
  - at most one frame is in transmission;
  - the queue stays within its bound;
  - what the peer hands up is, in order, what was accepted, each packet at most once and unchanged (with losses allowed);
  - every accepted packet is eventually delivered or counted as dropped.
- **Codec.** Compression consumes exactly the packet, and decompression gives it back.
- **Detector.** The two things that must hold:
  - the server's low window holds exactly the low-entropy packets, and its high window exactly the high-entropy ones;
  - both durations are eventually computed.

`PROJECT.json` `hazards` lists every hazard at its source line.

## 2. Plan

The modules below are listed in the order they are built, most important behaviour first.

1. **`FifoLink`** (done). This is the abstract specification of a lossy FIFO link.
2. **`P2PNetDevice` + `MC_P2PNetDevice`** (done). This is one direction of a device pair: the sender's transmit machine and queue, the channel, and the peer's receive path, with the codec and framer as operators. It is shown to refine `FifoLink` when compression is off.
3. **`P2PNetDevice` configuration run** (done): a target protocol given as an EtherType. A run with compression on one side only was dropped: both scripts set `Compression` once on the helper, so both devices of the pair always agree.
4. **`DetectionApp` + `MC_DetectionApp`** (done): the client's `StartApplication`/`Send`, the shared `randomfile` pool, the server's `StartApplication`/`HandleRead`/`StopApplication`, a set of clients, and per-client lossy FIFO paths (the `FifoLink` contract that the device refines).
5. **Codec output bound** (done). `DeflateWorstLen`, `StreamFits` and `Compress` in `P2PNetDevice` model whether deflate's stream fits the `size + 8` buffer.
6. **`Topology`** (done). The two scripts' nodes, channels, routes, `SetFill` calls and application start order. `MC_DetectionApp` uses these values to run `DetectionApp` in each script's configuration.
7. **Echo path and client stop** (done). The server's reply to every datagram, the client's `HandleRead` of it, and the client's `StopApplication` for the clients the scripts give a Stop time.
8. **`PhaseTimer`** (done). The abstract Timing Analyzer of `spec.md`; the server is shown to refine it.
9. **Order under compression and timing facts** (done). `OrderRefinement` shows the link keeps Send's order with compression on, where `LinkRefinement` fails on the bytes. `Topology` records the scripts' packet counts, interval and stop times, and an `ASSUME` checks that every Stop falls after every schedule.
10. **Not pursued:** composing the device with the detector. Neither script routes detector traffic across the link, so a composed model would describe a deployment the repository does not contain.

## 3. Modules

### `FifoLink`

Variables:

- `pending`: packets accepted but not yet handed up or lost;
- `delivered`: packets handed up at the far end.

Actions:

- `Accept(p)`;
- `Deliver`, which hands up the head;
- `Lose(i)`, which drops any pending packet.

### `P2PNetDevice`

Payload bytes are abstracted to `0` (a zero byte) and `1` (any other byte). Everything the codec does depends only on where the first zero byte is. A frame body records one of three things:

- the packet's bytes (`plain`);
- what deflate consumed (`deflate`). This is a prefix of the packet plus the number of uninitialised slack bytes it read; `OverRead` means it ran past the allocation. The body also records whether the stream fit the output buffer (`complete`);
- uninitialised memory of some size, standing for every byte pattern (`uninit`).

Each frame carries its original packet in `orig`. This ghost field is used only by the properties.

| Variable | Code |
|---|---|
| `txState`, `currentPkt`, `queue`, `linkUp` | `m_txMachineState`, `m_currentPkt`, `m_queue`, `m_linkUp` |
| `wire` | frames the channel has accepted and not yet delivered |
| `delivered` | packets the peer passed to `m_rxCallback` |
| `handedUp` | ghost: the original packet of each frame the peer handed up, in order |
| `sends`, `macTxDrops`, `phyTxDrops`, `phyRxDrops` | Send calls and the drop trace sources |

| Action | Code |
|---|---|
| `Send(p)` | `Send`: link-down drop; the compressed branch (`SendFrames`, `Compress`) or the plain branch (`AddHeader`); enqueue or drop; and, when READY, dequeue and `TransmitStart` (`EnqueueAndStart`). The compressed branch transmits `newPacket`, and the plain branches transmit what they dequeued. |
| `TransmitComplete` | `TransmitComplete`: back to READY, then dequeue and `TransmitStart` again if the queue holds a frame |
| `Attach` | `Attach` → `NotifyLinkUp` |
| `Receive` | channel delivery plus the peer's `Receive`: an error-model drop, or `RxPacket`, which covers the LZS branch (`Decompress`, `Create<Packet>(…, packetSize)`, `AddHeader(0x0021)`, whose `EtherToPpp` yields 0) and `ProcessHeader` |

**The codec's output bound.** `Compress` gives deflate `avail_out = size`, which is `packetSize + 8` from `Send`. Whether the stream fits that room depends on its length:

- The stream is a 2-byte zlib header, one final block and a 4-byte Adler-32 trailer.
- For `L` input bytes, the worst-case block is the cheaper of two:
  - a fixed-Huffman block: 3 header bits, a literal for every byte, and 7 bits for end of block. A literal costs 8 bits for bytes 0..143 and 9 bits for 144..255 (`LiteralBits`). The slack bytes strlen ran into have unknown values, so they are costed at 9;
  - a stored block of `L + 5` bytes, which zlib picks when it is no longer than the fixed block by 4 bytes.
- `DeflateWorstLen(bytes, extra)` is that worst case, for the packet bytes consumed plus `extra` slack bytes. With 8-bit literals a fixed block is at most `L + 2` bytes, so a stream of bytes below 144 always fits `packetSize + 8`, with no room to spare. Only bytes from 144 up, or slack, can overflow it.
- When it fits, every byte pattern fits (`StreamFits` gives `{TRUE}`).
- When it does not fit, compressible bytes still fit and incompressible ones do not (`{TRUE, FALSE}`). In that case deflate stops at the end of the buffer and returns `Z_OK`, which `Compress` ignores.

`TransmitStart(f)` is an operator used by both `Send` and `TransmitComplete`. The channel either appends the frame to `wire` or, when `ChannelMayReject` is set, refuses it. The device handles a refusal at lines 328-332. The channel, which is not in this repository, never refuses, so `ChannelMayReject = TRUE` is a deliberate over-approximation and is not listed as a hazard.

Fairness: `WF` on `TransmitComplete` and `Receive`. Both are events already on the simulator's event list, and `Simulator::Run` executes every scheduled event. `Send` gets no fairness, because the application may stop.

### Runs

All runs use `MC_P2PNetDevice`. They use small packets:

- `<<1,0>>`: IPv4, whose only zero byte is the last;
- `<<1,1>>`: IPv4, with no zero byte;
- `<<1,1,1,1,1,1,0>>`: IPv4, seven bytes, whose only zero byte is the last. Its worst-case stream is exactly 15 bytes, which fills `packetSize + 8`;
- `<<0,1>>`: IPv6, with a leading zero.

| Run | Expect | Checks | Shows |
|---|---|---|---|
| `device_plain` | pass | `TypeOK`, `WorkConserving`, `LinkRefinement`, `AllResolved` | With compression off, and with a lossy channel and receiver, the device refines `FifoLink`, never idles with a backlog, and resolves every packet. `MaxSends = 5` fills the 2-slot queue and forces drops. |
| `device_compress` | pass | `WorkConserving`, `AllResolved`, `OrderRefinement` | The compressed branch, which transmits `newPacket` rather than the packet it dequeued, still keeps the machine work-conserving and drains. `OrderRefinement` maps the device to `FifoLink` by packet identity (`handedUp` as `delivered`): with compressed and plain frames mixed, channel refusals and receive errors, the peer hands packets up in Send order, each at most once, although their bytes are garbage. The run uses one queue slot and three sends (60,277 states): each compressed send has up to 18 outcomes. |
| `device_roundtrip` | violation | `LinkRefinement` | With compression on, the peer hands up 10 bytes more than was sent, as uninitialised memory, and as protocol 0: `AddHeader(packet, 0x0021)` puts a PPP number through `EtherToPpp`, which has no entry for it (a debug build aborts there). |
| `device_compress_input` | violation | `FrameEncodesPacket` | A compressed frame does not carry a complete stream of exactly the packet. The cause is `strlen + 1`: for `<<1,1>>`, which has no zero byte, deflate reads into the uninitialised slack. Those unknown bytes can also make the stream outgrow `packetSize + 8`. The seven-byte packet, which deflate reads whole, is not a cause: alone (`Packets <- MCPacketsTail`) it passes, because its 15-byte worst case fits exactly. |

**Bounds.** In `device_plain`, two queue slots and up to five sends are enough for every combination the code distinguishes:

- a full queue;
- a READY device with an empty queue;
- several frames in flight;
- a drop at each of the three drop points.

**Mutants.** Each property is broken by a plausible bug. The mutant operators are defined in the module:

- an off-by-one queue capacity;
- a `Send` that never starts transmission;
- a `TransmitComplete` that transmits without dequeuing;
- a completion event that never restarts from a backlog;
- a compressed branch that drops its unused `packet = m_queue->Dequeue ()`, so `newPacket` is sent and also left queued (caught by `OrderRefinement` as a duplicate).

`FrameEncodesPacket` is only checked in a violation run. The passing runs include packets that break it.

### `P2PNetDevice` configuration

`device_config_ether` (violation, `CompressesTarget`): the target is given as `0x0800`, the protocol number that outgoing IPv4 frames carry and that the spec says the target is matched against. `DoInitialize` passes it through `PppToEther`, which maps it to 0, so no frame is compressed and nothing reports the bad configuration.

### `Topology`

This module models the two scripts, `project1.cc` and `examples/udp-app.cc`, as records. Each record holds:

- the nodes, in creation order;
- the point-to-point pair that carries the compressing devices;
- the CSMA segment;
- the server's node, start and stop times and its `MaxPackets`;
- the clients' `MaxPackets` (`count`) and `Interval`, which the client helper gives every client;
- the clients, in installation order, each with its node, its start time (0 s when the script never calls `Start`), its stop time (0 when the script never calls `Stop`, which ns-3 takes as "never stop") and whether `SetFill` was called on it.

The operators on these records are:

- `Channels`: the installed channels.
- `Reaches`: reachability over the channels, by the reflexive transitive closure from the community module `Relation`. This is what `Ipv4GlobalRoutingHelper::PopulateRoutingTables` gives routes for.
- `HasRoute(S, i)`: client `i` can reach the server's CSMA address. Every client is given `udpIp.GetAddress (1)`.
- `CrossesLink(S, i)`: every route from client `i` to the server crosses the point-to-point link.
- `StopSet(S)`: the clients given a Stop time. In `project1.cc` the client on comp installed without `Start` and `p2pClient` have none.
- `LastSendTime(S, i)`: when client `i` sends its last datagram: its start plus `2 * count` intervals.
- `StopsAfterSchedules(S)`: every Stop the script schedules comes more than one interval after every client's last send. `SameCount(S)`: client and server have the same `MaxPackets`. `MC_DetectionApp` assumes both for both scripts. These facts justify `DetectionApp`'s single `N` and its `Quiescent` guard on the Stop actions. With the client default of 12000 packets, `udp-app.cc`'s last send would come at 362 s, after its 300 s Stop, and the `ASSUME` would fail.
- `AppStartOrder(S)`: the order in which the simulator runs `StartApplication`. Events are ordered by time; events at the same time run in the order they were scheduled. That order is node creation order (each node schedules its applications' starts when it is initialised), then installation order.

`MC_DetectionApp` writes the resulting values out and checks them against these operators with an `ASSUME`:

| | `project1.cc` | `udp-app.cc` |
|---|---|---|
| clients | 1 sender (1 s), 2 comp (0 s), 3 decomp (1 s), 4 comp (2 s) | 1 udp0 (2 s, `SetFill`), 2 p2p0 (2 s) |
| start order (0 = server) | 2, 3, 1, 0, 4 | 0, 2, 1 |
| routed | {1} | {1} |
| given a Stop time | {1, 3} | {1, 2} |
| crosses the link | {} | {} |

In both scripts the compressing pair and the CSMA segment share no node. The one routed client reaches the server over CSMA alone. The clients on the point-to-point nodes have no route, so their socket `Send` fails and their packets go nowhere.

### `PhaseTimer`

The abstract specification of the Timing Analyzer, written from `spec.md` (its state description and section 4.5), not from the code. Arrivals are tagged by their order. The first N form the low phase and the next N the high phase. A phase's window is the pair of frames (1st, N-th) whose arrival times its duration subtracts; a phase of one frame has a window whose two ends coincide. `Arrive(f)` appends a frame and closes a window when its N-th frame arrives; `Report` emits the report, after which nothing is counted.

`DetectionApp` instantiates it as `Timer` with the refinement mapping

- `arrivals <- countedL \o countedH` (the server's arrivals in the order `HandleRead` counted them),
- `lowWin <- durL`, `highWin <- durH` (the stamped pairs `m_duration_l`/`m_duration_h` are computed from),
- `reported <- serverStopped`,

and `TimerRefinement == Timer!Spec` is checked in `app_single`. `ServerStart`, `DropUnbound` and every client step are stuttering steps of the timer.

### `DetectionApp`

| Variable | Code |
|---|---|
| `started`, `scheduled` | client `StartApplication` has run; `m_sendEvent` is pending |
| `sentL`, `highMode` | `m_sent_l`, `m_dataSize != 0` |
| `pool`, `fileExists` | the client's `packets` pool (`"zero"` or the file's `"bits"`); `./randomfile` on disk, shared by all clients |
| `poolReads`, `sentLog` | ghosts: slice indices `Send` copied; packets sent |
| `net` | per client, packets on the way to the server (FIFO, may lose) |
| `echoNet`, `echoLog` | per client, the server's echoes on the way back (FIFO, may lose); ghost: the echoes the client's `HandleRead` received |
| `stopped` | the client's `StopApplication` has closed its socket |
| `recvL`, `recvH`, `allLow` | `m_received_l`, `m_received_h`, `receivedAllLowEntropy` |
| `firstT`, `lastT`, `durL`, `durH` | the packet whose arrival set `m_first_t`/`m_last_t`; the pair a duration was computed from |
| `countedL`, `countedH` | ghosts: arrivals counted in each phase |
| `serverStarted`, `serverStopped` | server `StartApplication`/`StopApplication` have run |

A packet is `[src, seq, mode, payload]`: its client, its place in that client's schedule, the branch of `Send` that built it, and the data class it carries (`zero`, `bits`, or `oob` for a slice outside the pool).

| Action | Code |
|---|---|
| `StartApplication(c)` | client `StartApplication`: `FillInPacketArray` (`FilledPool`), then `ScheduleTransmit(0)` |
| `Send(c)` | client `Send`: the slice index and payload for the current branch; the socket send, which reaches `net` only for a routed client (`Routes`); `++m_sent_l`; and the reschedule chain (`Reschedules`, `SwitchesToHigh`) |
| `Lose(c)` | a packet lost on the path (queue overflow, error model) |
| `ServerStart`, `DropUnbound(c)` | server `StartApplication`; an arrival before it finds no socket |
| `HandleRead(c)` | server `HandleRead` for one arrival: the phase counters, `Stamp`, and `PhaseEnds`, the branch that computes a duration; then `Reply`, the `m_size`-byte echo sent to the datagram's source |
| `ClientHandleRead(c)` | client `HandleRead`: an echo reaches an open socket and is traced |
| `ClientStop(c)` | client `StopApplication` for a client in `Stoppers`: close the socket (the `Cancel` of the expired send event changes nothing) |
| `ServerStop` | server `StopApplication`: print both durations and the verdict, close both sockets |

An echo is modelled by the datagram it answers; its content (`m_size` = 100 zero bytes) plays no part.

The timestamps are wall-clock values (`high_resolution_clock`), so the model records which packet was stamped, not when. The start and stop times are encoded as guards:

- `StartApplication` and `ServerStart` run in `StartOrder` (`StartsAfterPredecessors`).
- A client's first send is queued behind any server start at the same time. So only a client that starts before the server (`EarlyClients`) can send before the server's port is bound. In `project1.cc` that is the client on comp at 0 s.
- `highMode` starts true for the clients in `FilledClients`, which are given `SetFill` before the run.
- `ServerStop` and `ClientStop` (`Quiescent`) wait until every client's schedule has ended and every packet and echo has arrived or been lost. The stop times (300 s, 3000 s, 30000 s) are far beyond the 2N+1 sends at 15 ms; `Topology`'s `StopsAfterSchedules` checks this for both scripts.

After `ServerStop` nothing more happens, so the runs set `CHECK_DEADLOCK FALSE`.

Fairness: `WF` on each client's start, sends, deliveries in both directions and stop, and on the server's start and stop. All of them are simulator events that `Simulator::Run` executes. `Lose` gets no fairness.

**Bounds.** The shipped configuration has `MaxPackets = 6000`, a 6000-slice pool and the literal 6000 in `Send`. The runs keep these three equal and scale them to `N = 2`, or `N = 3` in `app_single` and `app_lossy`. With `N = 3` a phase that closes one arrival early is still a visible difference.

Three cases were checked by hand and are not kept as separate runs:

- With `N = 1` the single-client setting violates `ReportComplete` and `TimerRefinement`, because the server never leaves the low phase: the `== 1` branch takes the one-frame phase's only arrival.
- With `Lossy = TRUE` the single-client setting also violates `ReportComplete`.
- The generic runs use one or two clients, all routed through the link. This is the deployment the detector is meant for. With `N = 2` each client still sends two low packets, the transition packet and two high packets, so every branch of both `Send` and `HandleRead` is taken.

| Run | Expect | Checks | Shows |
|---|---|---|---|
| `app_single` | pass | `TypeOK`, `ClientSchedule`, `LowWindowExact`, `ReportComplete`, `MeasuredPayloadFromPool`, `EchoesReturn`, `TimerRefinement` | `project1.cc`'s four clients, routes, start and stop times over a lossless path (69,152 states). Every schedule has its 2N+1 shape. The low window is the routed client's packets 1..N. Both durations exist when the report is printed. On a first run the zero pool goes to an unrouted client. The routed client eventually receives an echo of each of its datagrams, in order; this rests on its first send waiting behind the server's port binding at 1 s. The server refines `PhaseTimer`. |
| `app_lossy` | pass | `TimerRefinement`, `ClientCompletes` | Two clients with `N = 3`; the routed one starts before the server, so its first datagrams can be discarded before the port is bound, and datagrams and echoes may be lost (173,029 states, under 2 minutes). The server still refines `PhaseTimer`: its windows are arrivals 1..N and N+1..2N whatever is lost, as spec 4.5 says. Every client still sends its whole schedule. |
| `app_phase_boundary` | violation | `HighWindowExact` | The high window starts with the low-entropy transition packet N+1 and misses the last high packet. |
| `app_pool_index` | violation | `PoolIndexInBounds` | `Send` copies a slice past the end of the pool. |
| `app_first_run_pool` | violation | `HighPayloadFromPool` | On the run that creates `randomfile`, the first client started sends zeros as its high-entropy packets. |
| `app_project1_link` | violation | `ServerMeasuresLink` | In `project1.cc` the server times packets that never crossed the compressing link. |
| `app_udpapp_fill` | violation | `ClientSchedule` | In `udp-app.cc` the client given `SetFill` has no low-entropy phase. |

**Retracted.** An earlier version of this project reported that `project1.cc`'s several clients mix their packets in the server's windows. That report was wrong. Modelling the routes shows that only one of them reaches the server. `app_single` now checks `LowWindowExact` in that configuration, and it holds.

**Mutants.** The app runs' mutants are:

- a reschedule chain that sends one packet too many, or stops one short;
- a switch test `m_sent_l == m_count`, which the first branch makes unreachable;
- a phase that closes one arrival early;
- a `<=` in the middle branch, which makes the closing branch unreachable;
- a pool that is never read from `randomfile`;
- a server that builds its reply but never sends it;
- an `m_first_t` stamped only while unset, so the high window keeps the low phase's first frame.

## 4. Not modelled

- **Wall-clock timestamps and sleeps.** The server stamps with `high_resolution_clock` and the client sleeps with `sleep_for`, so the measured durations are host time, not simulated time. The model keeps which packet was stamped, not the time. A consequence is listed as a hazard with no property. Every client's 1 s pause blocks the process, so a pause that falls inside the measured client's window lengthens it. In `project1.cc` the clients started at 0 s and 2 s pause inside the low and the high window respectively, and the two extra seconds cancel only because there is one in each. Deciding this needs the real 1 s and 2 s offsets against a 90 s phase, a ratio that no instance small enough for TLC keeps.
- **The deflate algorithm itself.** Only how much it reads and whether its stream fits the buffer are modelled.
- **JSON parsing, printing and tracing.**
- **The echo's own route and timing.** The echo goes back to the routed client over the CSMA segment it came by; its contention with the client's later sends only affects simulated time, which the durations do not measure.
- **The header `udp-app-client.h`/`udp-app-server.h`.** It is not in the repository. The types of `m_duration_l` and `m_duration_h`, on which the verdict's subtraction depends, and the declarations of the `packets` and `lowPackets` members are unknown. The constructor zero-fills local arrays of the same names; the model takes the members' never-written contents as zero.
- **Differing MaxPackets defaults.** The client's default is 12000 and the server's 6000. Both scripts set 6000 on both, so `DetectionApp` has a single `N`. `SameCount` checks that in the `ASSUME`.
- **A zero data rate.** Without `--maxBandwidth` both scripts give the devices `"0Mbps"`. No datagram crosses the link, so this is listed as a hazard and not modelled.
- **The contents `SetFill` copies.** `Send` overwrites `m_data` before every packet. Only the `m_dataSize` that `SetFill` sets matters.
- **`/dev/random` and the text encoding of `randomfile`.** The pool is abstracted to whether it holds the file's bits or zeros.
- **The second server that `project1.cc` installs on decomp.** No client addresses it.
- **Other script details.** Neither the `useIpv6` branch nor the data rates and delays are modelled. The IPv6 branch gives addresses only to the CSMA devices, so it has the same routes. The data rates and delays do not matter, because no detector traffic crosses the link. `udp-app.cc` reads `config.json` but never uses the value.
