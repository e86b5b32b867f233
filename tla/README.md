# TLA+ models of SwitchV2P

This directory holds TLA+ models of the SwitchV2P simulator in
`src/switchv2p` and the TLC configurations that check them.

SwitchV2P keeps virtual-to-physical (V2P) mappings of containers in the
caches of the data-centre switches. When a switch misses, the packet goes to
a gateway that reads the directory.

## The system and how its parts interact

| Part | Source | Role |
|---|---|---|
| Client and host tunnel | `client-app.cc`, `socket-helper.cc` | A VM sends to a virtual address. `SocketHelper::VirtualSend` tunnels the packet to a gateway, with the outer destination set to the gateway. A packet the host receives for a VM it no longer runs (inner TTL < 64) is tagged `Invalidation(vdst, this host)` and sent on. If a switch served it from its cache (Hit tag), it goes to the gateway. Otherwise `SendFollowMeRule` sends it to the migration destination. |
| Switch | `p4-switch-app.cc` (`ReceivePacket`, `HandleProtocolPacket`, `GeneratePacketToAddress`) | Learns mappings from the packets it forwards, serves hits by rewriting the outer destination, and handles the Eviction, Hit and Invalidation tags (next table). |
| Switch cache | `include/p4-cache.h` | A direct-mapped table with one access bit per slot. |
| Gateway | `gateway-app.cc` | Rewrites the outer destination from the directory `m_virtualToPhysical`. Strips the Eviction and Invalidation tags. |
| Migration | `trace-sim.cc` (`Migration`, `UpdateMappings`) | Moves one container to a new host. Then, after a scheduled delay, updates the directory. |
| Routing | `sim-base.cc` | A leaf–spine–core fabric with static ECMP routes. |
| Switch cache (baselines) | `include/lru-cache.h` | The LRU cache of `SwitchApp` and of the Bluebird leaf: a map plus a recency deque. |
| Bluebird | `p4-switch-app.cc` (`BluebirdLogic` and its helpers) | A leaf that misses sends the packet over a PCIe link to its control plane. The control plane resolves it after a latency and programs the cache later. |
| Controller | `switch-app.cc`, `ilp-controller-app.cc` | Switches count traffic per flow. A controller periodically drains the counts, solves a placement ILP and bulk-inserts the chosen mappings. |
| Baseline modes | `p4-switch-app.cc` (`LocalP4CacheLogic`), `socket-helper.cc` | NoCache, LocalLearning, GwCache, Direct and OnDemand: the comparison points of the paper. |
| Set-up | `trace-sim.cc` (`ParsePlacement`, `SetupApplications`), `sim-base.cc` (constructor, `AssignIds`, `CreateTopology`, `AssignPhysicalIps`, `SetupTunnel`), `ip-utils.cc` | Splits the placement into leaves, adds the gateway servers, numbers the containers, and gives every interface, host and switch its address. The switches and hosts later compute addresses with the same `IpUtils` helpers. |

What each switch role does with a data packet, one role per row:

| Role | Behaviour |
|---|---|
| LEAF | Admits resolved destinations into a free slot or the key's own slot, or learns sources when source learning is on. |
| SPINE | Promotes a cached destination of a gateway-bound packet to the core as an Eviction tag. |
| SPINE / GW_SPINE with access bits | Refuses a pair whose slot bit is set and which is not cached. Otherwise it puts the pair and demotes the evicted pair onto the packet. |
| CORE | Admits only the packet's own destination into a slot with a clear bit. |
| GW_LEAF | Always puts. It may also send a learning packet to the source's leaf. |

The final step is the same for every role. A packet still bound to a gateway that hits in the cache is rewritten to the cached host and tagged Hit(self).

A LEAF that sees a packet carrying an Invalidation and a Hit tag sends `Invalidation(k, v)` back to the hit switch. Any switch on the path removes a cached `k -> v`. An optional bloom filter, keyed by the hit switch's id, suppresses repeats.

## Modules

* **`P4Cache.tla`** models `P4Cache<K,V>`. Each operation is a pure operator on a slot function `[Slots -> [key, val, bit]]`:
  * `Find`, `Get` (a hit sets the bit; a miss clears the bit of whichever key occupies the slot), `GetBit`, `PutIfNotEvict`;
  * `Put`, with `Evicts`/`Evicted` for the reported eviction;
  * `Remove`, whose `NS_ASSERT` is TLC's `Assert`.

  The CRC32 index is abstracted to a constant per-switch table `Hash`.

* **`SwitchV2P.tla`** models the whole fabric: switches, gateway, hosts, migration and protocol packets. Its state:
  * `cache[s]`: the P4Cache of each switch.
  * `bloom[s]`: the ids set in the switch's bloom filter. `BloomGet` and `BloomPut` model `BloomFilter::Get`/`Put`; the index is the identity, as in `GetIndex`.
  * `attrs`: the SourceLearning, AccessBit and BloomFilter attributes, chosen by `Init` from the constant `Attributes` and never changed. `Next` and each fair action carry `UNCHANGED attrs`, so one run can start from several settings.
  * `pkts[i]`: data packet `i`. The record holds the virtual source and destination, the original sender's host `src` (SourceTag), the outer source and destination, the node where the packet is, a saturated count of hops since the last tunnel (the TTL decrement), and the Eviction, Invalidation and Hit tags.
  * `ctl`: the set of protocol packets in flight (invalidation and learning).
  * `loc` and `dir`: where each VM runs, and the gateway's directory.
  * Two ghosts:
    * `locHist`: every host a VM ever ran on.
    * `staleHit`: the `<<switch, key, value>>` triples of hits served from a stale entry that the switch still holds.

  Each branch of `ReceivePacket` is an action:
  * `InvalidationReceive`;
  * `SpinePromote`;
  * `LeafReceive`;
  * `CoreReceive`;
  * `SpineReceive`, which models SPINE and GW_SPINE with access bits;
  * `GwLeafReceive`, which models the GW_LEAF, and the spines without access bits.

  Each action includes its learning step, the final hit lookup (`LookupAndForward`) and one ECMP hop (`Forward`). ns-3 runs one handler at a time to completion, so each handler is one atomic step.

  The other actions:
  * Host side: `Send`, `GatewayReceive`, `Deliver`, `Misdeliver`, `Migration` and `UpdateMappings`.
    `Send` (in all three packet models) sends from the VM's set-up host `InitLoc`: the ClientApp is installed on that host (`SetupApplications`, `trace-sim.cc:458-473`) and stays there, since a migration moves only the container's address.
  * Protocol packets: `ProtocolReceive`/`ProtocolHop`, which model one hop of `HandleProtocolPacket`, and `ProtocolLoss`, a drop by a full `DropTailQueue` (the 32MiB queues of `sim-base.cc:129`, whose drops `trace-sim.cc` counts). The spec assumes a possibly-lossy substrate. The constant `LossyDelivery` enables the drop in the safety run only.

  Packets in flight are unordered, because ECMP may take any shortest path.

* **`MC_SwitchV2P.tla`** instantiates the model on two small fabrics.
  * **TwoCore**, used for safety: leaf `lA` (hosts hA, hB, hC) under spine `s1`, which joins two cores. Both cores reach the gateway leaf `lG`. The gateway pod's spine is left out to keep paths short. With two cores, a packet and its answer can cross different cores. That is the case in which a core admits a promoted Eviction.
  * **Pod**, used for liveness: leaves `lA` (hA), `lB` (hB, hC) and `lG` (g) under one GW_SPINE `s0`.
  * `gwleaf` is the Pod fabric with the migrating VM starting on hG and moving to hC, both beside the gateway under `lG`.

  In every fabric there are two VMs, `a` on hA and `b` on hB, and `b` migrates to hC. Every cache has one slot, so `a` and `b` always collide. That is the case that exercises eviction, demotion, access bits and `PutIfNotEvict` refusals.

* **`LRUCache.tla`** models `LRUCache<K,V>` (`include/lru-cache.h`) as pure operators on a record `[map, dq]`: `Find`, `Get` (moves the key to the front of `m_dq`), `Put` (erases a present key, or evicts the back of `m_dq` when full) and `Remove`.
* **`RecencyCache.tla`** is the abstract promise of an LRU cache (spec §3): a content function and a recency order. A Put of a new key into a full cache evicts exactly the least recent key.
* **`LRUCacheSpec.tla`** drives one LRUCache with Get, Put and Remove from a sequential caller. It is shown to implement RecencyCache by `INSTANCE RecencyCache WITH content <- lru.map, before <- Order(lru.dq), last <- call`.
* **`Bluebird.tla`** models one Bluebird leaf with explicit time, as the ns-3 scheduler runs it.
  * Events are records `[t, n, kind, arg]`. The next event is the one with the least `(t, n)`.
  * `Arrive` is `BluebirdLogic`: a hit, a drop when the queue is full, or an enqueue that starts the link when it is idle.
  * `Process` is `BluebirdProcessPacket`, `Populate` is `PopulateBluebirdCache`, and `TxComplete` is `BluebirdTxComplete`.
  * `Tick` lets time pass while nothing is due. The ghost `arrived[p]` records when each packet reached the leaf.
* **`PacketCost.tla`** is `IlpControllerApp::GetPacketCost`, with pods and cores. `MC_Setup.tla` checks it against the cost table of spec §4.6 over every input in a bound. A parameterised `INSTANCE PacketCost WITH CoreCount <- c` covers fabrics with and without cores.
* **`Setup.tla`** models the set-up as pure operators of the configuration `c = [topo, ports, cores, podWidth, servers, perServer, gwLeaves, beyond]`:
  * `ParsePlacement` (recursive `Deploy`, one call per leaf) splits the servers into leaves of `NumOfPorts/2` and appends each leaf's gateways. `GwRun` is the unbounded `while (GatewayLeaves[gwIdx++] == leaf)` loop; `GwLeafRead` returns `c.beyond` for the reads past the end of the vector, the undefined read made a choice.
  * `Topology` and `Admitted` are the constructor: the Clos pod width is the leaf count, and `Admitted` is the division by `m_podWidth` and the `NS_ASSERT`s.
  * `NodeList`, `NumContainers` and `Gws` are `AssignIds`; `GatewayRange` and `GetGatewayIdx` are the gateway choice of `SetupTunnel` and `SocketHelper`.
  * The `IpUtils` operators keep an address as its four octets; `Plus` adds to the last one, which is how the code offsets a `.0` base.
  * `Interfaces` is every interface `AssignPhysicalIps` numbers, with the link end it belongs to. `LeafSwitchAddress`, `SpineSwitchAddress` and `CoreSwitchAddress` are the addresses `SetupApplications` gives the P4 switches.
  * `GeneratePacketToLeaf`, `FollowMeAddress` and `UpdateMappingsAddress` are the addresses a switch, a misdelivering host and the directory compute later.
* **`Routing.tla`** extends Setup with the forwarding of the fabric. `IfList` gives each node's interfaces in the order `AssignPhysicalIps` creates them (`Ipv4AddressHelper::Assign` adds them), each with its address and the node at the other end. `LeafRoutes`, `SpineRoutes`, `CoreRoutes` and the hosts' default route are the `AddNetworkRouteTo` calls of `AssignPhysicalIps`, with the mask as a number of leading octets. `NextHops` is one forwarding step: a directly connected /24 subnet first (ns-3's static routing, consulted before the global routing), else the peer behind any matching route, so ECMP may pick any of them; a route through an interface the node lacks leads nowhere. `Accepts` is local delivery, or `HandleProtocolPacket` taking a packet to the switch's `m_switchAddress` (an intermediate switch re-sends a protocol packet through the same tables).
* **`ClientSchedule.tla`** is when a `ClientApp` sends. `StopTime` is `ParseTrace`'s `m_stopTime`, the latest timestamp of the trace plus one minute (the constant `StopMargin`). `CalculateDestinations` is the set of orders `std::sort` may leave a container's flows in; the sort is not stable, so flows with equal timestamps come out in any order. `ScheduleNext` is the delay of the next `SendPacket`: the first timestamp, then the difference of consecutive ones. The uint64_t difference, converted to a signed `Time` by `NanoSeconds`, is the signed difference. `SendEvents` follows `StartApplication`, `SendPacket` and `StopApplication`. A send due at or after `m_stopTime` is cancelled, because the Stop event, scheduled at set-up, runs first at equal times. A trace is abstracted to one container's timestamps in file order, and the latest timestamp of the others.
* **`MC_Setup.tla`** makes each input, of `PacketCost`, of `Setup` or of `ClientSchedule`, one initial state; `Next` changes nothing, so the invariants check every input in the bounds.
* **`Controller.tla`** models Controller mode on the one-pod CLOS fabric of `sim-base.cc`. Each switch is a `SwitchApp` with an LRU cache and a traffic matrix `tm`.
  * `QuerySwitches` is one run of the controller: it drains the matrices, takes the active destinations, keeps the assignments within `MemorySize`, picks any minimum-cost one (z3's choice among optima is unspecified) and calls `BulkInsert`.
  * Its cost is `GetPacketCost` of `PacketCost`, instantiated with no cores.
  * No switch sets a Hit tag in this mode, so `Misdeliver` always takes the follow-me rule to the migration destination.
  * The ghost `lastSolve` keeps what the last solve read.
* **`Baselines.tla`** models the five baseline modes; `mode` is chosen by `Init` and never changes.
  * `SwitchReceive` is `LocalP4CacheLogic` on the switches that learn: every leaf in LocalLearning, only the gateway leaf in GwCache.
  * `Send` is `VirtualSend`. In Direct mode it sends to the directory's host. In OnDemand mode it sends directly when the host's `m_onDemandCache` holds the destination (`Direct`). The first such packet of a host (`firstPacket[h]`, `m_firstPacket`) waits at the host with no outer destination until `SendFollowMeRule`, the event scheduled 40µs later, reads the directory and sends it. Migration, `UpdateMappings` and later packets may run in between.
  * `Recv` is `SocketRecv`; in OnDemand mode it adds the packet's inner source and destination to the cache.
  * `Misdeliver` is the follow-me rule; `UpdateMappings` updates the directory after the migration.
  * The ghost `locHist` records every host of each VM.
  * `Misdeliver` sends to `MigDst`, the address `SendFollowMeRule` computes for the migration destination. That is exact when the destination's leaf index is below `PodWidth`, as in every Baselines and Controller cfg; the `followme` run shows the case where it is not.

## Properties

Each module has one type invariant, where it has one. The other properties are:

| Property | Module | What it says |
|---|---|---|
| `CachedMappingsAreHistorical` | SwitchV2P | Every value a switch caches for a VM is a host that VM has run on. Several paths install mappings: promotion from spine to core, core admission, demotion of evicted pairs, learning packets, source learning and invalidation rewrites. Any of them could install a pair that never existed, and it would take several switches in sequence to do it. |
| `PacketsDelivered` | SwitchV2P | Every packet sent eventually reaches the host its VM runs on. No stale hit, misdelivery or follow-me redirect may lose or loop it. |
| `StaleHitRepaired` | SwitchV2P | Once a switch has served a hit from a stale entry, it eventually stops holding that entry. The invalidation protocol removes it or an eviction replaces it. |
| `MapMatchesDeque` | LRUCacheSpec | `m_map` and `m_dq` hold the same keys, each once, and never more than the capacity. |
| `ImplementsRecencyCache` | LRUCacheSpec | The refinement: every step is a RecencyCache step. |
| `ReleasedInQueueOrder` | Bluebird | Packets sent to the control plane are released in the order they were queued, whatever their sizes. |
| `ReleasedAfterRoundTrip` | Bluebird | An action property: no packet is released before its transmission time plus the control-plane latency have passed since it arrived, however long it queued. |
| `QueuedPacketsReleased` | Bluebird | Every queued packet is eventually released. |
| `CostMatchesTable` | MC_Setup | `GetPacketCost` equals the spec's cost table wherever the table has an entry. |
| `PlacementKeepsGateways` | MC_Setup | `ParsePlacement` puts the gateways on exactly the leaves `GatewayLeaves` lists, numbered in order, and keeps the servers in file order, as long as the read past the end of `GatewayLeaves` does not match. |
| `AddressesUnique` | MC_Setup | No two interfaces share an address; each leaf's and core's switch address is one of its interfaces; spine addresses are distinct and belong to no interface. |
| `LearningReachesHostLeaf` | MC_Setup | The leaf address `GeneratePacketToLeaf` decodes from a host's address is the address of that host's leaf switch. |
| `GatewaysShareContainers` | MC_Setup | `GetGatewayIdx` maps every container id to an existing gateway, and every gateway gets some container. |
| `RoutesReachDestinations` | MC_Setup | From every node, a packet to any host reaches it, and from every leaf a protocol packet to any switch's address reaches that switch, within 6 hops on every ECMP choice. |
| `ClientSendsFlowsAtTraceTime` | MC_Setup | Whatever order the trace lists a container's flows in, and whatever order the unstable sort leaves equal timestamps in, the ClientApp sends every flow once, at its timestamp, and never with a negative delay. |
| `PlacementDeploysEveryNode` | MC_Setup | `ParsePlacement` deploys every server of the placement file and every gateway, as its closing `NS_ASSERT` states. |
| `FollowMeReachesMigrationDestination` | MC_Setup | The follow-me address of a misdelivery is the host address `UpdateMappings` writes for the migration destination. |
| `PlacementCoversCountedFlows` | Controller | After a solve, every flow counted at its source's leaf is cached on some switch its packets cross before the gateway. |
| `PacketsDelivered` | Controller | Every packet is eventually delivered, although controller-installed mappings are never invalidated. |
| `ControllerIsAuthoritative` | Controller | After a solve, every switch caching a destination of that solve's traffic caches the value the solve read. |
| `CachedMappingsAreHistorical` | Baselines | A learning switch only caches a VM at a host it has run on. |
| `PacketsDelivered` | Baselines | Every packet is eventually delivered, in every mode. |

## Runs

| Run | Module / cfg | Checks | Result |
|---|---|---|---|
| safety | MC_SwitchV2P / `MC_SwitchV2P.cfg` | TwoCore, both flows, access bits, protocol packets may be lost; `TypeOK`, `CachedMappingsAreHistorical` | pass, about 1.2M states, 60 s |
| live | MC_SwitchV2P / `MC_SwitchV2P_live.cfg` | Pod, one flow (VM a to VM b, b migrating); two initial settings: access bits only, and source learning with the bloom filter without access bits; `PacketsDelivered`, `StaleHitRepaired` | pass, about 80 s |
| srclearn_wrong | MC_SwitchV2P / `MC_SwitchV2P_srclearn_wrong.cfg` | TwoCore with source learning; `CachedMappingsAreHistorical` | violation |
| gwleaf | MC_SwitchV2P / `MC_SwitchV2P_gwleaf.cfg` | Pod, the migration under the GW_LEAF; `StaleHitRepaired` | violation |
| lru | LRUCacheSpec / `MC_LRUCache.cfg` | 4 keys, 2 values, capacity 3; `MapMatchesDeque`, `ImplementsRecencyCache` | pass |
| bluebird | MC_Bluebird / `MC_Bluebird.cfg` | 3 packets, queue of 1, one-entry cache; the three Bluebird properties | pass, 9k states |
| setup | MC_Setup / `MC_Setup.cfg` | cost inputs: leaves 0..3 in pods of 2, 1..6 steps, 0 or 2 cores; set-up inputs: Clos and fat-tree, 8 or 10 ports, 0/2/4 cores, pod width 1/2/4, 4 to 16 servers with 0 to 2 containers each, six GatewayLeaves lists and three memory contents past their end; traces of 1 to 3 flows with timestamps 0..2; `CostMatchesTable`, the five set-up properties and `ClientSendsFlowsAtTraceTime` | pass, 10.6k states, about 95 s |
| controller | MC_Controller / `MC_Controller.cfg` | one flow, one solve; `PlacementCoversCountedFlows`, `PacketsDelivered` | pass, 77k states |
| controller_stale | MC_Controller / `MC_Controller_stale.cfg` | two solves; `ControllerIsAuthoritative` | violation |
| baselines | MC_Baselines / `MC_Baselines.cfg` | all five modes, both flows, one slot, the 40µs first OnDemand packet; `CachedMappingsAreHistorical`, `PacketsDelivered` | pass |
| followme | MC_Setup / `MC_Setup_followme.cfg` | Clos and fat-tree, 16 or 25 servers at 8 or 10 ports, PodWidth 4; `FollowMeReachesMigrationDestination` | violation |
| placement | MC_Setup / `MC_Setup_placement.cfg` | Clos, 8, 9 or 12 servers at 8 or 10 ports, the six GatewayLeaves lists; `PlacementDeploysEveryNode` | violation |

### Findings

1. **srclearn_wrong** (code bug). With source learning on, a LEAF runs `Put(inner source, outer source)` for every packet whose TTL shows it crossed the fabric (`p4-switch-app.cc:472-474`). A host that misdelivers a packet re-tunnels it with itself as the outer source, and the gateway keeps that outer source. So the leaf caches the sending VM at the destination VM's old host, a host the sender never ran on. The trace is two sends, one migration, a stale hit, a misdelivery through the gateway, and source learning at the sender's leaf.
2. **gwleaf** (spec gap). Only a switch of type LEAF consumes the Hit tag and sends the invalidation (`p4-switch-app.cc:423`). When a VM migrates between two hosts under the GW_LEAF, the misdelivered packet never crosses a LEAF. The invalidation protocol never removes the entry from the leaf that served the stale hit: it stays until an eviction, or a later learning packet from the GW_LEAF (sent with some probability), replaces it.
3. **controller_stale** (spec gap). `BulkInsertToCache` only Puts (`switch-app.cc:77`). Nothing removes a mapping that a later solve does not choose. A mapping inserted between `Migration` and `UpdateMappings` keeps the old host on its switch until LRU eviction. The spec calls the controller authoritative for the switches it controls.
4. **followme** (code bug). `SendFollowMeRule` computes the migration destination with the `PodWidth` parameter (`socket-helper.cc:29`). In a Clos fabric `m_podWidth` is the leaf count (`sim-base.cc:15`), and every host address, the directory's included, is computed with it. With five leaves and the default `PodWidth` of 4, the destination on leaf 4 is `1.4.j.1` but the follow-me packet goes to `2.0.j.1`, which no host has, so the misdelivered packet is lost. TLC finds it in the first state: Clos, 10 ports, 25 servers. The other models address hosts by name and so cannot show it.
5. **placement** (code bug). `ParsePlacement` makes `totalLeaves` the number of servers divided by `NumOfPorts/2`, rounded down (`trace-sim.cc:185`). With 9 servers at 8 ports it builds two leaves of four, and the ninth server and its containers are never deployed. The branch for a partial last leaf (`serversInLeaf`, line 203) can then only take a whole leaf. The `NS_ASSERT` at line 224 says every server and gateway is deployed: a debug build aborts, and an optimized build, where `NS_ASSERT` is compiled out, runs without them. TLC finds it in the first state.

A read that was checked by hand, not by a run: with `PlacementKeepsGateways` checked on every value past the end of `GatewayLeaves`, TLC finds at once that `gwLeaves = <<0>>` followed in memory by a `0` deploys a second gateway on leaf 0 (`trace-sim.cc:197`). In a debug build the `NS_ASSERT` at line 224 stops the run; in a release build the extra gateway takes a share of the containers.

A remark that was not checked: the ILP has no constraint against placing the same destination on several switches of one path. Such a placement costs no more than a single one, so z3 may return it.

## Bounds, and why they are enough

* **SwitchV2P.**
  * **Two data packets** (`MaxPackets = 2`). One packet installs a mapping, the migration makes it stale, and the second packet is served the stale hit and misdelivered. Protocol packets are not bounded; they are a set, and identical packets in flight merge.
  * **One cache slot per switch,** so every pair of keys collides. **One migration.**
  * The SPINE refusal branch (bit set and key not cached) needs a third packet. A three-packet configuration ran past 7M states, so the runs do not reach it. Every other action and disjunct fires.
* **LRUCacheSpec.** Capacity 3 with 4 keys reaches a full cache, eviction, and a Put of a present key in a full cache.
* **Bluebird.** Three packets and a queue of one reach a hit, a drop, queueing behind a busy link, and an arrival during the programming delay. Packet p1 takes twice as long to transmit, so a reordering would show. `Horizon = 5` lets arrivals happen before, during and after the first round trip.
* **PacketCost.** Two pods of two leaves and 1..6 steps cover every row of the table: same leaf, same pod, other pod, and the gateway in either pod.
* **Setup.** Up to four leaves, with one or several pods and with and without cores, is enough to reach every kind of interface, gateways on several leaves and two on one leaf, a container count that is not a multiple of the gateway count (so the clamp of `GetGatewayIdx` matters), and placements that are not a multiple of a leaf. 9 and 4 servers at 10 ports make leftover servers and an empty fabric, which `Admitted` rejects. The routes are checked with one container per server and nothing read past `GatewayLeaves`, on which they do not depend, and on fat-trees whose pods are linked by cores (`PodsLinked`); this covers one pod and two or four pods with two or four cores. For `followme`, five Clos leaves are the fewest in which a leaf index reaches the `PodWidth` of 4.
* **ClientSchedule.** Up to three flows with timestamps 0..2, in every file order, reach unsorted traces, equal timestamps (where the unstable sort may reorder), a flow at time 0, and a last flow whose timestamp is the trace's latest (the one a stop time without the margin would cancel).
* **Controller.**
  * One flow and two packets: the first is counted, the solve places its destination, and the second is served.
  * In the pass run, one solve (`MaxSolves = 1`).
  * The violation runs need two solves: one before the migration and one after it.
  * The traffic count saturates at `CountCap = MaxPackets`, the most a leaf can count when each packet crosses it once.
* **Baselines.** Two packets, both flows and one slot, so the two VMs collide in every learning cache. A single run covers all five modes.

## Fairness

ns-3 executes every scheduled event, so the following are weakly fair:
* each packet's next handler step (`PacketStep(i)`);
* the handling of protocol packets;
* `UpdateMappings`, which `Migration` schedules;
* Bluebird's `RunEvent`.

`Send`, `Migration` and `QuerySwitches` are not fair. The trace decides what is sent and when the VM moves. The controller's runs are bounded by `MaxSolves`, and delivery must not depend on them.

`CHECK_DEADLOCK FALSE` is set wherever the system legitimately stops: every packet delivered, or the time horizon reached.

## Mutants

Each property of a passing run is broken by a plausible bug in a mapped definition. PROJECT.json lists them:
* `SpinePromoteNoFind` and `SpinePromoteGwTag` (promotion);
* `GatewayReceiveNoResolve` (directory lookup skipped);
* `InvalidateHitSwitchWrongPair` and `InvalidateHitSwitchBloomInverted` (invalidation);
* `PutNoErase` and `GetNoPromote` (LRU);
* `ArriveNoBusyCheck`, `TxCompleteNoDequeue` and `TxStartEventsNoTxTime` (Bluebird);
* `GetPacketCostNoCoreCheck` (cost);
* `DeployNoBoundCheck`, `GetSwitchBaseAddressNoOffset`, `GeneratePacketToLeafNoPodOffset`, `GetGatewayIdxNoClamp` and `CoreRoutesOffByOne` (set-up and routing);
* `CalculateDestinationsNoSort`, `ScheduleNextAbsolute` and `StopTimeNoMargin` (client send schedule);
* `BulkInsertSkipFirst` and `MisdeliverToGateway` (controller);
* `SwitchReceiveLearnGw` (baselines).

## Not modelled

* **Repair under loss.** The safety run drops protocol packets, and shows that a partial invalidation or a lost learning packet never leaves a wrong mapping. The liveness runs keep protocol packets lossless. Under loss there is no retransmission, and the bloom filter makes one lost invalidation permanent, because its bit is set when the packet is sent (`p4-switch-app.cc:447`). So `StaleHitRepaired` would fail by design, and no run is left to show it.
* **Probabilities.** The GW_LEAF learning-packet probability is a coin.
* **Controller beyond one pod.** The cross-pod cost with cores is checked in PacketCost only, not in the Controller's optimisation. Several gateways and `GetFlowHash` are abstracted: one gateway, and a number per source host.
* **Time in the host.** The 40µs delay of a host's first OnDemand packet, and the 1000µs before `UpdateMappings`, are orderings only. The send times of a ClientApp are modelled in ClientSchedule, on its own.
* **Per-flow gateway load balancing.** `GetGatewayIdx` with `GatewayPerFlowLoadBalancing` picks a gateway by the CRC32 of the flow id. The packet models have one gateway, so the choice cannot matter there.
* **The TCP client, tag serialization, the text of the trace, and statistics.** These are I/O and configuration, and the TCP client is ns-3's TCP stack. The parameters are read by JSON and command-line parsers; the trace is modelled by its timestamps; the placement is modelled by its shape (a number of servers with the same number of containers each), not its text.
* **Bloom filter layout.** The filter's capacity is not modelled; the filter is a set of switch ids. Switch node ids run up to `coreCount + 2 * leafCount - 1`, so the default 80 entries overflow in a Clos fabric of more than 40 leaves.
* **Routing in the packet models.** SwitchV2P, Controller and Baselines take all shortest paths of the link graph; Routing checks separately that the hand-written routes deliver along such paths.
* **A fat-tree without cores.** With `NumOfCore` 0 and several pods no route links the pods; no assert rejects it, and the routing run excludes it.

## Planned

1. A run with two migrations, to reach the bloom filter's suppression of a second invalidation to the same switch.
2. Larger instances: three packets for the SPINE refusal branch, two flows in the Controller pass run.
