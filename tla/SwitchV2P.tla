------------------------------ MODULE SwitchV2P ------------------------------
(***************************************************************************)
(* The SwitchV2P fabric: P4 switches (P4SwitchApp in SwitchV2P mode) that  *)
(* learn, serve and invalidate virtual-to-physical mappings from data      *)
(* packets, the gateway that resolves misses from the directory, the hosts *)
(* that redirect misdelivered packets after a migration (SocketHelper),    *)
(* and the point-to-point protocol packets the switches exchange.          *)
(*                                                                         *)
(* Sources: src/switchv2p/p4-switch-app.cc (ReceivePacket,                 *)
(* HandleProtocolPacket, GeneratePacketToAddress), gateway-app.cc,      *)
(* socket-helper.cc (VirtualSend), trace-sim.cc (roles, Migration,         *)
(* UpdateMappings), client-app.cc (SendPacket).                            *)
(*                                                                         *)
(* Every switch handles one packet at a time, to completion (one ns-3      *)
(* event), so each handler is one atomic action.  Packets in flight are    *)
(* not ordered: ECMP may send packets of one flow over different paths.    *)
(***************************************************************************)
EXTENDS Naturals, FiniteSets

CONSTANTS
    Leaves, Spines, Cores,  \* switches of each tier
    Links,                  \* switch-to-switch links, as <<lower, upper>> pairs
    Hosts,                  \* physical machines
    LeafOf,                 \* the leaf each host is attached to
    GwHosts,                \* hosts running a GatewayApp
    VMs,                    \* virtual addresses (containers)
    InitLoc,                \* the host of each VM at start (SetupTunnel)
    MigVM, MigDst,          \* MigrationParams: the container and its new host
    Flows,                  \* <<source VM, destination VM>> pairs that send
    Slots,                  \* the slot indices of a cache (MemorySize)
    Hash,                   \* Hash[s][k]: GetIndex(k) at switch s
    Attributes,             \* the SourceLearning, AccessBit and BloomFilter
                            \* attribute values the run starts from
    GenerateInvalidations,
    LossyDelivery,          \* protocol packets may be dropped by a full queue
    MaxPackets,             \* bound on the data packets the clients send
    None, Done, NoKey, NoVal

Switches == Leaves \cup Spines \cup Cores
Nodes == Switches \cup Hosts

ASSUME /\ Links \subseteq (Switches \X Switches)
       /\ LeafOf \in [Hosts -> Leaves]
       /\ GwHosts \subseteq Hosts /\ GwHosts # {}
       /\ InitLoc \in [VMs -> Hosts \ GwHosts]
       /\ MigVM \in VMs /\ MigDst \in Hosts \ GwHosts
       /\ Flows \subseteq VMs \X VMs
       /\ Hash \in [Switches -> [VMs -> Slots]]
       /\ MaxPackets \in Nat \ {0}

C == INSTANCE P4Cache

-----------------------------------------------------------------------------
(* Topology and routing.  Routing tables are out of scope: packets follow  *)
(* shortest paths, and any of several equal-cost next hops may be taken.   *)

Adj(n) == {m \in Switches : <<n, m>> \in Links \/ <<m, n>> \in Links}
          \cup {h \in Hosts : LeafOf[h] = n}
          \cup (IF n \in Hosts THEN {LeafOf[n]} ELSE {})

RECURSIVE Within(_, _)
Within(n, d) == IF d = 0 THEN {n}
                ELSE LET W == Within(n, d - 1) IN W \cup UNION {Adj(m) : m \in W}

DistTab == [n \in Nodes |-> [t \in Nodes |->
              CHOOSE d \in 0..Cardinality(Nodes) :
                 t \in Within(n, d) /\ (d = 0 \/ t \notin Within(n, d - 1))]]

HopTab == [n \in Nodes |-> [t \in Nodes |->
              {m \in Adj(n) : DistTab[m][t] = DistTab[n][t] - 1}]]

NextHops(n, t) == HopTab[n][t]

\* The switch roles the simulation assigns (trace-sim.cc, SetupApplications).
GwLeaves == {LeafOf[g] : g \in GwHosts}
Role(s) ==
    CASE s \in Leaves -> IF s \in GwLeaves THEN "GW_LEAF" ELSE "LEAF"
      [] s \in Spines -> IF \E l \in GwLeaves : <<l, s>> \in Links
                         THEN "GW_SPINE" ELSE "SPINE"
      [] s \in Cores  -> "CORE"

Slot(s, k) == Hash[s][k]

-----------------------------------------------------------------------------
VARIABLES
    cache,      \* cache[s]: the P4Cache m_cache of switch s
    bloom,      \* bloom[s]: the switch ids set in m_bloomFilter of s
    pkts,       \* pkts[i]: data packet i, None before the client sends it
    sent,       \* number of data packets sent
    ctl,        \* protocol packets (port SWITCH_PORT) in flight; two
                \* identical ones in flight are merged
    loc,        \* the host each VM really runs on
    dir,        \* the virtual-to-physical directory m_virtualToPhysical
    migrated,   \* Migration() has run
    locHist,    \* history: every host each VM has run on
    staleHit,   \* ghost: <<s, k, v>> when s served a hit from a stale k -> v
                \* that it still holds
    attrs       \* [sourceLearning, accessBit, bloomFilter]: m_sourceLearning,
                \* m_accessBit and m_bloomFilterEnabled, fixed at start

vars == <<cache, bloom, pkts, sent, ctl, loc, dir, migrated, locHist, staleHit, attrs>>

Pair == VMs \X Hosts
Packet == [vsrc : VMs, vdst : VMs, src : Hosts, psrc : Hosts, pdst : Hosts,
           at : Nodes \cup {Done}, ttl : 0..2, ev : Pair \cup {None},
           inv : Pair \cup {None}, hit : Switches \cup {None}]
Control == [kind : {"inv", "learn"}, k : VMs, v : Hosts, dst : Switches,
            at : Switches]
SlotRec == [key : VMs \cup {NoKey}, val : Hosts \cup {NoVal}, bit : {0, 1}]

TypeOK ==
    /\ cache \in [Switches -> [Slots -> SlotRec]]
    /\ bloom \in [Switches -> SUBSET Switches]
    /\ pkts \in [1..MaxPackets -> Packet \cup {None}]
    /\ sent \in 0..MaxPackets
    /\ ctl \subseteq Control
    /\ loc \in [VMs -> Hosts] /\ dir \in [VMs -> Hosts]
    /\ migrated \in BOOLEAN
    /\ locHist \in [VMs -> SUBSET Hosts]
    /\ staleHit \subseteq Switches \X VMs \X Hosts
    /\ attrs \in [sourceLearning : BOOLEAN, accessBit : BOOLEAN, bloomFilter : BOOLEAN]

Init ==
    /\ cache = [s \in Switches |-> [j \in Slots |-> C!EmptySlot]]
    /\ bloom = [s \in Switches |-> {}]
    /\ pkts = [i \in 1..MaxPackets |-> None]
    /\ sent = 0
    /\ ctl = {}
    /\ loc = InitLoc /\ dir = InitLoc
    /\ migrated = FALSE
    /\ locHist = [v \in VMs |-> {InitLoc[v]}]
    /\ attrs \in Attributes
    /\ staleHit = {}

-----------------------------------------------------------------------------
(* Hosts, the gateway and the migration.                                   *)

\* ClientApp::SendPacket through SocketHelper::VirtualSend: a fresh packet
\* is tunnelled to the gateway.  The ClientApp stays on the host it was
\* installed on at set-up (SetupApplications); a migration moves only the
\* container's address, so the packet leaves from InitLoc.
Send ==
    /\ sent < MaxPackets
    /\ \E f \in Flows, g \in GwHosts :
         pkts' = [pkts EXCEPT ![sent + 1] =
                    [vsrc |-> f[1], vdst |-> f[2], src |-> InitLoc[f[1]],
                     psrc |-> InitLoc[f[1]], pdst |-> g, at |-> LeafOf[InitLoc[f[1]]],
                     ttl |-> 0, ev |-> None, inv |-> None, hit |-> None]]
    /\ sent' = sent + 1
    /\ UNCHANGED <<cache, bloom, ctl, loc, dir, migrated, locHist, staleHit>>

HostAt(i, h) == pkts[i] # None /\ pkts[i].at = h /\ h \in Hosts

\* Mutant: the outer destination is not rewritten from the directory.
GatewayReceiveNoResolve(i) ==
    LET p == pkts[i] IN
    /\ HostAt(i, p.at) /\ p.at \in GwHosts
    /\ pkts' = [pkts EXCEPT ![i] = [p EXCEPT !.ev = None, !.inv = None,
                                              !.at = LeafOf[p.at]]]
    /\ UNCHANGED <<cache, bloom, sent, ctl, loc, dir, migrated, locHist, staleHit>>

\* GatewayApp::ReceivePacket and SendPacket: resolve the destination from
\* the directory, strip the eviction and invalidation tags, send back.
GatewayReceive(i) ==
    LET p == pkts[i] IN
    /\ HostAt(i, p.at) /\ p.at \in GwHosts
    /\ pkts' = [pkts EXCEPT ![i] = [p EXCEPT !.pdst = dir[p.vdst], !.ev = None,
                                      !.inv = None, !.at = LeafOf[p.at]]]
    /\ UNCHANGED <<cache, bloom, sent, ctl, loc, dir, migrated, locHist, staleHit>>

\* The destination VM runs on the host: the packet reaches its sink.
Deliver(i) ==
    LET p == pkts[i] IN
    /\ HostAt(i, p.at) /\ p.at \notin GwHosts /\ loc[p.vdst] = p.at
    /\ pkts' = [pkts EXCEPT ![i].at = Done]
    /\ UNCHANGED <<cache, bloom, sent, ctl, loc, dir, migrated, locHist, staleHit>>

\* SocketHelper::VirtualSend of a forwarded packet (TTL < 64) for a VM the
\* host no longer runs: tag it Invalidation(vdst, this host) and re-tunnel
\* it, to the gateway if a switch served it from its cache, else straight to
\* the migration destination (SendFollowMeRule with misdelivery).
Misdeliver(i) ==
    LET p == pkts[i] IN
    /\ HostAt(i, p.at) /\ p.at \notin GwHosts /\ loc[p.vdst] # p.at
    /\ \E g \in GwHosts :
         pkts' = [pkts EXCEPT ![i] =
                    [p EXCEPT !.inv = <<p.vdst, p.at>>, !.psrc = p.at, !.ttl = 0,
                              !.pdst = IF p.hit # None THEN g ELSE MigDst,
                              !.at = LeafOf[p.at]]]
    /\ UNCHANGED <<cache, bloom, sent, ctl, loc, dir, migrated, locHist, staleHit>>

\* TraceSimulation::Migration: the container moves to its new host.
Migration ==
    /\ ~migrated
    /\ migrated' = TRUE
    /\ loc' = [loc EXCEPT ![MigVM] = MigDst]
    /\ locHist' = [locHist EXCEPT ![MigVM] = @ \cup {MigDst}]
    /\ UNCHANGED <<cache, bloom, pkts, sent, ctl, dir, staleHit>>

\* TraceSimulation::UpdateMappings, scheduled by Migration.
UpdateMappings ==
    /\ migrated /\ dir[MigVM] # MigDst
    /\ dir' = [dir EXCEPT ![MigVM] = MigDst]
    /\ UNCHANGED <<cache, bloom, pkts, sent, ctl, loc, migrated, locHist, staleHit>>

-----------------------------------------------------------------------------
(* P4SwitchApp::ReceivePacket on a data packet, one action per branch of   *)
(* the handler.  Each ends with the same tail: for a packet still bound to *)
(* a gateway, look the virtual destination up and on a hit rewrite the     *)
(* physical destination and attach Hit(self); then forward.                *)

DataAt(i, s) == pkts[i] # None /\ pkts[i].at = s /\ s \in Switches

Stale(c, j) == c[j].val # NoVal /\ c[j].val # loc[c[j].key]

\* The ghost after a step that sets cache': the stale hits in add join, and
\* a stale hit leaves once its switch no longer holds the pair.
Repair(add) ==
    staleHit' = {e \in staleHit \cup add :
                    cache'[e[1]][Slot(e[1], e[2])].key = e[2]
                    /\ cache'[e[1]][Slot(e[1], e[2])].val = e[3]}

\* Forward the (possibly rewritten) packet one hop toward its destination.
Forward(i, s, p) ==
    \E n \in NextHops(s, p.pdst) :
        pkts' = [pkts EXCEPT ![i] = [p EXCEPT !.at = n,
                                               !.ttl = IF @ < 2 THEN @ + 1 ELSE 2]]

\* The hit lookup that ends ReceivePacket, applied to cache c after the
\* learning step, then forwarding; out is the bag of protocol packets the
\* handler generated.
LookupAndForward(i, s, c, p, out) ==
    LET j   == Slot(s, p.vdst)
        gw  == p.pdst \in GwHosts
        hit == gw /\ C!Find(c, j, p.vdst)
    IN /\ cache' = [cache EXCEPT ![s] = IF gw THEN C!Get(c, j, p.vdst) ELSE c]
       /\ Forward(i, s, IF hit THEN [p EXCEPT !.pdst = c[j].val, !.hit = s] ELSE p)
       /\ ctl' = ctl \cup out
       /\ Repair(IF hit /\ Stale(c, j) THEN {<<s, p.vdst, c[j].val>>} ELSE {})
       /\ UNCHANGED <<bloom, sent, loc, dir, migrated, locHist>>

\* Get(k) then, when the cached value equals v, Remove(k): the invalidation
\* step of ReceivePacket and of HandleProtocolPacket.
Invalidate(c, j, k, v) ==
    IF C!Find(c, j, k) /\ c[j].val = v THEN C!Remove(C!Get(c, j, k), j, k)
    ELSE C!Get(c, j, k)

\* GeneratePacketToAddress: a protocol packet sent from s, unless to itself.
Emit(s, kind, pair, dst) ==
    IF dst = s THEN {}
    ELSE {[kind |-> kind, k |-> pair[1], v |-> pair[2], dst |-> dst, at |-> s]}

\* BloomFilter<uint32_t>::Get and Put: GetIndex(key) is the key itself, so
\* the filter is the set of switch ids put so far.
BloomGet(b, id) == id \in b
BloomPut(b, id) == b \cup {id}

\* At a LEAF the Hit tag of a packet carrying Invalidation(k, v) is
\* consumed; unless the bloom filter has seen the hit switch's id,
\* Invalidation(vdst, v) is sent back to the switch that served the hit.
Consumes(s, p) == Role(s) = "LEAF" /\ p.hit # None

\* Mutant: the packet's physical destination sent instead of v.
InvalidateHitSwitchWrongPair(s, p, v) ==
    IF Consumes(s, p) /\ GenerateInvalidations /\ ~(attrs.bloomFilter /\ p.hit \in bloom[s])
    THEN Emit(s, "inv", <<p.vdst, p.pdst>>, p.hit) ELSE {}

\* Mutant: the bloom filter test inverted.
InvalidateHitSwitchBloomInverted(s, p, v) ==
    IF Consumes(s, p) /\ GenerateInvalidations /\ ~(attrs.bloomFilter /\ p.hit \notin bloom[s])
    THEN Emit(s, "inv", <<p.vdst, v>>, p.hit) ELSE {}

InvalidateHitSwitch(s, p, v) ==
    IF Consumes(s, p) /\ GenerateInvalidations /\ ~(attrs.bloomFilter /\ BloomGet(bloom[s], p.hit))
    THEN Emit(s, "inv", <<p.vdst, v>>, p.hit) ELSE {}

\* The Invalidation(k, v) branch: a cached k equal to v is removed, a
\* different cached value becomes the destination; then the leaf step
\* above, and the hit switch id is set in the bloom filter.
InvalidationReceive(i) ==
    LET s  == pkts[i].at
        p  == pkts[i]
        k  == p.inv[1]
        v  == p.inv[2]
        j  == Slot(s, k)
        c  == cache[s]
        p1 == IF C!Find(c, j, k) /\ c[j].val # v THEN [p EXCEPT !.pdst = c[j].val] ELSE p
    IN /\ DataAt(i, s) /\ p.inv # None
       /\ cache' = [cache EXCEPT ![s] = Invalidate(c, j, k, v)]
       /\ Forward(i, s, IF Consumes(s, p) THEN [p1 EXCEPT !.hit = None] ELSE p1)
       /\ ctl' = ctl \cup InvalidateHitSwitch(s, p, v)
       /\ bloom' = IF Consumes(s, p) /\ attrs.bloomFilter
                   THEN [bloom EXCEPT ![s] = BloomPut(@, p.hit)] ELSE bloom
       /\ Repair({})
       /\ UNCHANGED <<sent, loc, dir, migrated, locHist>>

\* Mutant: the return value of Get is ignored.
SpinePromoteNoFind(i) ==
    LET s == pkts[i].at
        p == pkts[i]
        j == Slot(s, p.vdst)
    IN /\ DataAt(i, s) /\ p.inv = None
       /\ Role(s) = "SPINE" /\ p.pdst \in GwHosts
       /\ cache' = [cache EXCEPT ![s] = C!Get(cache[s], j, p.vdst)]
       /\ Forward(i, s, [p EXCEPT !.ev = <<p.vdst, cache[s][j].val>>])
       /\ Repair({})
       /\ UNCHANGED <<bloom, sent, ctl, loc, dir, migrated, locHist>>

\* Mutant: the tag carries the physical destination, not the cached value.
SpinePromoteGwTag(i) ==
    LET s == pkts[i].at
        p == pkts[i]
        j == Slot(s, p.vdst)
    IN /\ DataAt(i, s) /\ p.inv = None
       /\ Role(s) = "SPINE" /\ p.pdst \in GwHosts
       /\ C!Find(cache[s], j, p.vdst)
       /\ cache' = [cache EXCEPT ![s] = C!Get(cache[s], j, p.vdst)]
       /\ Forward(i, s, [p EXCEPT !.ev = <<p.vdst, p.pdst>>])
       /\ Repair({})
       /\ UNCHANGED <<bloom, sent, ctl, loc, dir, migrated, locHist>>

\* A SPINE holding the destination of a gateway-bound packet attaches
\* Eviction(vdst, cached) for the core to learn, and forwards the packet
\* without rewriting it.
SpinePromote(i) ==
    LET s == pkts[i].at
        p == pkts[i]
        j == Slot(s, p.vdst)
    IN /\ DataAt(i, s) /\ p.inv = None
       /\ Role(s) = "SPINE" /\ p.pdst \in GwHosts
       /\ C!Find(cache[s], j, p.vdst)
       /\ cache' = [cache EXCEPT ![s] = C!Get(cache[s], j, p.vdst)]
       /\ Forward(i, s, [p EXCEPT !.ev = <<p.vdst, cache[s][j].val>>])
       /\ Repair({})
       /\ UNCHANGED <<bloom, sent, ctl, loc, dir, migrated, locHist>>

\* A LEAF learns the source of a packet that has crossed the fabric when
\* source learning is on; otherwise it admits a resolved destination only
\* into an empty slot or the slot already holding it.
LeafReceive(i) ==
    LET s == pkts[i].at
        p == pkts[i]
        c == cache[s]
        srcLearn == attrs.sourceLearning /\ p.ttl >= 2
    IN /\ DataAt(i, s) /\ p.inv = None /\ Role(s) = "LEAF"
       /\ \/ srcLearn
             /\ LookupAndForward(i, s, C!Put(c, Slot(s, p.vsrc), p.vsrc, p.psrc), p, {})
          \/ ~srcLearn /\ p.pdst \notin GwHosts
             /\ LookupAndForward(i, s, C!PutIfNotEvict(c, Slot(s, p.vdst), p.vdst, p.pdst),
                                 p, {})
          \/ ~srcLearn /\ p.pdst \in GwHosts
             /\ LookupAndForward(i, s, c, p, {})

(* The non-leaf tiers learn the Eviction tag the packet carries (removing  *)
(* it), or else the resolved destination of a packet not bound to a        *)
(* gateway.                                                                *)
Learn(p) == IF p.ev # None THEN p.ev ELSE <<p.vdst, p.pdst>>
Learns(p) == p.ev # None \/ p.pdst \notin GwHosts

\* The packet after Put(learn) at slot j: the evicted pair, if any,
\* becomes its Eviction tag.
Demote(p, c, j, k) ==
    [p EXCEPT !.ev = IF C!Evicts(c, j, k) THEN C!Evicted(c, j) ELSE None]

\* CORE: a carried Eviction is admitted only for the packet's own
\* destination, into a slot whose access bit is clear, when not cached yet;
\* otherwise the tag goes on.  An untagged destination is admitted only into
\* an empty slot or its own.
CoreReceive(i) ==
    LET s == pkts[i].at
        p == pkts[i]
        c == cache[s]
        l == Learn(p)
        j == Slot(s, l[1])
        admit == l[1] = p.vdst /\ C!GetBit(c, j) = 0 /\ ~C!Find(c, j, l[1])
    IN /\ DataAt(i, s) /\ p.inv = None /\ Role(s) = "CORE"
       /\ \/ ~Learns(p) /\ LookupAndForward(i, s, c, p, {})
          \/ p.ev # None /\ admit
             /\ LookupAndForward(i, s, C!Put(c, j, l[1], l[2]),
                                 Demote(p, c, j, l[1]), {})
          \/ p.ev # None /\ ~admit /\ LookupAndForward(i, s, c, p, {})
          \/ p.ev = None /\ p.pdst \notin GwHosts
             /\ LookupAndForward(i, s, C!PutIfNotEvict(c, j, l[1], l[2]), p, {})

\* SPINE and GW_SPINE with access bits: a learned pair is refused when its
\* slot's access bit is set and it is not cached (a carried tag goes on);
\* otherwise it is put, and the pair it evicts is demoted on the packet.
\* A SPINE first looks up a gateway-bound destination (SpinePromote on a
\* hit), which on a miss clears the slot's access bit.
SpineReceive(i) ==
    LET s  == pkts[i].at
        p  == pkts[i]
        c  == IF Role(s) = "SPINE" /\ p.pdst \in GwHosts
              THEN C!Get(cache[s], Slot(s, p.vdst), p.vdst) ELSE cache[s]
        l  == Learn(p)
        j  == Slot(s, l[1])
        refuse == C!GetBit(c, j) = 1 /\ ~C!Find(c, j, l[1])
    IN /\ DataAt(i, s) /\ p.inv = None
       /\ Role(s) \in {"SPINE", "GW_SPINE"} /\ attrs.accessBit
       /\ ~(Role(s) = "SPINE" /\ p.pdst \in GwHosts
            /\ C!Find(cache[s], Slot(s, p.vdst), p.vdst))
       /\ \/ ~Learns(p) /\ LookupAndForward(i, s, c, p, {})
          \/ Learns(p) /\ refuse /\ LookupAndForward(i, s, c, p, {})
          \/ Learns(p) /\ ~refuse
             /\ LookupAndForward(i, s, C!Put(c, j, l[1], l[2]),
                                 Demote(p, c, j, l[1]), {})

\* GW_LEAF (and the spines when access bits are off): every learned pair is
\* put, the evicted pair is demoted on the packet, and a GW_LEAF may (with
\* probability GenerateProbability) send the pair to the source's leaf.
GwLeafReceive(i) ==
    LET s == pkts[i].at
        p == pkts[i]
        c == IF Role(s) = "SPINE" /\ p.pdst \in GwHosts
             THEN C!Get(cache[s], Slot(s, p.vdst), p.vdst) ELSE cache[s]
        l == Learn(p)
        j == Slot(s, l[1])
    IN /\ DataAt(i, s) /\ p.inv = None
       /\ \/ Role(s) = "GW_LEAF"
          \/ Role(s) \in {"SPINE", "GW_SPINE"} /\ ~attrs.accessBit
             /\ ~(Role(s) = "SPINE" /\ p.pdst \in GwHosts
                  /\ C!Find(cache[s], Slot(s, p.vdst), p.vdst))
       /\ \/ ~Learns(p) /\ LookupAndForward(i, s, c, p, {})
          \/ Learns(p)
             /\ \E coin \in IF Role(s) = "GW_LEAF" THEN BOOLEAN ELSE {FALSE} :
                  LookupAndForward(i, s, C!Put(c, j, l[1], l[2]), Demote(p, c, j, l[1]),
                     IF coin THEN Emit(s, "learn", l, LeafOf[p.src]) ELSE {})

-----------------------------------------------------------------------------
(* P4SwitchApp::HandleProtocolPacket at the next switch n on the path of a *)
(* protocol packet: an Invalidation(k, v) removes a cached k equal to v    *)
(* (the lookup sets or clears the slot's access bit); at its destination a *)
(* learning packet is put into the cache; elsewhere it is sent on.         *)

ProtocolHop(m, n) ==
    LET c  == cache[n]
        j  == Slot(n, m.k)
        c1 == IF m.kind = "inv" THEN Invalidate(c, j, m.k, m.v) ELSE c
    IN /\ \/ n = m.dst
             /\ cache' = [cache EXCEPT ![n] = IF m.kind = "learn"
                                              THEN C!Put(c1, j, m.k, m.v) ELSE c1]
             /\ ctl' = ctl \ {m}
          \/ n # m.dst
             /\ cache' = [cache EXCEPT ![n] = c1]
             /\ ctl' = (ctl \ {m}) \cup {[m EXCEPT !.at = n]}
       /\ Repair({})
       /\ UNCHANGED <<bloom, pkts, sent, loc, dir, migrated, locHist>>

ProtocolReceive(m) ==
    /\ m \in ctl
    /\ \E n \in NextHops(m.at, m.dst) : ProtocolHop(m, n)

\* A protocol packet is a 64-byte UDP packet sent once and never
\* acknowledged; a DropTailQueue of a device (TxQueue/Drop, counted in
\* m_droppedPackets) may drop it at any hop, after the invalidations of the
\* hops it already passed.
ProtocolLoss(m) ==
    /\ LossyDelivery /\ m \in ctl
    /\ ctl' = ctl \ {m}
    /\ UNCHANGED <<cache, bloom, pkts, sent, loc, dir, migrated, locHist, staleHit>>

-----------------------------------------------------------------------------
PacketStep(i) ==
    \/ InvalidationReceive(i)
    \/ SpinePromote(i)
    \/ LeafReceive(i)
    \/ CoreReceive(i)
    \/ SpineReceive(i)
    \/ GwLeafReceive(i)
    \/ GatewayReceive(i)
    \/ Deliver(i)
    \/ Misdeliver(i)

Next ==
    /\ UNCHANGED attrs
    /\ \/ Send
       \/ Migration
       \/ UpdateMappings
       \/ \E i \in 1..MaxPackets : PacketStep(i)
       \/ \E m \in ctl : ProtocolReceive(m)
       \/ \E m \in ctl : ProtocolLoss(m)

\* ns-3 runs every scheduled event: a packet in flight is eventually
\* handled by the node it reaches, and UpdateMappings eventually runs.
Fairness ==
    /\ \A i \in 1..MaxPackets : WF_vars(UNCHANGED attrs /\ PacketStep(i))
    /\ WF_vars(UNCHANGED attrs /\ \E m \in ctl : ProtocolReceive(m))
    /\ WF_vars(UNCHANGED attrs /\ UpdateMappings)

Spec == Init /\ [][Next]_vars /\ Fairness

-----------------------------------------------------------------------------
(* Properties.                                                             *)

\* Every mapping any switch caches is one that was true at some time: the
\* value is a host the VM ran on.  Learning from Eviction tags, resolved
\* destinations, promotions and learning packets must never pair a VM with
\* a host it never ran on.
CachedMappingsAreHistorical ==
    \A s \in Switches, j \in Slots :
        cache[s][j].val # NoVal => cache[s][j].val \in locHist[cache[s][j].key]

\* Every packet a client sends is eventually delivered to the host its
\* destination VM runs on: hits on stale entries, misdelivery and the
\* gateway and follow-me redirections never lose or loop a packet.
PacketsDelivered ==
    \A i \in 1..MaxPackets : (pkts[i] # None) ~> (pkts[i] # None /\ pkts[i].at = Done)

\* A switch that served a hit from a stale entry k -> v eventually drops
\* that entry: the Invalidation(k, v) the old host attaches to the
\* misdelivered packet, or the protocol packet the leaf sends back to the
\* switch named by the Hit tag, reaches it.
StaleHitRepaired ==
    (staleHit # {}) ~> (staleHit = {})

=============================================================================
