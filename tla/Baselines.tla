------------------------------ MODULE Baselines ------------------------------
(***************************************************************************)
(* The baseline modes of the simulator (trace-sim.cc SetupApplications,    *)
(* socket-helper.cc VirtualSend and SocketRecv, p4-switch-app.cc           *)
(* LocalP4CacheLogic), on the CLOS fabric of sim-base.cc with one pod:     *)
(*                                                                         *)
(*   NoCache        every switch a SwitchApp whose cache nothing fills;   *)
(*   LocalLearning  every switch a P4SwitchApp that learns the resolved    *)
(*                  destination of every packet it forwards and rewrites   *)
(*                  gateway-bound packets on a hit;                        *)
(*   GwCache        only the gateway leaf learns, the others are NoCache;  *)
(*   Direct         hosts send straight to the directory's address;        *)
(*   OnDemand       hosts send straight to the addresses they have seen    *)
(*                  in received packets, and always to the migrating VM.   *)
(*                                                                         *)
(* No switch sets a Hit tag in these modes, so a host that receives a      *)
(* packet for a VM it no longer runs always uses the follow-me rule.  The  *)
(* mode is fixed when the simulation starts: a variable chosen by Init.    *)
(***************************************************************************)
EXTENDS Naturals

CONSTANTS
    NLeaves,        \* m_leafCount = m_spineCount = m_podWidth
    Hosts,          \* physical machines, the gateway's included
    HostLeaf,       \* the leaf a host is attached to
    GwHost,         \* the single gateway
    VMs,            \* containers (their virtual addresses)
    InitLoc,        \* the host of each VM at setup
    MigVM, MigDst,  \* MigrationParams (migration enabled)
    Flows,          \* <<src VM, dst VM>> pairs
    Slots, Hash,    \* P4Cache slots and GetIndex per switch
    Modes,          \* the SimMode values run
    MaxPackets,     \* bound on the data packets the clients send
    None, Done, NoKey, NoVal

SwitchIds == 0 .. (2 * NLeaves - 1)
Leaves == 0 .. (NLeaves - 1)
GwLeaf == HostLeaf[GwHost]

ASSUME /\ HostLeaf \in [Hosts -> Leaves]
       /\ InitLoc \in [VMs -> Hosts \ {GwHost}] /\ MigDst \in Hosts \ {GwHost}
       /\ Hash \in [SwitchIds -> [VMs -> Slots]]
       /\ Modes \subseteq {"NoCache", "LocalLearning", "GwCache", "Direct", "OnDemand"}

C == INSTANCE P4Cache

VARIABLES
    mode,           \* m_simParameters.SimMode
    cache,          \* cache[s]: the P4Cache of a learning switch
    onDemand,       \* onDemand[h]: m_onDemandCache of host h's SocketHelper
    firstPacket,    \* firstPacket[h]: m_firstPacket of host h's SocketHelper
    pkts, sent, loc, dir, migrated,
    locHist         \* ghost: every host each VM has run on

vars == <<mode, cache, onDemand, firstPacket, pkts, sent, loc, dir, migrated, locHist>>

Init ==
    /\ mode \in Modes
    /\ cache = [s \in SwitchIds |-> [j \in Slots |-> C!EmptySlot]]
    /\ onDemand = [h \in Hosts |-> {}]
    /\ firstPacket = [h \in Hosts |-> TRUE]
    /\ pkts = [i \in 1..MaxPackets |-> None]
    /\ sent = 0 /\ loc = InitLoc /\ dir = InitLoc /\ migrated = FALSE
    /\ locHist = [v \in VMs |-> {InitLoc[v]}]

\* SetupApplications: the switches running LocalP4CacheLogic.  In GwCache
\* mode only the gateway leaves are P4SwitchApps (in LocalLearning mode);
\* the others, and every switch of the other modes, are SwitchApps whose
\* LRU cache nothing ever fills.
Learns(s) == mode = "LocalLearning" \/ (mode = "GwCache" /\ s = GwLeaf)

\* VirtualSend in OnDemand mode first inserts the migrating container into
\* the host's on-demand cache.
OnDemandSeen(h) == IF mode = "OnDemand" THEN onDemand[h] \cup {MigVM} ELSE onDemand[h]

\* The outer destination VirtualSend gives a packet that was not
\* misdelivered: the directory's address in Direct mode and for an
\* on-demand-cached destination (SendFollowMeRule with misdelivery false),
\* the gateway otherwise.
Route(h, vdst) ==
    IF mode = "Direct" \/ (mode = "OnDemand" /\ vdst \in OnDemandSeen(h))
    THEN dir[vdst] ELSE GwHost

\* An on-demand-cached destination (the OnDemand branch of VirtualSend).
Direct(h, vdst) == mode = "OnDemand" /\ vdst \in OnDemandSeen(h)

\* ClientApp::SendPacket through VirtualSend at the host the ClientApp was
\* installed on at set-up (a migration moves only the address).  The
\* first packet of the OnDemand branch is handed to a SendFollowMeRule
\* scheduled 40us later: it waits at the host, its outer destination still
\* None, and m_firstPacket is cleared.
Send ==
    /\ sent < MaxPackets
    /\ \E f \in Flows :
         LET h    == InitLoc[f[1]]
             wait == Direct(h, f[2]) /\ firstPacket[h]
         IN /\ pkts' = [pkts EXCEPT ![sent + 1] =
                          IF wait THEN [vsrc |-> f[1], vdst |-> f[2], pdst |-> None, at |-> h]
                          ELSE [vsrc |-> f[1], vdst |-> f[2], pdst |-> Route(h, f[2]),
                                at |-> HostLeaf[h]]]
            /\ onDemand' = [onDemand EXCEPT ![h] = OnDemandSeen(h)]
            /\ firstPacket' = IF Direct(h, f[2]) THEN [firstPacket EXCEPT ![h] = FALSE]
                             ELSE firstPacket
    /\ sent' = sent + 1
    /\ UNCHANGED <<mode, cache, loc, dir, migrated, locHist>>

\* The delayed SendFollowMeRule(packet, header, false): the directory is
\* read when the event runs, not when the packet was sent.
SendFollowMeRule(i) ==
    /\ pkts[i] # None /\ pkts[i].pdst = None
    /\ pkts' = [pkts EXCEPT ![i].pdst = dir[pkts[i].vdst], ![i].at = HostLeaf[pkts[i].at]]
    /\ UNCHANGED <<mode, cache, onDemand, firstPacket, sent, loc, dir, migrated,
                   locHist>>

\* Static routing on the CLOS fabric: a leaf delivers to its own hosts and
\* sends anything else to any spine; a spine sends to the host's leaf.
NextHops(s, h) ==
    IF s \in Leaves
    THEN IF HostLeaf[h] = s THEN {h} ELSE NLeaves .. (2 * NLeaves - 1)
    ELSE {HostLeaf[h]}

\* Mutant: a gateway-bound packet is learned as well.
SwitchReceiveLearnGw(i) ==
    LET p == pkts[i]
        s == p.at
        j == Hash[s][p.vdst]
    IN /\ p # None /\ s \in SwitchIds
       /\ cache' = IF Learns(s) THEN [cache EXCEPT ![s] = C!Put(@, j, p.vdst, p.pdst)] ELSE cache
       /\ \E n \in NextHops(s, p.pdst) : pkts' = [pkts EXCEPT ![i].at = n]
       /\ UNCHANGED <<mode, onDemand, firstPacket, sent, loc, dir, migrated, locHist>>

\* A switch forwards a packet.  A learning switch (LocalP4CacheLogic) looks
\* up a gateway-bound packet and rewrites its outer destination on a hit,
\* and puts (vdst -> outer destination) for any other packet.
SwitchReceive(i) ==
    LET p  == pkts[i]
        s  == p.at
        j  == Hash[s][p.vdst]
        gw == p.pdst = GwHost
        p1 == IF Learns(s) /\ gw /\ C!Find(cache[s], j, p.vdst)
              THEN [p EXCEPT !.pdst = cache[s][j].val] ELSE p
    IN /\ p # None /\ s \in SwitchIds
       /\ cache' = IF ~Learns(s) THEN cache
                   ELSE IF gw THEN [cache EXCEPT ![s] = C!Get(@, j, p.vdst)]
                   ELSE [cache EXCEPT ![s] = C!Put(@, j, p.vdst, p.pdst)]
       /\ \E n \in NextHops(s, p1.pdst) : pkts' = [pkts EXCEPT ![i] = [p1 EXCEPT !.at = n]]
       /\ UNCHANGED <<mode, onDemand, firstPacket, sent, loc, dir, migrated, locHist>>

HostAt(i) == pkts[i] # None /\ pkts[i].at \in Hosts /\ pkts[i].pdst # None

\* SocketRecv in OnDemand mode remembers both virtual addresses of the
\* packet's inner header.
Recv(h, p) ==
    IF mode = "OnDemand" THEN onDemand[h] \cup {p.vsrc, p.vdst} ELSE onDemand[h]

\* Mutant: the gateway forwards without rewriting the outer destination.
GatewayReceiveNoResolve(i) ==
    /\ HostAt(i) /\ pkts[i].at = GwHost
    /\ pkts' = [pkts EXCEPT ![i].at = GwLeaf]
    /\ UNCHANGED <<mode, cache, onDemand, firstPacket, sent, loc, dir, migrated, locHist>>

\* GatewayApp::ReceivePacket: resolve the destination from the directory.
GatewayReceive(i) ==
    /\ HostAt(i) /\ pkts[i].at = GwHost
    /\ pkts' = [pkts EXCEPT ![i].pdst = dir[pkts[i].vdst], ![i].at = GwLeaf]
    /\ UNCHANGED <<mode, cache, onDemand, firstPacket, sent, loc, dir, migrated, locHist>>

\* The host runs the destination VM: SocketRecv hands the packet to it.
Deliver(i) ==
    LET h == pkts[i].at IN
    /\ HostAt(i) /\ h # GwHost /\ loc[pkts[i].vdst] = h
    /\ onDemand' = [onDemand EXCEPT ![h] = Recv(h, pkts[i])]
    /\ pkts' = [pkts EXCEPT ![i].at = Done]
    /\ UNCHANGED <<mode, cache, firstPacket, sent, loc, dir, migrated, locHist>>

\* The host does not run the VM: the kernel forwards the packet back into
\* VirtualSend with a lower TTL, and with no Hit tag SendFollowMeRule sends
\* it to the migration destination.
Misdeliver(i) ==
    LET h == pkts[i].at IN
    /\ HostAt(i) /\ h # GwHost /\ loc[pkts[i].vdst] # h
    /\ onDemand' = [onDemand EXCEPT ![h] = Recv(h, pkts[i]) \cup
                                         (IF mode = "OnDemand" THEN {MigVM} ELSE {})]
    /\ pkts' = [pkts EXCEPT ![i].pdst = MigDst, ![i].at = HostLeaf[h]]
    /\ UNCHANGED <<mode, cache, firstPacket, sent, loc, dir, migrated, locHist>>

\* TraceSimulation::Migration moves the container and schedules
\* UpdateMappings (after 1000us in OnDemand mode, at once otherwise).
Migration ==
    /\ ~migrated
    /\ migrated' = TRUE /\ loc' = [loc EXCEPT ![MigVM] = MigDst]
    /\ locHist' = [locHist EXCEPT ![MigVM] = @ \cup {MigDst}]
    /\ UNCHANGED <<mode, cache, onDemand, firstPacket, pkts, sent, dir>>

UpdateMappings ==
    /\ migrated /\ dir[MigVM] # MigDst
    /\ dir' = [dir EXCEPT ![MigVM] = MigDst]
    /\ UNCHANGED <<mode, cache, onDemand, firstPacket, pkts, sent, loc, migrated, locHist>>

PacketStep(i) ==
    SwitchReceive(i) \/ GatewayReceive(i) \/ Deliver(i) \/ Misdeliver(i)
    \/ SendFollowMeRule(i)

Next ==
    \/ Send \/ Migration \/ UpdateMappings
    \/ \E i \in 1..MaxPackets : PacketStep(i)

\* ns-3 handles every packet in flight and runs the scheduled
\* UpdateMappings; the trace decides what is sent and when the VM moves.
Spec == Init /\ [][Next]_vars
        /\ \A i \in 1..MaxPackets : WF_vars(PacketStep(i))
        /\ WF_vars(UpdateMappings)

-----------------------------------------------------------------------------
(* Properties.                                                             *)

\* A learning switch only ever caches a VM at a host it has run on: it
\* learns from resolved packets, whose outer destination comes from the
\* directory, the follow-me rule or an earlier hit, never from a
\* gateway-bound packet.
CachedMappingsAreHistorical ==
    \A s \in SwitchIds, j \in Slots :
        cache[s][j].val # NoVal => cache[s][j].val \in locHist[cache[s][j].key]

\* Every packet sent is eventually delivered to its VM, in every mode.
PacketsDelivered ==
    \A i \in 1..MaxPackets : (pkts[i] # None) ~> (pkts[i] # None /\ pkts[i].at = Done)
=============================================================================
