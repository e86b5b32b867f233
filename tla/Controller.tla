------------------------------ MODULE Controller ------------------------------
(***************************************************************************)
(* Controller mode: every switch is a SwitchApp (switch-app.cc) with an    *)
(* LRUCache and a traffic matrix, and the IlpControllerApp                 *)
(* (ilp-controller-app.cc) periodically drains the matrices, solves the    *)
(* placement ILP with z3 and bulk-inserts the chosen mappings.  Hosts,     *)
(* the gateway and the migration behave as in SwitchV2P mode, but no       *)
(* switch sets a Hit tag, so a misdelivered packet always follows the      *)
(* follow-me rule to the migration destination.                            *)
(*                                                                         *)
(* The fabric is the CLOS topology of sim-base.cc: one pod, m_spineCount = *)
(* m_leafCount, no cores.  Switch indices are those of the controller's    *)
(* m_switchApps: leaves 0 .. NLeaves-1, then spines.  z3's choice among     *)
(* optimal assignments is not specified: any optimum may be returned.      *)
(***************************************************************************)
EXTENDS Naturals, FiniteSets, FiniteSetsExt, Functions

CONSTANTS
    NLeaves,        \* m_leafCount (= m_spineCount = m_podWidth in CLOS)
    Hosts,          \* physical machines, the gateway's included
    HostLeaf,       \* the leaf a host is attached to
    HostIdx,        \* the host's index under its leaf (physicalMachine)
    GwHost,         \* the single gateway, m_gws[0]
    VMs,            \* container ids, which are also their virtual addresses
    InitLoc,        \* the host of each VM at setup (containerGroups)
    MigVM, MigDst,  \* MigrationParams
    Flows,          \* <<src VM, dst VM>> pairs; one flow id each
    FlowHash,       \* GetFlowHash of a source host, an abstract number
    MemorySize, GwCost,
    MaxPackets,     \* bound on the data packets the clients send
    MaxSolves,      \* bound on the runs of QuerySwitches
    None, Done

SwitchIds == 0 .. (2 * NLeaves - 1)
Leaves == 0 .. (NLeaves - 1)
GwLeaf == HostLeaf[GwHost]

ASSUME /\ NLeaves \in Nat \ {0}
       /\ HostLeaf \in [Hosts -> Leaves] /\ HostIdx \in [Hosts -> Nat]
       /\ VMs \subseteq Nat /\ InitLoc \in [VMs -> Hosts \ {GwHost}]
       /\ MigVM \in VMs /\ MigDst \in Hosts \ {GwHost}
       /\ Flows \subseteq VMs \X VMs /\ FlowHash \in [Hosts -> Nat]
       /\ MemorySize \in Nat \ {0} /\ GwCost \in Nat

L == INSTANCE LRUCache

VARIABLES
    cache,      \* cache[s]: the LRUCache m_cache of SwitchApp s
    tm,         \* tm[l][f]: packetCount of flow f in m_trafficMatrix of
                \* leaf l; the spines count too, but QuerySwitches drains
                \* their matrices into m_spinesTrafficMatrix and never
                \* reads them, so they are left out
    pkts,       \* pkts[i]: data packet i, None before it is sent
    sent, loc, dir, migrated,
    solves,     \* number of QuerySwitches runs so far
    lastSolve   \* ghost: the last solve's drained matrices, the directory
                \* it read and where the VMs were, or None

vars == <<cache, tm, pkts, sent, loc, dir, migrated, solves, lastSolve>>

NoTraffic == [f \in Flows |-> 0]

\* packetCount is a uint32; the model saturates it at the number of packets,
\* the most a leaf counts when each gateway-bound packet crosses it once.
CountCap == MaxPackets

Init ==
    /\ cache = [s \in SwitchIds |-> L!EmptyLRU]
    /\ tm = [l \in Leaves |-> NoTraffic]
    /\ pkts = [i \in 1..MaxPackets |-> None]
    /\ sent = 0 /\ loc = InitLoc /\ dir = InitLoc /\ migrated = FALSE
    /\ solves = 0 /\ lastSolve = None

-----------------------------------------------------------------------------
(* The placement ILP of QuerySwitches.                                     *)

\* m_containerToPhysicalLocation, filled once in Setup from the initial
\* container groups: a VM's leaf and host as they were at setup.
SetupLeaf(v) == HostLeaf[InitLoc[v]]

\* GetPacketCost(src, dst, steps, gwLeaf, gwPod) of the containers' setup
\* leaves, in the one pod of the model with no core tier.
PC == INSTANCE PacketCost WITH PodWidth <- NLeaves, CoreCount <- 0

GetPacketCost(src, dst, steps) ==
    PC!GetPacketCost(SetupLeaf(src), SetupLeaf(dst), steps, GwLeaf, PC!Pod(GwLeaf))

\* The switches of the relaxed cost of a flow from leaf l: the leaf, the
\* spine spineId = flowHash % m_podWidth picked from the source's setup
\* host, and the gateway leaf.
CtrlPath(l, src) == {l, NLeaves + (FlowHash[InitLoc[src]] % NLeaves), GwLeaf}

\* The cost term of flow f counted at leaf l under assignment x.
FlowCost(x, l, f) ==
    IF l = GwLeaf
    THEN IF f[2] \in x[l] THEN GetPacketCost(f[1], f[2], 1) ELSE GwCost
    ELSE IF \E s \in CtrlPath(l, f[1]) : f[2] \in x[s] THEN 8 ELSE GwCost

\* The flows of leaf l's drained matrix whose source is attached to l at
\* setup; the others are skipped.
Counted(t, l) == {f \in Flows : t[l][f] > 0 /\ SetupLeaf(f[1]) = l}

Cost(x, t) ==
    MapThenSumSet(LAMBDA lf : t[lf[1]][lf[2]] * FlowCost(x, lf[1], lf[2]),
                  UNION {{l} \X Counted(t, l) : l \in Leaves})

\* activeDestinations: every destination in any leaf's drained matrix.
Active(t) == {f[2] : f \in {f \in Flows : \E l \in Leaves : t[l][f] > 0}}

\* One boolean per switch and active destination, at most m_memorySize
\* true per switch.
Assignments(t) ==
    {x \in [SwitchIds -> SUBSET Active(t)] : \A s \in SwitchIds : Cardinality(x[s]) <= MemorySize}

\* The assignments z3 may return: those of least cost.
Optimal(t) ==
    LET A == Assignments(t)
        least == Min({Cost(y, t) : y \in A})
    IN {x \in A : Cost(x, t) = least}

\* BulkInsertToCache: Put every chosen destination, in increasing
\* container id, with its current directory value.
RECURSIVE PutAll(_, _)
PutAll(c, items) ==
    IF items = {} THEN c
    ELSE LET j == Min(items) IN PutAll(L!Put(c, MemorySize, j, dir[j]), items \ {j})

\* Mutant: the insertion loop starts at switch 1.
BulkInsertSkipFirst(x) ==
    [s \in SwitchIds |-> IF s = 0 THEN cache[s] ELSE PutAll(cache[s], x[s])]

BulkInsert(x) == [s \in SwitchIds |-> PutAll(cache[s], x[s])]

\* QuerySwitches: drain every traffic matrix (GetTrafficMatrix), solve,
\* bulk-insert into every switch, and schedule the next run.
QuerySwitches ==
    /\ solves < MaxSolves
    /\ \E x \in Optimal(tm) :
         /\ cache' = BulkInsert(x)
         /\ lastSolve' = [tm |-> tm, dir |-> dir, loc |-> loc]
    /\ tm' = [l \in Leaves |-> NoTraffic]
    /\ solves' = solves + 1
    /\ UNCHANGED <<pkts, sent, loc, dir, migrated>>

-----------------------------------------------------------------------------
(* Data packets.                                                           *)

\* ClientApp::SendPacket through SocketHelper::VirtualSend: a packet is
\* tunnelled to the gateway from the host the ClientApp was installed on at
\* set-up; a migration moves only the container's address.
Send ==
    /\ sent < MaxPackets
    /\ \E f \in Flows :
         pkts' = [pkts EXCEPT ![sent + 1] =
                    [vsrc |-> f[1], vdst |-> f[2], pdst |-> GwHost, at |-> HostLeaf[InitLoc[f[1]]]]]
    /\ sent' = sent + 1
    /\ UNCHANGED <<cache, tm, loc, dir, migrated, solves, lastSolve>>

\* Static routing on the CLOS fabric: a leaf delivers to its own hosts and
\* sends anything else to any spine (ECMP); a spine sends to the leaf of
\* the destination.
NextHops(s, h) ==
    IF s \in Leaves
    THEN IF HostLeaf[h] = s THEN {h} ELSE NLeaves .. (2 * NLeaves - 1)
    ELSE {HostLeaf[h]}

\* SwitchApp::ReceivePacket in Controller mode: a gateway-bound packet is
\* counted in m_trafficMatrix[src][flowId], then looked up; a hit rewrites
\* the outer destination.  Then the packet is forwarded.
SwitchReceive(i) ==
    LET p  == pkts[i]
        s  == p.at
        f  == <<p.vsrc, p.vdst>>
        gw == p.pdst = GwHost
        hit == gw /\ L!Find(cache[s], p.vdst)
        p1 == IF hit THEN [p EXCEPT !.pdst = cache[s].map[p.vdst]] ELSE p
    IN /\ p # None /\ s \in SwitchIds
       /\ tm' = IF gw /\ s \in Leaves THEN [tm EXCEPT ![s][f] = IF @ < CountCap THEN @ + 1 ELSE @] ELSE tm
       /\ cache' = IF gw THEN [cache EXCEPT ![s] = L!Get(@, p.vdst)] ELSE cache
       /\ \E n \in NextHops(s, p1.pdst) : pkts' = [pkts EXCEPT ![i] = [p1 EXCEPT !.at = n]]
       /\ UNCHANGED <<sent, loc, dir, migrated, solves, lastSolve>>

HostAt(i) == pkts[i] # None /\ pkts[i].at \in Hosts

\* GatewayApp::ReceivePacket: resolve the destination from the directory.
GatewayReceive(i) ==
    /\ HostAt(i) /\ pkts[i].at = GwHost
    /\ pkts' = [pkts EXCEPT ![i].pdst = dir[pkts[i].vdst], ![i].at = GwLeaf]
    /\ UNCHANGED <<cache, tm, sent, loc, dir, migrated, solves, lastSolve>>

Deliver(i) ==
    /\ HostAt(i) /\ pkts[i].at # GwHost /\ loc[pkts[i].vdst] = pkts[i].at
    /\ pkts' = [pkts EXCEPT ![i].at = Done]
    /\ UNCHANGED <<cache, tm, sent, loc, dir, migrated, solves, lastSolve>>

\* Mutant: the misdelivered packet goes back to the gateway.
MisdeliverToGateway(i) ==
    /\ HostAt(i) /\ pkts[i].at # GwHost /\ loc[pkts[i].vdst] # pkts[i].at
    /\ pkts' = [pkts EXCEPT ![i].pdst = GwHost, ![i].at = HostLeaf[@]]
    /\ UNCHANGED <<cache, tm, sent, loc, dir, migrated, solves, lastSolve>>

\* SocketHelper::VirtualSend of a packet for a VM the host no longer runs:
\* without a Hit tag, SendFollowMeRule sends it to the migration
\* destination.
Misdeliver(i) ==
    /\ HostAt(i) /\ pkts[i].at # GwHost /\ loc[pkts[i].vdst] # pkts[i].at
    /\ pkts' = [pkts EXCEPT ![i].pdst = MigDst, ![i].at = HostLeaf[@]]
    /\ UNCHANGED <<cache, tm, sent, loc, dir, migrated, solves, lastSolve>>

Migration ==
    /\ ~migrated
    /\ migrated' = TRUE /\ loc' = [loc EXCEPT ![MigVM] = MigDst]
    /\ UNCHANGED <<cache, tm, pkts, sent, dir, solves, lastSolve>>

UpdateMappings ==
    /\ migrated /\ dir[MigVM] # MigDst
    /\ dir' = [dir EXCEPT ![MigVM] = MigDst]
    /\ UNCHANGED <<cache, tm, pkts, sent, loc, migrated, solves, lastSolve>>

PacketStep(i) ==
    SwitchReceive(i) \/ GatewayReceive(i) \/ Deliver(i) \/ Misdeliver(i)

Next ==
    \/ Send \/ Migration \/ UpdateMappings \/ QuerySwitches
    \/ \E i \in 1..MaxPackets : PacketStep(i)

\* ns-3 handles every packet in flight and runs the scheduled
\* UpdateMappings; the trace decides what is sent, and the controller's
\* runs are bounded.
Spec == Init /\ [][Next]_vars
        /\ \A i \in 1..MaxPackets : WF_vars(PacketStep(i))
        /\ WF_vars(UpdateMappings)

-----------------------------------------------------------------------------
(* Properties.                                                             *)

\* The switches that can serve a gateway-bound packet of a source on host
\* h before the gateway: its leaf, the spine of its flow hash and the
\* gateway leaf.
ServePath(h) ==
    IF HostLeaf[h] = GwLeaf THEN {GwLeaf}
    ELSE {HostLeaf[h], NLeaves + (FlowHash[h] % NLeaves), GwLeaf}

\* Every packet a client sends is eventually delivered to the host its
\* destination VM runs on, although no switch ever drops a mapping the
\* controller installed before a migration: the follow-me rule of the host
\* that receives a misdelivered packet must get it out of the stale path.
PacketsDelivered ==
    \A i \in 1..MaxPackets : (pkts[i] # None) ~> (pkts[i] # None /\ pkts[i].at = Done)

\* After a solve, every flow the drained matrices counted at its source's
\* leaf is cached by some switch its packets cross before the gateway: the
\* gateway cost exceeds the relaxed cost, so with enough capacity no optimum
\* leaves a counted flow to the gateway, and the bulk insert of each switch
\* keeps all it chose.
PlacementCoversCountedFlows ==
    lastSolve # None =>
      \A f \in Flows :
        LET h == lastSolve.loc[f[1]] IN
        lastSolve.tm[HostLeaf[h]][f] > 0 =>
          \E s \in ServePath(h) : L!Find(cache[s], f[2])

\* The controller is authoritative for the switches it controls (spec,
\* Placement Controller): after a solve, every switch caching a destination
\* of that solve's traffic caches the value the solve read from the
\* directory.
ControllerIsAuthoritative ==
    lastSolve # None =>
      \A s \in SwitchIds, v \in Active(lastSolve.tm) :
        L!Find(cache[s], v) => cache[s].map[v] = lastSolve.dir[v]
=============================================================================
