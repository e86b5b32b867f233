------------------------------- MODULE MC_Setup -------------------------------
(***************************************************************************)
(* The computations done once, before any packet: the placement, the      *)
(* fabric's dimensions and addresses, the gateway of each container       *)
(* (Setup), and the controller's hop cost (PacketCost).  Each input is one *)
(* initial state and nothing changes after it: the invariants check every *)
(* input in the bounds.                                                    *)
(***************************************************************************)
EXTENDS Integers, Sequences

CONSTANTS PodWidth, MaxLeaf, MaxSteps, CoreCounts,   \* GetPacketCost inputs
          Topologies, Ports, Cores, PodWidths,       \* SimulationParameters
          Servers, PerServer,                        \* the placement file
          GwLeafLists,                               \* GatewayLeaves
          Beyonds,                                   \* memory past its end
          TraceTs, MaxFlows, StopMargin              \* the flow trace

VARIABLE in

\* GatewayLeaves lists, and the memory past their end, for the runs.
MCGwLeafLists == {<<0>>, <<1>>, <<0, 0>>, <<0, 1>>, <<1, 1>>, <<0, 2>>}
MCBeyonds == {<<>>, <<0>>, <<1>>}
MCNoBeyond == {<<>>}

PC(c) == INSTANCE PacketCost WITH CoreCount <- c
S == INSTANCE Routing
CS == INSTANCE ClientSchedule

CostInputs == [src : 0..MaxLeaf, dst : 0..MaxLeaf, steps : 1..MaxSteps,
               gw : 0..MaxLeaf, cores : CoreCounts]

SetupInputs == [topo : Topologies, ports : Ports, cores : Cores,
                podWidth : PodWidths, servers : Servers, perServer : PerServer,
                gwLeaves : GwLeafLists, beyond : Beyonds]

\* The timestamps of one container's trace lines in file order, and the
\* latest timestamp of the other containers.
TraceInputs == [trace : UNION {[1..n -> TraceTs] : n \in 1..MaxFlows}, others : TraceTs]

Init == in \in TraceInputs \cup CostInputs \cup SetupInputs
Next == UNCHANGED in
Spec == Init /\ [][Next]_in

\* The fabric built from the input.
T == S!Topology(in)

\* A configuration the simulation starts from: the constructor's asserts
\* hold, and GatewayLeaves lists leaves that exist, in ascending order.
ValidGwLeaves ==
    /\ Len(in.gwLeaves) > 0
    /\ \A i \in 1..Len(in.gwLeaves) : in.gwLeaves[i] \in 0..S!TotalLeaves(in) - 1
    /\ \A i \in 1..Len(in.gwLeaves) - 1 : in.gwLeaves[i] <= in.gwLeaves[i + 1]

Configured == in \in SetupInputs /\ S!Admitted(in, T) /\ ValidGwLeaves

\* The out-of-bounds read of the gateway loop (trace-sim.cc:197) returns
\* a value other than the last gateway leaf, so the loop stops at the end.
OOBReadMisses == Len(in.beyond) > 0 => in.beyond[1] # in.gwLeaves[Len(in.gwLeaves)]

\* A fat-tree of several pods has a core tier: with NumOfCore 0 the pods are
\* not linked at all, which no assert rejects.
PodsLinked == T.podCount > 1 => T.coreCount > 0

\* The nodes from which every path of at most h hops through nx reaches
\* a node of own.
RECURSIVE AlwaysReach(_, _, _)
AlwaysReach(nx, own, h) ==
    IF h = 0 THEN own
    ELSE LET g == AlwaysReach(nx, own, h - 1)
         IN g \cup {n \in DOMAIN nx : nx[n] # {} /\ nx[n] \subseteq g}

\* The longest shortest path: host, leaf, spine, core, spine, leaf, host.
MaxHops == 6

Leaves == 0..T.leafCount - 1
HostsOf(i) == 0..Len(T.groups[i + 1]) - 1

-----------------------------------------------------------------------------
\* GetPacketCost reproduces every filled cell of the spec's cost table
\* ("cost table exactness") for every source, destination and gateway leaf,
\* hop count and core tier, with the gateway pod computed by the caller as
\* gwLeaf / m_podWidth.
CostMatchesTable ==
    in \in CostInputs =>
    \A e \in PC(in.cores)!TableEntries(in.src, in.dst, in.steps, in.gw) :
        PC(in.cores)!GetPacketCost(in.src, in.dst, in.steps, in.gw,
                                   in.gw \div PodWidth) = e.cost

\* ParsePlacement deploys the gateways exactly where GatewayLeaves puts
\* them, numbered Gateway0, Gateway1, ... in leaf order, and the servers of
\* the placement file in file order, when the read past the end of
\* GatewayLeaves does not happen to match.
PlacementKeepsGateways ==
    Configured /\ OOBReadMisses =>
    LET nl == S!NodeList(T)
        gws == SelectSeq(nl, LAMBDA e : e[3].gw)
        srvs == SelectSeq(nl, LAMBDA e : ~e[3].gw)
    IN /\ [p \in DOMAIN gws |-> gws[p][1]] = in.gwLeaves
       /\ [p \in DOMAIN gws |-> gws[p][3].id] = [p \in DOMAIN gws |-> p - 1]
       /\ [p \in DOMAIN srvs |-> srvs[p][3].id] = [p \in DOMAIN srvs |-> p - 1]

\* AssignPhysicalIps gives every interface of the fabric its own address,
\* the address each leaf and core P4SwitchApp is set up with is one of its
\* own interfaces, and the spines' addresses collide with none of them.
AddressesUnique ==
    Configured =>
    LET I == S!Interfaces(T)
        pw == T.podWidth
        cpp == T.coreCount \div pw
    IN /\ \A x, y \in I : x[2] = y[2] => x = y
       /\ \A l \in Leaves :
            <<<<"leaf-spine", (l \div pw) * pw, l % pw>>, S!LeafSwitchAddress(T, l)>> \in I
       /\ \A k \in 0..T.coreCount - 1 :
            <<<<"core-spine", k \div cpp, k % cpp>>, S!CoreSwitchAddress(T, k)>> \in I
       /\ \A s, s2 \in 0..T.spineCount - 1 :
            /\ S!SpineSwitchAddress(T, s) = S!SpineSwitchAddress(T, s2) => s = s2
            /\ \A x \in I : x[2] # S!SpineSwitchAddress(T, s)

\* A learning packet for a host (GeneratePacketToLeaf, from the physical
\* address the gateway or a switch resolved) is addressed to the leaf
\* switch the host hangs off.
LearningReachesHostLeaf ==
    Configured =>
    \A i \in Leaves : \A j \in HostsOf(i) :
        S!GeneratePacketToLeaf(T, S!HostAddress(T, i, j)) = S!LeafSwitchAddress(T, i)

\* With m_gatewayRange computed in SetupTunnel, GetGatewayIdx sends every
\* container to an existing gateway, and every gateway serves some
\* container.
GatewaysShareContainers ==
    Configured =>
    LET n == S!NumContainers(in, T)
        g == Len(S!Gws(T))
    IN /\ S!GatewayRange(in, T) > 0
       /\ \A d \in 0..n - 1 : S!GetGatewayIdx(in, T, d) \in 0..g - 1
       /\ \A k \in 0..g - 1 : \E d \in 0..n - 1 : S!GetGatewayIdx(in, T, d) = k

\* A data packet to a host's address, from the sending host or from any
\* switch that rewrote its destination, and a protocol packet from a leaf
\* (the learning packet of a GW_LEAF, the invalidation of a LEAF) to any
\* switch's m_switchAddress, reach the node that accepts them within
\* MaxHops hops, whichever route ECMP picks at each node: the interface
\* numbers of the hand-written routes of AssignPhysicalIps match the order
\* the interfaces were created in, and no route leads into a loop.
\* The routes do not depend on the containers per server or on the memory
\* past GatewayLeaves, so one value of each is checked.
RoutesReachDestinations ==
    Configured /\ PodsLinked /\ in.perServer = 1 /\ in.beyond = <<>> =>
    LET t == T
        f == S!Fabric(t)
        N == DOMAIN f.ifs
        Good(a) == AlwaysReach([n \in N |-> S!NextHops(f, n, a)],
                               {n \in N : S!Accepts(t, f, n, a)}, MaxHops)
        leaves == {S!LeafNode(l) : l \in 0..t.leafCount - 1}
    IN /\ \A i \in 0..t.leafCount - 1 : \A j \in 0..Len(t.groups[i + 1]) - 1 :
            Good(S!HostAddress(t, i, j)) = N
       /\ \A a \in {S!LeafSwitchAddress(t, l) : l \in 0..t.leafCount - 1}
                \cup {S!SpineSwitchAddress(t, s) : s \in 0..t.spineCount - 1}
                \cup {S!CoreSwitchAddress(t, k) : k \in 0..t.coreCount - 1} :
            leaves \subseteq Good(a)

\* Whatever order the trace lists a container's flows in, and whichever
\* order std::sort leaves flows with equal timestamps in, the ClientApp
\* sends every flow exactly once, at the time of its trace line, and never
\* schedules SendPacket with a negative delay: CalculateDestinations sorts
\* before ScheduleNext takes differences, and ParseTrace's m_stopTime lies
\* past the last timestamp, so StopApplication cancels no send.
ClientSendsFlowsAtTraceTime ==
    in \in TraceInputs =>
    \A r \in CS!ClientRuns(in.trace, in.others) :
        /\ {r[k].flow : k \in DOMAIN r} = DOMAIN in.trace
        /\ Len(r) = Len(in.trace)
        /\ \A k \in DOMAIN r : r[k].delay >= 0 /\ r[k].at = in.trace[r[k].flow]

\* ParsePlacement deploys every server of the placement file and every
\* gateway of GatewayLeaves, as its closing NS_ASSERT (gwLeavesIdx +
\* nodesIdx == totalNodes) states, for gateway lists naming leaves that
\* exist and a read past their end that does not match.
PlacementDeploysEveryNode ==
    in \in SetupInputs /\ ValidGwLeaves /\ OOBReadMisses =>
    LET st == S!ParsePlacement(in)
    IN st.srv + st.gw = in.servers + Len(in.gwLeaves)

\* The follow-me packet a host sends after a misdelivery (SendFollowMeRule)
\* goes to the host the container migrated to, the address UpdateMappings
\* writes into the directory.
FollowMeReachesMigrationDestination ==
    Configured =>
    \A i \in Leaves : \A j \in HostsOf(i) :
        S!FollowMeAddress(in, i, j) = S!UpdateMappingsAddress(T, i, j)
=============================================================================
