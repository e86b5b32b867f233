-------------------------------- MODULE Setup --------------------------------
(***************************************************************************)
(* How a simulation is set up, before the first event runs: the placement  *)
(* file is split into leaves (TraceSimulation::ParsePlacement), the fabric *)
(* is sized and checked (the SimulationBase constructor), containers get   *)
(* ids (AssignIds), interfaces get addresses (AssignPhysicalIps, through   *)
(* IpUtils), hosts learn the gateways (SetupTunnel) and switches their own *)
(* address (SetupApplications).  All of it is pure computation over the   *)
(* command-line configuration c, a record                                  *)
(*   [topo, ports, cores, podWidth,   -- SimulationParameters              *)
(*    servers, perServer,             -- the placement file                *)
(*    gwLeaves, beyond]               -- GatewayLeaves, and what lies past *)
(*                                       its end in memory                 *)
(* Leaves, hosts and containers are numbered from 0, as in the code.       *)
(***************************************************************************)
EXTENDS Integers, Sequences, SequencesExt, Functions

-----------------------------------------------------------------------------
(* ip-utils.cc.  Ipv4Address("a.b.c.d") is the 32-bit number a.b.c.d in  *)
(* base 256, kept here as its four octets.  Every octet the set-up builds *)
(* stays below 256 in the configurations the constructor admits, and an   *)
(* address it adds to ends in .0, so the addition stays in the last octet. *)

Addr(a, b, c, d) == <<a, b, c, d>>

\* Ipv4Address (addr.Get () + k), for a subnet base addr and k < 255.
Plus(addr, k) == [addr EXCEPT ![4] = @ + k]

\* addr.Get () >> 24 and (addr.Get () >> 16) & 0xff.
FirstOctet(addr) == addr[1]
SecondOctet(addr) == addr[2]

GetNodeBasePhysicalAddress(podId, leafOffset, id) == Addr(podId + 1, leafOffset, id, 0)

GetNodePhysicalAddress(podId, leafOffset, id) ==
    Plus(GetNodeBasePhysicalAddress(podId, leafOffset, id), 1)

\* Mutant: the switch subnets start at octet podCount + podId.
GetSwitchBaseAddressNoOffset(podCount, podId, spineOffset, leafOffset) ==
    Addr(podCount + podId, spineOffset, leafOffset, 0)

GetSwitchBaseAddress(podCount, podId, spineOffset, leafOffset) ==
    Addr(podCount + podId + 1, spineOffset, leafOffset, 0)

GetLeafAddress(podCount, podId, spineOffset, leafOffset) ==
    Plus(GetSwitchBaseAddress(podCount, podId, spineOffset, leafOffset), 2)

GetSpineFromLeafAddress(podCount, podId, spineOffset, leafOffset) ==
    Plus(GetSwitchBaseAddress(2 * podCount, podId, spineOffset, leafOffset), 1)

GetCoreSwitchBaseAddress(spinePodId, core) == Addr(255, core, spinePodId, 0)

GetCoreAddress(spinePodId, core) == Plus(GetCoreSwitchBaseAddress(spinePodId, core), 1)

-----------------------------------------------------------------------------
(* TraceSimulation::ParsePlacement.  A node of a leaf is a server of the   *)
(* placement file or a gateway "Gateway<k>"; id is i or k.                 *)

Server(i) == [gw |-> FALSE, id |-> i]
Gateway(k) == [gw |-> TRUE, id |-> k]

\* GatewayLeaves[idx] as the loop reads it.  Past the end of the vector the
\* read is out of bounds and returns what the memory after it holds: c.beyond,
\* then a value equal to no leaf index.
GwLeafRead(c, idx) ==
    IF idx < Len(c.gwLeaves) THEN c.gwLeaves[idx + 1]
    ELSE IF idx - Len(c.gwLeaves) < Len(c.beyond)
         THEN c.beyond[idx - Len(c.gwLeaves) + 1]
         ELSE -1

\* `while (GatewayLeaves[gwIdx++] == leaf) {}`: the number of consecutive
\* reads from idx that equal leaf, which becomes gwCount.
RECURSIVE GwRun(_, _, _)
GwRun(c, idx, leaf) ==
    IF GwLeafRead(c, idx) = leaf THEN 1 + GwRun(c, idx + 1, leaf) ELSE 0

NodesPerLeaf(c) == c.ports \div 2
TotalLeaves(c) == c.servers \div NodesPerLeaf(c)

\* Mutant: the gateways of a leaf are counted without first checking that
\* gwLeavesIdx is inside GatewayLeaves.
RECURSIVE DeployNoBoundCheck(_, _, _)
DeployNoBoundCheck(c, leaf, st) ==
    IF leaf >= TotalLeaves(c) THEN st
    ELSE LET gwCount == GwRun(c, st.gw, leaf)
             n == IF st.srv + NodesPerLeaf(c) >= c.servers
                  THEN c.servers - st.srv ELSE NodesPerLeaf(c)
             nodes == [j \in 1..n |-> Server(st.srv + j - 1)]
                      \o [j \in 1..gwCount |-> Gateway(st.gw + j - 1)]
         IN DeployNoBoundCheck(c, leaf + 1, [groups |-> Append(st.groups, nodes),
                                    gw |-> st.gw + gwCount, srv |-> st.srv + n])

\* One iteration per leaf: its gateways, then NodesPerLeaf servers (fewer at
\* the end of the file), then the gateways of that leaf appended.
RECURSIVE Deploy(_, _, _)
Deploy(c, leaf, st) ==
    IF leaf >= TotalLeaves(c) THEN st
    ELSE LET gwCount == IF st.gw < Len(c.gwLeaves) /\ c.gwLeaves[st.gw + 1] = leaf
                        THEN GwRun(c, st.gw, leaf) ELSE 0
             n == IF st.srv + NodesPerLeaf(c) >= c.servers
                  THEN c.servers - st.srv ELSE NodesPerLeaf(c)
             nodes == [j \in 1..n |-> Server(st.srv + j - 1)]
                      \o [j \in 1..gwCount |-> Gateway(st.gw + j - 1)]
         IN Deploy(c, leaf + 1, [groups |-> Append(st.groups, nodes),
                                 gw |-> st.gw + gwCount, srv |-> st.srv + n])

ParsePlacement(c) == Deploy(c, 0, [groups |-> <<>>, gw |-> 0, srv |-> 0])

-----------------------------------------------------------------------------
(* The SimulationBase constructor and AssignIds.                           *)

Topology(c) ==
    LET groups == ParsePlacement(c).groups
        clos == c.topo = "Clos"
        pw == IF clos THEN Len(groups) ELSE c.podWidth
    IN [groups |-> groups, clos |-> clos, leafCount |-> Len(groups),
        spineCount |-> Len(groups), coreCount |-> IF clos THEN 0 ELSE c.cores,
        podWidth |-> pw, podCount |-> IF pw = 0 THEN 0 ELSE Len(groups) \div pw]

\* The configurations the constructor lets through: m_podCount is computed
\* by a division by m_podWidth, then the NS_ASSERTs.
Admitted(c, t) ==
    /\ t.podWidth > 0
    /\ c.ports >= 8
    /\ t.podWidth <= c.ports \div 2
    /\ t.clos => t.leafCount <= 255
    /\ ~t.clos => t.spineCount % t.podWidth = 0
    /\ t.coreCount % t.podWidth = 0
    /\ t.podCount <= c.ports
    /\ t.podCount * 3 < 255
    /\ \A i \in DOMAIN t.groups : Len(t.groups[i]) <= 255

\* The containers of a node: a server holds c.perServer, a gateway its one
\* "Gateway<k>" container.
ContainerCount(c, node) == IF node.gw THEN 1 ELSE c.perServer

\* Every node as <<leaf, host, node>>, in the order AssignIds visits them.
NodeList(t) ==
    FlattenSeq([i \in DOMAIN t.groups |->
                  [j \in DOMAIN t.groups[i] |-> <<i - 1, j - 1, t.groups[i][j]>>]])

\* m_containerToId.size (): the ids run from 0 to NumContainers - 1.
NumContainers(c, t) ==
    LET nl == NodeList(t) IN SumFunction([p \in DOMAIN nl |-> ContainerCount(c, nl[p][3])])

\* m_gws: the <<leaf, host>> of each gateway container, in id order.
Gws(t) == [p \in DOMAIN SelectSeq(NodeList(t), LAMBDA e : e[3].gw) |->
             LET e == SelectSeq(NodeList(t), LAMBDA x : x[3].gw)[p] IN <<e[1], e[2]>>]

-----------------------------------------------------------------------------
(* Addresses: AssignPhysicalIps, SetupTunnel and SetupApplications.        *)

HostAddress(t, leaf, host) ==
    GetNodePhysicalAddress(leaf \div t.podWidth, leaf % t.podWidth, host)

\* Every interface AssignPhysicalIps numbers, as <<end, address>>: a link's
\* subnet is set with SetBase and its two ends get .1 and .2, in the order
\* the link was installed (host before leaf, spine before leaf, core before
\* spine).
Interfaces(t) ==
    LET pw == t.podWidth
        cpp == t.coreCount \div pw
        \* The two ends of the link from x to y, on subnet base.
        Link(x, y, base) == {<<x, Plus(base, 1)>>, <<y, Plus(base, 2)>>}
        HostLinks == UNION {UNION {Link(<<"host", i, j>>, <<"leaf-host", i, j>>,
                                        GetNodeBasePhysicalAddress(i \div pw, i % pw, j)) :
                                   j \in 0..Len(t.groups[i + 1]) - 1} :
                            i \in 0..t.leafCount - 1}
        LeafLinks == UNION {UNION {Link(<<"spine-leaf", s, j>>, <<"leaf-spine", s, j>>,
                                        GetSwitchBaseAddress(t.podCount, s \div pw, s % pw, j)) :
                                   j \in {o \in 0..pw - 1 : (s \div pw) * pw + o < t.leafCount}} :
                            s \in 0..t.spineCount - 1}
        CoreLinks == UNION {Link(<<"core-spine", s, j>>, <<"spine-core", s, j>>,
                                 GetCoreSwitchBaseAddress(s \div pw, (s % pw) * cpp + j)) :
                            s \in 0..t.spineCount - 1, j \in 0..cpp - 1}
    IN HostLinks \cup LeafLinks \cup CoreLinks

\* The m_switchAddress each P4SwitchApp is set up with.
LeafSwitchAddress(t, l) == GetLeafAddress(t.podCount, l \div t.podWidth, 0, l % t.podWidth)
SpineSwitchAddress(t, s) ==
    GetSpineFromLeafAddress(t.podCount, s \div t.podWidth, s % t.podWidth, 0)
CoreSwitchAddress(t, k) == GetCoreAddress(0, k)

\* m_gatewayRange: the container ids per gateway.
GatewayRange(c, t) == NumContainers(c, t) \div Len(Gws(t))

\* Mutant: the index is not clamped to the last gateway.
GetGatewayIdxNoClamp(c, t, dst) == dst \div GatewayRange(c, t)

\* SocketHelper::GetGatewayIdx without per-flow load balancing: the
\* destination's virtual address (its container id) divided by the range,
\* at most the last gateway.
GetGatewayIdx(c, t, dst) ==
    IF dst \div GatewayRange(c, t) < Len(Gws(t)) - 1
    THEN dst \div GatewayRange(c, t) ELSE Len(Gws(t)) - 1

\* Mutant: the pod is read from the first octet without the offset of one.
GeneratePacketToLeafNoPodOffset(t, hostAddress) ==
    GetLeafAddress(t.podCount, FirstOctet(hostAddress), 0, SecondOctet(hostAddress))

\* P4SwitchApp::GeneratePacketToLeaf: the pod and leaf offset are decoded
\* from the host's physical address, and the packet sent to that leaf.
GeneratePacketToLeaf(t, hostAddress) ==
    GetLeafAddress(t.podCount, FirstOctet(hostAddress) - 1, 0, SecondOctet(hostAddress))

\* SocketHelper::SendFollowMeRule on a misdelivery: the migration
\* destination's address, computed with the PodWidth parameter.
FollowMeAddress(c, dstLeaf, dstHost) ==
    GetNodePhysicalAddress(dstLeaf \div c.podWidth, dstLeaf % c.podWidth, dstHost)

\* TraceSimulation::UpdateMappings: the directory entry of the migrated
\* container, computed with m_podWidth.
UpdateMappingsAddress(t, dstLeaf, dstHost) ==
    GetNodePhysicalAddress(dstLeaf \div t.podWidth, dstLeaf % t.podWidth, dstHost)
=============================================================================
