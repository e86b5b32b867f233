------------------------------- MODULE Routing -------------------------------
(***************************************************************************)
(* The forwarding of the fabric SimulationBase builds: the interfaces of  *)
(* every node, numbered in the order AssignPhysicalIps assigns them, the  *)
(* network routes it adds by hand to each node's Ipv4GlobalRouting, and   *)
(* one forwarding step of a packet.                                        *)
(*                                                                         *)
(* A node is <<"host", leaf, j>>, <<"leaf", i>>, <<"spine", s>> or         *)
(* <<"core", k>>.  ns-3 consults the static routing first, which holds the *)
(* /24 subnet of each interface, then the global routing; the global      *)
(* routing returns every network route that matches, and ECMP picks one   *)
(* (any of them, here).  The routes the code adds never overlap in a way  *)
(* that longest-prefix matching would resolve differently.                 *)
(***************************************************************************)
EXTENDS Setup, FiniteSets

HostNode(i, j) == <<"host", i, j>>
LeafNode(i) == <<"leaf", i>>
SpineNode(s) == <<"spine", s>>
CoreNode(k) == <<"core", k>>

Nodes(t) ==
    UNION {{HostNode(i, j) : j \in 0..Len(t.groups[i + 1]) - 1} : i \in 0..t.leafCount - 1}
    \cup {LeafNode(i) : i \in 0..t.leafCount - 1}
    \cup {SpineNode(s) : s \in 0..t.spineCount - 1}
    \cup {CoreNode(k) : k \in 0..t.coreCount - 1}

\* The interfaces of node n by index (1 is the first after the loopback),
\* each with its address and the node at the other end of its link.
\* Ipv4AddressHelper::Assign adds the interface, so the order is that of
\* AssignPhysicalIps: host links, then per spine its leaf links and then
\* its core links.
IfList(t, n) ==
    LET pw == t.podWidth
        cpp == t.coreCount \div pw
        If(addr, peer) == [addr |-> addr, peer |-> peer]
        i == n[2]
    IN CASE n[1] = "host" ->
              <<If(Plus(GetNodeBasePhysicalAddress(i \div pw, i % pw, n[3]), 1), LeafNode(i))>>
         [] n[1] = "leaf" ->
              [j \in 1..Len(t.groups[i + 1]) |->
                 If(Plus(GetNodeBasePhysicalAddress(i \div pw, i % pw, j - 1), 2), HostNode(i, j - 1))]
              \o [o \in 1..pw |->
                    LET s == (i \div pw) * pw + o - 1
                    IN If(Plus(GetSwitchBaseAddress(t.podCount, s \div pw, s % pw, i % pw), 2),
                          SpineNode(s))]
         [] n[1] = "spine" ->
              LET first == (i \div pw) * pw
                  nLeaves == IF first + pw <= t.leafCount THEN pw ELSE t.leafCount - first
              IN [j \in 1..nLeaves |->
                    If(Plus(GetSwitchBaseAddress(t.podCount, i \div pw, i % pw, j - 1), 1),
                       LeafNode(first + j - 1))]
                 \o [j \in 1..cpp |->
                       If(Plus(GetCoreSwitchBaseAddress(i \div pw, (i % pw) * cpp + j - 1), 2),
                          CoreNode((i % pw) * cpp + j - 1))]
         [] n[1] = "core" ->
              [p \in 1..t.podCount |->
                 If(Plus(GetCoreSwitchBaseAddress(p - 1, i), 1),
                    SpineNode((p - 1) * pw + i \div cpp))]

\* A network route: destination network, mask as a number of leading
\* octets (GetClassBMask 2, GetClassCMask 3, GetZero 0), interface index.
Route(net, len, if) == [net |-> net, len |-> len, if |-> if]

\* Mutant: the core's route to a leaf leaves by interface leafPodId.
CoreRoutesOffByOne(t, k) ==
    LET pw == t.podWidth IN
    {Route(GetNodePhysicalAddress(p, j, 0), 2, p + 1) : p \in 0..t.podCount - 1, j \in 0..pw - 1}
    \cup {Route(GetSpineFromLeafAddress(t.podCount, p, j, 0), 3, p + 1) :
            p \in 0..t.podCount - 1, j \in 0..pw - 1}
    \cup {Route(GetLeafAddress(t.podCount, l \div pw, 0, l % pw), 3, l \div pw) :
            l \in 0..t.leafCount - 1}

\* Core to spine routing: every pod's hosts and spines through the pod's
\* interface, and each leaf through its pod, one path only.
CoreRoutes(t, k) ==
    LET pw == t.podWidth IN
    {Route(GetNodePhysicalAddress(p, j, 0), 2, p + 1) : p \in 0..t.podCount - 1, j \in 0..pw - 1}
    \cup {Route(GetSpineFromLeafAddress(t.podCount, p, j, 0), 3, p + 1) :
            p \in 0..t.podCount - 1, j \in 0..pw - 1}
    \cup {Route(GetLeafAddress(t.podCount, l \div pw, 0, l % pw), 3, 1 + l \div pw) :
            l \in 0..t.leafCount - 1}

\* Leaf to spine, leaf to leaf and leaf to core routing.
LeafRoutes(t, i) ==
    LET pw == t.podWidth
        cpp == t.coreCount \div pw
        up == Len(t.groups[i + 1]) + 1      \* the first spine interface
        others == {j \in 0..t.leafCount - 1 : ~(j % pw = i % pw /\ j \div pw = i \div pw)}
    IN {Route(GetNodePhysicalAddress(j \div pw, j % pw, 0), 2, up + k) : j \in others, k \in 0..pw - 1}
       \cup {Route(GetLeafAddress(t.podCount, j \div pw, 0, j % pw), 3, up + k) :
               j \in others, k \in 0..pw - 1}
       \cup {Route(GetSpineFromLeafAddress(t.podCount, s \div pw, s % pw, 0), 3, up + (s % pw)) :
               s \in {s \in 0..t.spineCount - 1 : s \div pw = i \div pw}}
       \cup {Route(GetSpineFromLeafAddress(t.podCount, s \div pw, s % pw, 0), 3, up + k) :
               s \in {s \in 0..t.spineCount - 1 : s \div pw # i \div pw}, k \in 0..pw - 1}
       \cup {Route(GetCoreAddress(0, j), 3, up + j \div cpp) : j \in 0..t.coreCount - 1}

\* Spine to leaf, spine to spine and spine to core routing.
SpineRoutes(t, k) ==
    LET pw == t.podWidth
        cpp == t.coreCount \div pw
        samePodLeaves == {i \in 0..t.leafCount - 1 : i \div pw = k \div pw}
        otherPodLeaves == {i \in 0..t.leafCount - 1 : i \div pw # k \div pw}
        otherSpines == {i \in 0..t.spineCount - 1 : ~(i \div pw = k \div pw /\ i % pw = k % pw)}
    IN {Route(GetNodePhysicalAddress(i \div pw, i % pw, 0), 2, (i % pw) + 1) : i \in samePodLeaves}
       \cup {Route(GetLeafAddress(t.podCount, i \div pw, 0, i % pw), 3, (i % pw) + 1) :
               i \in samePodLeaves}
       \cup {Route(GetNodePhysicalAddress(i \div pw, i % pw, 0), 2, pw + 1 + j) :
               i \in otherPodLeaves, j \in 0..cpp - 1}
       \cup {Route(GetLeafAddress(t.podCount, i \div pw, 0, i % pw), 3, pw + 1 + j) :
               i \in otherPodLeaves, j \in 0..cpp - 1}
       \cup {Route(GetSpineFromLeafAddress(t.podCount, i \div pw, i % pw, 0), 3, 1 + j) :
               i \in {i \in otherSpines : i \div pw = k \div pw}, j \in 0..pw - 1}
       \cup {Route(GetSpineFromLeafAddress(t.podCount, i \div pw, i % pw, 0), 3, pw + 1 + j) :
               i \in {i \in otherSpines : i \div pw # k \div pw}, j \in 0..cpp - 1}
       \cup {Route(GetCoreAddress(0, (k % pw) * cpp + j), 3, pw + 1 + j) : j \in 0..cpp - 1}

\* The routes of node n; a host has the default route through interface 1.
Routes(t, n) ==
    CASE n[1] = "host"  -> {Route(<<0, 0, 0, 0>>, 0, 1)}
      [] n[1] = "leaf"  -> LeafRoutes(t, n[2])
      [] n[1] = "spine" -> SpineRoutes(t, n[2])
      [] n[1] = "core"  -> CoreRoutes(t, n[2])

\* The interfaces and routes of every node, computed once per fabric.
Fabric(t) == [ifs |-> [n \in Nodes(t) |-> IfList(t, n)],
              routes |-> [n \in Nodes(t) |-> Routes(t, n)]]

\* Ipv4Mask::IsMatch for a mask of len leading octets.
Match(addr, net, len) == \A o \in 1..len : addr[o] = net[o]

\* Node n accepts a packet to addr: one of its interfaces has the address,
\* or its P4 switch application intercepts packets to its m_switchAddress.
Accepts(t, f, n, addr) ==
    \/ \E x \in 1..Len(f.ifs[n]) : f.ifs[n][x].addr = addr
    \/ n[1] = "leaf" /\ LeafSwitchAddress(t, n[2]) = addr
    \/ n[1] = "spine" /\ SpineSwitchAddress(t, n[2]) = addr
    \/ n[1] = "core" /\ CoreSwitchAddress(t, n[2]) = addr

\* The nodes a packet to addr may go to next from n: through a directly
\* connected subnet if one matches, else through any matching global route.
\* A route through an interface the node does not have leads nowhere.
NextHops(f, n, addr) ==
    LET ifs == f.ifs[n]
        connected == {ifs[x].peer : x \in {x \in 1..Len(ifs) : Match(addr, ifs[x].addr, 3)}}
    IN IF connected # {} THEN connected
       ELSE {IF r.if \in 1..Len(ifs) THEN ifs[r.if].peer ELSE <<"none">> :
               r \in {r \in f.routes[n] : Match(addr, r.net, r.len)}}
=============================================================================
