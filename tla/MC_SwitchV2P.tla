---------------------------- MODULE MC_SwitchV2P ----------------------------
(***************************************************************************)
(* Fabrics for TLC.  Two VMs, a on hA and b on hB; b migrates to hC.  One  *)
(* cache slot per switch, so the keys a and b always collide.              *)
(*                                                                         *)
(* TwoCore fabric (the safety runs): leaf lA (hosts hA, hB, hC) under the  *)
(* SPINE s1, the gateway leaf lG (host g), and two cores k and k2 that     *)
(* join them.  A gateway-bound packet from lA crosses lA, s1, a core and   *)
(* lG, and ECMP may bring the answer back over the other core, so a spine  *)
(* can hold a mapping that the core on the next path lacks: the case in   *)
(* which the core admits a promoted Eviction.  The spine tier of the       *)
(* gateway pod is left out to keep the paths short.                        *)
(*                                                                         *)
(* Pod fabric (the liveness runs): leaves lA (hA), lB (hB, hC) and lG (g)  *)
(* under one GW_SPINE s0.  The old and new hosts of b share lB, so a stale *)
(* entry at lA can only be repaired by the invalidation lB sends back.     *)
(***************************************************************************)
EXTENDS SwitchV2P, TLC

CONSTANTS lA, lB, lG, s0, s1, k, k2, hA, hB, hC, hG, g, a, b

MCHosts == {hA, hB, hC, g}
MCGwHosts == {g}
MCVMs == {a, b}
MCInitLoc == (a :> hA) @@ (b :> hB)
MCFlows == {<<a, b>>}
BothFlows == {<<a, b>>, <<b, a>>}
MCSlots == {1}

\* Attribute settings [SourceLearning, AccessBit, BloomFilter].
Attr(sl, ab, bf) == [sourceLearning |-> sl, accessBit |-> ab, bloomFilter |-> bf]
AccessBitsOnly == {Attr(FALSE, TRUE, FALSE)}
SourceLearningOnly == {Attr(TRUE, TRUE, FALSE)}
\* The default pipeline with access bits, and source learning with the
\* bloom filter and without access bits, as two initial states of one run.
DefaultAndLearning == {Attr(FALSE, TRUE, FALSE), Attr(TRUE, FALSE, TRUE)}

TwoCoreLeaves == {lA, lG}
TwoCoreSpines == {s1}
TwoCores == {k, k2}
TwoCoreLinks == {<<lA, s1>>, <<s1, k>>, <<s1, k2>>, <<lG, k>>, <<lG, k2>>}
TwoCoreLeafOf == (hA :> lA) @@ (hB :> lA) @@ (hC :> lA) @@ (g :> lG)
TwoCoreHash == [s \in TwoCoreLeaves \cup TwoCoreSpines \cup TwoCores |-> [v \in MCVMs |-> 1]]

PodLeaves == {lA, lB, lG}
PodSpines == {s0}
PodCores == {}
PodLinks == {<<lA, s0>>, <<lB, s0>>, <<lG, s0>>}
PodLeafOf == (hA :> lA) @@ (hB :> lB) @@ (hC :> lB) @@ (g :> lG)
PodHash == [s \in PodLeaves \cup PodSpines |-> [v \in MCVMs |-> 1]]

\* The pod fabric with b starting on hG, a server beside the gateway under
\* the GW_LEAF lG (trace-sim.cc places servers and gateways on one leaf),
\* and migrating to hC, also under lG.
GwPodHosts == MCHosts \cup {hG}
GwPodLeafOf == (hG :> lG) @@ (hC :> lG) @@ PodLeafOf
GwPodInitLoc == (a :> hA) @@ (b :> hG)
=============================================================================
