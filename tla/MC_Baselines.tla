---------------------------- MODULE MC_Baselines ----------------------------
(***************************************************************************)
(* Two leaves and two spines.  VM a runs on hA, VM b on hB, both under     *)
(* leaf 0; the gateway g and hC are under leaf 1, and b migrates to hC.    *)
(* One cache slot per switch.                                              *)
(***************************************************************************)
EXTENDS Baselines, TLC

CONSTANTS hA, hB, hC, g, a, b

MCHosts == {hA, hB, hC, g}
MCHostLeaf == (hA :> 0) @@ (hB :> 0) @@ (hC :> 1) @@ (g :> 1)
MCVMs == {a, b}
MCInitLoc == (a :> hA) @@ (b :> hB)
BothFlows == {<<a, b>>, <<b, a>>}
OneSlot == {1}
MCHash == [s \in 0..3 |-> [v \in MCVMs |-> 1]]
AllModes == {"NoCache", "LocalLearning", "GwCache", "Direct", "OnDemand"}
=============================================================================
