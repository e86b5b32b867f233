---------------------------- MODULE MC_Controller ----------------------------
(***************************************************************************)
(* A CLOS fabric of two leaves and two spines (switches 0 and 1 the        *)
(* leaves, 2 and 3 the spines).  Leaf 0 holds hA (VM 0), hB (VM 1) and     *)
(* hC, the migration destination; leaf 1 holds the gateway g and hG        *)
(* (VM 2).  The one flow is VM 0 to VM 1, and VM 1 is the one that        *)
(* migrates.  One cache entry per switch, the default gateway cost 40.     *)
(***************************************************************************)
EXTENDS Controller, TLC

CONSTANTS hA, hB, hC, hG, g

MCHosts == {hA, hB, hC, hG, g}
MCHostLeaf == (hA :> 0) @@ (hB :> 0) @@ (hC :> 0) @@ (hG :> 1) @@ (g :> 1)
MCHostIdx == (hA :> 0) @@ (hB :> 1) @@ (hC :> 2) @@ (hG :> 1) @@ (g :> 0)
MCInitLoc == (0 :> hA) @@ (1 :> hB) @@ (2 :> hG)
MCFlowHash == (hA :> 1) @@ (hB :> 0) @@ (hC :> 2) @@ (hG :> 0) @@ (g :> 0)
OneFlow == {<<0, 1>>}
=============================================================================
