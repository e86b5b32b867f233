----------------------------- MODULE MC_Bluebird -----------------------------
(***************************************************************************)
(* One Bluebird leaf with three gateway-bound packets: two to VM a, so     *)
(* the second may arrive before, during or after the programming delay of  *)
(* the first, and one to VM b, which evicts a from a one-entry cache.      *)
(* Packet p1 is twice as long as the others, so a later, shorter packet    *)
(* would overtake it if two transmissions ever overlapped.  Times are in   *)
(* units of the control-plane gap; only their order matters.               *)
(***************************************************************************)
EXTENDS Bluebird

CONSTANTS p1, p2, p3, a, b, h1, h2

MCPkts == {p1, p2, p3}
MCDst == [p \in MCPkts |-> IF p = p3 THEN b ELSE a]
MCDir == [v \in {a, b} |-> IF v = a THEN h1 ELSE h2]
MCTxTime == [p \in MCPkts |-> IF p = p1 THEN 2 ELSE 1]
=============================================================================
