------------------------------ MODULE PacketCost ------------------------------
(***************************************************************************)
(* IlpControllerApp::GetPacketCost (ilp-controller-app.cc): the hop-based  *)
(* cost of a packet resolved after steps hops, and the cost table of the   *)
(* spec (section 4.6) it should reproduce.  The source and destination are *)
(* given by their leaves (m_containerToPhysicalLocation[..].first); the    *)
(* pod of a leaf is leaf / m_podWidth.                                     *)
(***************************************************************************)
EXTENDS Naturals

CONSTANTS PodWidth,    \* m_podWidth
          CoreCount    \* m_coreCount

Pod(leaf) == leaf \div PodWidth

\* Mutant: the collocation shortcut of a 3-hop packet ignores the core tier.
GetPacketCostNoCoreCheck(srcLeaf, dstLeaf, steps, gwLeaf, gwPod) ==
    CASE steps = 1 -> IF srcLeaf = dstLeaf THEN 2
                      ELSE IF Pod(srcLeaf) = Pod(dstLeaf) THEN 4 ELSE 6
      [] steps = 2 -> IF Pod(srcLeaf) = Pod(dstLeaf) THEN 4 ELSE 6
      [] steps = 3 -> IF dstLeaf = gwLeaf THEN 4 ELSE 6
      [] steps = 4 -> IF Pod(dstLeaf) = gwPod THEN 6 ELSE 8
      [] OTHER     -> IF gwLeaf = dstLeaf THEN 6
                      ELSE IF gwPod = Pod(dstLeaf) THEN 8 ELSE 10

GetPacketCost(srcLeaf, dstLeaf, steps, gwLeaf, gwPod) ==
    CASE steps = 1 -> IF srcLeaf = dstLeaf THEN 2
                      ELSE IF Pod(srcLeaf) = Pod(dstLeaf) THEN 4 ELSE 6
      [] steps = 2 -> IF Pod(srcLeaf) = Pod(dstLeaf) THEN 4 ELSE 6
      [] steps = 3 -> IF CoreCount = 0 /\ dstLeaf = gwLeaf THEN 4 ELSE 6
      [] steps = 4 -> IF Pod(dstLeaf) = gwPod THEN 6 ELSE 8
      [] OTHER     -> IF gwLeaf = dstLeaf THEN 6
                      ELSE IF gwPod = Pod(dstLeaf) THEN 8 ELSE 10

\* The cost table of the spec, one entry per filled cell: the row (hops,
\* five or more in one row), the condition of its column and the cost.
\* A dash in the table is no entry.
TableEntries(srcLeaf, dstLeaf, steps, gwLeaf) ==
    LET samePod == Pod(srcLeaf) = Pod(dstLeaf)
        gwSamePod == Pod(gwLeaf) = Pod(dstLeaf)
        colocated == CoreCount = 0 /\ dstLeaf = gwLeaf
        row == IF steps >= 5 THEN 5 ELSE steps
    IN {e \in {
         [row |-> 1, cond |-> srcLeaf = dstLeaf, cost |-> 2],
         [row |-> 1, cond |-> samePod /\ srcLeaf # dstLeaf, cost |-> 4],
         [row |-> 1, cond |-> ~samePod, cost |-> 6],
         [row |-> 2, cond |-> samePod, cost |-> 4],
         [row |-> 2, cond |-> ~samePod, cost |-> 6],
         [row |-> 3, cond |-> colocated, cost |-> 4],
         [row |-> 3, cond |-> ~colocated /\ ~samePod, cost |-> 6],
         [row |-> 4, cond |-> gwSamePod, cost |-> 6],
         [row |-> 4, cond |-> ~samePod /\ ~gwSamePod, cost |-> 8],
         [row |-> 5, cond |-> gwLeaf = dstLeaf, cost |-> 6],
         [row |-> 5, cond |-> gwSamePod /\ gwLeaf # dstLeaf, cost |-> 8],
         [row |-> 5, cond |-> ~gwSamePod, cost |-> 10]} :
         e.row = row /\ e.cond}
=============================================================================
