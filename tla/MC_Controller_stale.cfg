CONSTANTS
    hA = hA  hB = hB  hC = hC  hG = hG  g = g
    None = None  Done = Done
    NLeaves = 2
    Hosts <- MCHosts
    HostLeaf <- MCHostLeaf
    HostIdx <- MCHostIdx
    GwHost = g
    VMs = {0, 1, 2}
    InitLoc <- MCInitLoc
    MigVM = 1
    MigDst = hC
    Flows <- OneFlow
    FlowHash <- MCFlowHash
    MemorySize = 1
    GwCost = 40
    MaxPackets = 2
    MaxSolves = 2

SPECIFICATION Spec
INVARIANT ControllerIsAuthoritative
CHECK_DEADLOCK FALSE
