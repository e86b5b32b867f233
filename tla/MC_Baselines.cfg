CONSTANTS
    hA = hA  hB = hB  hC = hC  g = g  a = a  b = b
    None = None  Done = Done  NoKey = NoKey  NoVal = NoVal
    NLeaves = 2
    Hosts <- MCHosts
    HostLeaf <- MCHostLeaf
    GwHost = g
    VMs <- MCVMs
    InitLoc <- MCInitLoc
    MigVM = b
    MigDst = hC
    Flows <- BothFlows
    Slots <- OneSlot
    Hash <- MCHash
    Modes <- AllModes
    MaxPackets = 2

SPECIFICATION Spec
INVARIANT CachedMappingsAreHistorical
PROPERTY PacketsDelivered
CHECK_DEADLOCK FALSE
