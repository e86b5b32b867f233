CONSTANTS
    lA = lA  lB = lB  lG = lG  s0 = s0  s1 = s1  k = k  k2 = k2
    hA = hA  hB = hB  hC = hC  hG = hG  g = g  a = a  b = b
    Leaves <- TwoCoreLeaves
    Spines <- TwoCoreSpines
    Cores <- TwoCores
    Links <- TwoCoreLinks
    Hosts <- MCHosts
    LeafOf <- TwoCoreLeafOf
    GwHosts <- MCGwHosts
    VMs <- MCVMs
    InitLoc <- MCInitLoc
    MigVM = b
    MigDst = hC
    Flows <- BothFlows
    Slots <- MCSlots
    Hash <- TwoCoreHash
    Attributes <- AccessBitsOnly
    GenerateInvalidations = TRUE
    LossyDelivery = TRUE
    MaxPackets = 2
    None = None  Done = Done  NoKey = NoKey  NoVal = NoVal

SPECIFICATION Spec
INVARIANT TypeOK
INVARIANT CachedMappingsAreHistorical
CHECK_DEADLOCK FALSE
