CONSTANTS
    lA = lA  lB = lB  lG = lG  s0 = s0  s1 = s1  k = k  k2 = k2
    hA = hA  hB = hB  hC = hC  hG = hG  g = g  a = a  b = b
    Leaves <- PodLeaves
    Spines <- PodSpines
    Cores <- PodCores
    Links <- PodLinks
    Hosts <- MCHosts
    LeafOf <- PodLeafOf
    GwHosts <- MCGwHosts
    VMs <- MCVMs
    InitLoc <- MCInitLoc
    MigVM = b
    MigDst = hC
    Flows <- MCFlows
    Slots <- MCSlots
    Hash <- PodHash
    Attributes <- DefaultAndLearning
    GenerateInvalidations = TRUE
    LossyDelivery = FALSE
    MaxPackets = 2
    None = None  Done = Done  NoKey = NoKey  NoVal = NoVal

SPECIFICATION Spec
PROPERTY PacketsDelivered
PROPERTY StaleHitRepaired
CHECK_DEADLOCK FALSE
