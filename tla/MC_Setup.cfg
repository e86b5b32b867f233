CONSTANTS
    TraceTs = {0, 1, 2}
    MaxFlows = 3
    StopMargin = 3
    PodWidth = 2
    MaxLeaf = 3
    MaxSteps = 6
    CoreCounts = {0, 2}
    Topologies = {"Clos", "Fattree"}
    Ports = {8, 10}
    Cores = {0, 2, 4}
    PodWidths = {1, 2, 4}
    Servers = {4, 8, 9, 12, 16}
    PerServer = {0, 1, 2}
    GwLeafLists <- MCGwLeafLists
    Beyonds <- MCBeyonds

SPECIFICATION Spec
INVARIANT CostMatchesTable
INVARIANT PlacementKeepsGateways
INVARIANT AddressesUnique
INVARIANT LearningReachesHostLeaf
INVARIANT GatewaysShareContainers
INVARIANT RoutesReachDestinations
INVARIANT ClientSendsFlowsAtTraceTime
