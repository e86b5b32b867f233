\* A Clos fabric of five leaves (ten ports, 25 servers) under the default
\* PodWidth parameter of 4, and smaller fabrics.
CONSTANTS
    TraceTs = {0, 1, 2}
    MaxFlows = 1
    StopMargin = 3
    PodWidth = 2
    MaxLeaf = 0
    MaxSteps = 1
    CoreCounts = {}
    Topologies = {"Clos", "Fattree"}
    Ports = {8, 10}
    Cores = {0}
    PodWidths = {4}
    Servers = {16, 25}
    PerServer = {1}
    GwLeafLists <- MCGwLeafLists
    Beyonds <- MCNoBeyond

SPECIFICATION Spec
INVARIANT FollowMeReachesMigrationDestination
