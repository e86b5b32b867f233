\* Placement files of 8, 9 and 12 servers at 8 and 10 ports: some fill
\* their leaves exactly, some leave servers over.
CONSTANTS
    TraceTs = {0}
    MaxFlows = 1
    StopMargin = 3
    PodWidth = 2
    MaxLeaf = 0
    MaxSteps = 1
    CoreCounts = {}
    Topologies = {"Clos"}
    Ports = {8, 10}
    Cores = {0}
    PodWidths = {2}
    Servers = {8, 9, 12}
    PerServer = {1}
    GwLeafLists <- MCGwLeafLists
    Beyonds <- MCNoBeyond

SPECIFICATION Spec
INVARIANT PlacementDeploysEveryNode
