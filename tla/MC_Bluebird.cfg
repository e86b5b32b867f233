CONSTANTS
    p1 = p1
    p2 = p2
    p3 = p3
    a = a
    b = b
    h1 = h1
    h2 = h2
    Pkts <- MCPkts
    Dst <- MCDst
    Dir <- MCDir
    TxTime <- MCTxTime
    CPDelay = 3
    ProgDelay = 2
    CompleteGap = 1
    QueueCap = 1
    Capacity = 1
    Horizon = 5
SPECIFICATION Spec
INVARIANT ReleasedInQueueOrder
PROPERTY QueuedPacketsReleased
PROPERTY ReleasedAfterRoundTrip
CHECK_DEADLOCK FALSE
