CONSTANTS
    Requests <- MCRequests
    Books <- MCBooks
    Latency = 0
    Depths = {1, 2}
    Configured = TRUE
    Special = TRUE
    NoTick = NoTick
    NoFile = NoFile
    MaxLots = 2
    MaxDay = 2
    MaxOrders = 2
    MaxTicks = 2
    MaxUpdates = 1
    MaxFailures = 1
    MaxSequence = 9
SPECIFICATION Spec
INVARIANTS
    BucketsAreLots
    RestartsAsLeft
    DepthIsSpentOnce
    ToldIsDurable
CHECK_DEADLOCK FALSE
