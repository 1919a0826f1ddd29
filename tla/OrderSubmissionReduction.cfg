CONSTANTS
    MaxSessions = 1
    MaxOrders = 3
    MaxVolume = 1
    MaxAccounts = 2
    MaxExternal = 0
    Capacity = 3
    NoOrder = NoOrder
    NoTrade = NoTrade
SPECIFICATION FairSpec
PROPERTIES
    ReductionGoesOn
CHECK_DEADLOCK FALSE
