CONSTANTS
    MaxSessions = 2
    MaxOrders = 2
    MaxVolume = 2
    MaxAccounts = 0
    MaxExternal = 0
    Capacity = 3
    NoOrder = NoOrder
    NoTrade = NoTrade
SPECIFICATION FairSpec
PROPERTIES
    JournalSettles
CHECK_DEADLOCK FALSE
