CONSTANTS
    MaxSessions = 2
    MaxOrders = 2
    MaxVolume = 2
    MaxAccounts = 1
    MaxExternal = 1
    Capacity = 3
    NoOrder = NoOrder
    NoTrade = NoTrade
SPECIFICATION Spec
INVARIANTS
    WriteAhead
    EnoughSlots
    
PROPERTIES
    
    JournalKeepsItsEvidence
CHECK_DEADLOCK FALSE
