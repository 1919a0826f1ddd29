CONSTANTS
    Contracts = {c1}
    Special = {c1}
    MaxOrders = 2
    MaxExternal = 0
    MaxResumes = 1
    MaxVolume = 1
    MaxDay = 2
    AccountRisks = {"ok", "daily loss"}
    NoTrade = NoTrade
    NoBook = NoBook
    NoDay = NoDay
SPECIFICATION Spec
INVARIANTS
    TypeOK
    SavedBookIsItsFills
    
PROPERTIES
    TradesOnTheTruth
