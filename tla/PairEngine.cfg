CONSTANTS
    Contracts = {near, far}
    Near = near
    Far = far
    Special = {far}
    PairVolume = 2
    MaxOrders = 2
    MaxExternal = 0
    MaxResumes = 0
    MaxVolume = 2
    MaxDay = 1
    AccountRisks = {}
    NoTrade = NoTrade
    NoBook = NoBook
    NoBatch = NoBatch
SPECIFICATION FairSpec
PROPERTIES
    
    
    NakedLegIsNoticed
