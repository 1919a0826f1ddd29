SPECIFICATION Spec
CONSTANTS
  MaxBoots = 2
  MaxRefreshes = 2
  MaxDay = 3
  Adjacent = {1, 2}
  Listing <- ListingMC
  OiContracts <- OiMC
  Thin <- ThinMC
  MaxFaults = 1
  MaxStarts = 2
  None = None
INVARIANTS
    
    ObservedRolloverIsRecorded
    EvidenceStaysReadable
PROPERTIES
    
    SavedEvidenceIsFinal
CHECK_DEADLOCK FALSE
