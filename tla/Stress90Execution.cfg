CONSTANTS
    Products = {{a, b}}
    Heavy = {b}
    MaxLots = 3
    MaxDay = 2
    NoIntent = NoIntent
SPECIFICATION Spec
INVARIANTS
    
    FrozenAddsNoRisk
    OwnFillsAreAdopted
PROPERTIES
    DayIsDecidedOnce
CHECK_DEADLOCK FALSE
