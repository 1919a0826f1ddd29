CONSTANTS
    Nonces = {n1, n2, n3}
    Activation = Activation
    First = First
    NoProc = NoProc
    NoFile = NoFile
    NoNonce = NoNonce
    NoRequest = NoRequest
    NoMarker = NoMarker
    Torn = Torn
    MaxDay = 3
    MaxTrades = 3
    MaxSaves = 8
    MaxOthers = 1
    MaxFailures = 2
SPECIFICATION Spec
CHECK_DEADLOCK FALSE
SYMMETRY RecoverySymmetry
INVARIANTS
    MarkerIsProven
    PreparedIsUndisturbed
    EvidenceCanCatchUp
    
