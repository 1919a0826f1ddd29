CONSTANTS
    Runtimes = {r1, r2}
    Accounts = {a1, a2}
    Nonces = {n1, n2, n3}
    NoBinding = NoBinding
    NoFile = NoFile
    Torn = Torn
    NoAccount = NoAccount
    NoEpoch = NoEpoch
    NoNonce = NoNonce
    MaxBegun = 3
    MaxRevision = 3
    MaxFailures = 2
    MaxTorn = 1
SPECIFICATION Spec
CHECK_DEADLOCK FALSE
INVARIANTS
    FilesSurviveCrash
    RunningIsAuthorised
PROPERTIES
    ConsumedIsNeverRefused
    IsAtomicRegistry
SYMMETRY LifecycleSymmetry
