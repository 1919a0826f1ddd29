CONSTANTS
    Orders = {o1, o2}
    Accounts = {a1, a2}
    Home = a1
    Lots = {l1}
    Transactions = {t1}
    NoEntry = NoEntry
    NoFile = NoFile
    NoOp = NoOp
    NoIntent = NoIntent
    MaxDay = 2
    MaxHot = 2
    RecentDays = 1
    MaxRecent = 2
    MaxIdentities = 2
    MaxFailures = 1
    MaxSaves = 4
SPECIFICATION Spec
CHECK_DEADLOCK FALSE
INVARIANTS
    JournalSurvivesCrash
PROPERTIES
    IsAtomicJournal
SYMMETRY OrderSymmetry
