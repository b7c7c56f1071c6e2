CONSTANTS
    a1 = a1
    a2 = a2
    Accounts = {a1, a2}
    AccountLists <- MCAccountLists
    Calls = {c1, c2}
    Old = Old
    None = None
SPECIFICATION FairSpec
CHECK_DEADLOCK FALSE
INVARIANTS
    GuardIsHonest
    HandlesAreOpen
    ReportedIsApproved
PROPERTIES
    PairingSettles
