SPECIFICATION LendingToolsSpec
CONSTANTS
    a1 = a1
    a2 = a2
    Accounts = {a1, a2}
    Requests <- MCRequests
    MaxAmount = 2
    MaxOthers = 2
    VirtualShares = 2
    None = None
    Everything = Everything
    Malformed = Malformed
    ScanRequests <- MCScanRequests
    Items = {i1, i2}
    MaxBlock = 4
    ChunkBlocks = 2
    MaxHeld = 1
    MaxSpent = 1
    SimRequests <- MCSimRequests
    Assets = {b, c}
    Base = b
    Prices = {1, 2}
    MaxOf = 2
    Factor = 80
    EModeFactor = 90
    LiquidateFactor = 85
    MaxSimMoves = 1
INVARIANTS IntentIsKept RepayMaxClears WithdrawMaxFits QuietMeansApproved NothingHidden ShownIsReached
SYMMETRY ScanSymmetry
CHECK_DEADLOCK FALSE
