SPECIFICATION WalletSpec
CONSTANTS
    Requests <- MCRequests
    PoolKinds <- MCPoolKinds
    Levels = {0, 1, 2, 10000, 15000}
    Allowances = {6, 20000}
    SqrtPrices = {3, 6, 8, 17}
    SqrtAt <- MCSqrtAt
    Position <- MCPosition
    OldRange <- MCOldRange
    Fine = 4
    MaxMoves = 1
    Q96 = 8
    None = None
    coin = coin
    obscure = obscure
    payee = payee
    Decimals <- MCDecimals
    Listed = {coin}
    NativeDecimals = 2
    Caller = caller
    Max = Max
    Malformed = Malformed
INVARIANTS ChecksHold SwapDelivers AsAsked
CHECK_DEADLOCK FALSE
