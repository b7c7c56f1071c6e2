SPECIFICATION BitcoinSpec
CONSTANTS
    FirstCoins <- MCCoins
    Sends <- MCSends
    Rates = {10, 200}
    BumpRates = {5, 25, 40, 200}
    MaxTxs = 2
    MaxChange = 1
    Nothing = Nothing
INVARIANTS FeePaysTheRate SpendsConfirmed BumpReplaces
CHECK_DEADLOCK FALSE
