SPECIFICATION PaySpec
CONSTANTS
    a = a
    b = b
    c = c
    t = t
    u = u
    Uses = {"alone", "cosign", "watch", "message", "pay", "demo"}
    MaxHandles <- MCMaxHandles
    Signers = {a, b, c}
    Ledgers = {a}
    Wallets = {a, b}
    Coins <- MCCoins
    Pairings <- MCPairings
    Calls = {x1, x2}
    Policies <- MCPolicies
    Names = {n}
    Txs = {t, u}
    PolicyOf <- MCPolicyOf
    Inputs = {i1, i2}
    Slots = {s1, s2}
    Gap = 3
    Batch = 2
    MaxIndex = 4
    MaxSaves <- MCSaves
    MaxCosigns <- MCCosigns
    MaxTime <- MCTime
    Handles = {h1, h2}
    Tokens = {k1}
    Shapes <- MCShapes
    TTL = 0
    None = None
INVARIANTS PolicyMatches ScanFindsUsed BroadcastIsTrue
PROPERTIES SignatureIsSent CombineKeepsAll
SYMMETRY Interchangeable
CHECK_DEADLOCK FALSE
