SPECIFICATION Spec
CONSTANTS
    a = a
    b = b
    o = o
    mine = mine
    mixed = mixed
    Asked <- MCAsked
    shared = shared
    Safes = {mine, shared}
    Spellings = {low, mixed}
    Lower = low
    Signers = {a, b, o}
    Paired = {a}
    Confirmations <- MCConfirmations
    Configs <- MCConfigs
    Payloads = {transfer}
    MaxNonce = 1
    Limit = 2
    MaxTime = 1
    Calls = {c1, c2}
    Handles = {1, 2}
    Tokens = {bridge}
    Shapes <- MCShapes
    TTL = 0
    None = None
INVARIANTS PreparedExecutes SentMeansPosted PostedIsSeen
SYMMETRY Interchangeable
CHECK_DEADLOCK FALSE
