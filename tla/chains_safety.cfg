SPECIFICATION Spec
CONSTANTS
    a = a
    b = b
    Accounts = {a, b}
    Persona = persona
    Stranger = stranger
    Families = {"solana", "tron", "bittensor"}
    Requests <- MCRequests
    Shapes <- MCShapes
    Levels <- MCLevels
    Pools <- MCPools
    Calls = {c1, c2}
    Handles = {h1}
    Tokens = {t1}
    TTL = 1
    Extension = 1
    Deadline = 0
    MaxTime = 2
    MaxMoves = 1
    MaxNonce = 1
    MaxSafe = 2000000
    MaxNetuid = 1
    Unlimited = Unlimited
    Bad = Bad
    None = None
INVARIANTS
    PaysOnce
    SentMeansTaken
    LandsFromShown
    OfferedWhileValid
    LimitsHold
SYMMETRY Interchangeable
CHECK_DEADLOCK FALSE
