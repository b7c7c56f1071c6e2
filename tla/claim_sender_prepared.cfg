CONSTANTS
    Handles = {h1}
    Tokens = {t1, t2}
    Calls = {c1, c2, c3}
    Accounts = {a1, a2}
    Shapes <- MCNamedShapes
    None = None
    TTL = 1
    MaxTime = 2
    MaxNonce = 2
SPECIFICATION Spec
SYMMETRY Symmetric
CHECK_DEADLOCK FALSE
INVARIANT
    SenderIsPrepared
