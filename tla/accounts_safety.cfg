CONSTANTS
    k1 = k1
    k2 = k2
    Keys = {k1, k2}
    Processes = {p1, p2}
    Batches <- MCBatches
SPECIFICATION AccountsSpec
SYMMETRY Symmetric
INVARIANTS
    DiskIsWhole
    AnsweredIsDurable
