SPECIFICATION Spec
CONSTANTS
    Complainants = {1, 2, 3}
    K = 2
    W = 2
    MaxLength = 5
    Logs <- MCLogs
INVARIANTS
    ScanInv
    Corroborated
    DisjointEvidence
    NothingMissed
    LoopComputesFires
PROPERTY PromiseSpec
CHECK_DEADLOCK FALSE
