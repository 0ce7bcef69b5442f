SPECIFICATION Spec
CONSTANTS
    N = 3
    Failed <- OneFailed
    BatchSize = 2
    Requests = 3
INVARIANTS
    PairingIsFIFO
    CursorOrder
    NoPairingLost
    HandoffRetained
    NoStrandedRow
    CandidatesContiguous
    CacheBehindDisk
    IInv
PROPERTIES
    OnlySettledPassed
    DurableProgress
    ImplementsPipeline
