SPECIFICATION LiveSpec
CONSTANTS
    L = 4
    BlockOf <- MCBlockOf
    Offset <- MCOffset
    StartBlock = 0
    FinalityLag = 2
    Batch = 2
    RpcLag = 2
    MaxHead = 8
INVARIANTS
    IndexIsChainPrefix
    NoLogSkipped
    OnlyFinalIndexed
PROPERTIES
    DurableProgress
    CatchesUpOnceCalm
