SPECIFICATION DashSpec
CONSTANTS
    N = 2
    Failed <- MCFailed
    BatchSize = 1
    Requests = 2
    Units <- MCUnits
    MaxIdx = 2
    MaxSeq = 2
INVARIANT
    PairedWithOwnRequest
PROPERTY
    DrainsOnceCalm
