SPECIFICATION Spec
CONSTANTS
    N = 3
    Failed <- OneFailed
    BatchSize = 2
    Requests = 2
INVARIANT
    HandoffRowsOmitted
