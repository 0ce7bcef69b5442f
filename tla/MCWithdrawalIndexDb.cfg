SPECIFICATION Spec
CONSTANTS
    Amount <- MCAmount
    Todo <- MCTodo
    Denoms = {0, 1, 2}
    ReadCount = 3
    BatchSize = 2
    MaxRows = 5
    MaxRestarts = 2
INVARIANTS
    RowsMatchIndex
    ReadsAreARun
PROPERTIES
    EventuallyIndexed
    ImplementsLog
