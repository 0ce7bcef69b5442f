SPECIFICATION LiveSpec
CONSTANT
    N = 3
INVARIANTS
    NoStrandedDeposit
    CursorBehindDisk
PROPERTIES
    ShownUntilSettled
    OnlySettledPassed
    ConvergesOnceCalm
