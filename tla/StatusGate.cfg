SPECIFICATION FairSpec
CONSTANTS
    Handlers = {h1, h2}
    MaxPolls = 2
INVARIANTS
    NoLostWakeup
    OnlyPolledServed
PROPERTIES
    AnswersGoForward
    WaitsEndOnceOpen
