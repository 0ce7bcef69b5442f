SPECIFICATION Spec
CONSTANTS
    Operators <- MCOperators
    NoUrl = "none"
    MaxRetries = 1
    Fates <- MCFates
    MaxConfirmations = 2
    MaxReorg = 1
    MaxTip = 3
INVARIANT
    SettledForGood
PROPERTY
    SettlesInTheEnd
