SPECIFICATION TaskSpec
CONSTANTS
    MaxRetries = 1
    TotalTime = 2
    RequestTimeout = 30
PROPERTY
    PollsGoOn
