SPECIFICATION TaskSpec
CONSTANTS
    MaxRetries = 5
    TotalTime = 60
    RequestTimeout = 30
PROPERTY
    TotalTimeSpent
