SPECIFICATION Spec
CONSTANTS
    Operators <- MCOperators
    NoUrl = "none"
    MaxRetries = 3
PROPERTIES
    FailoverInOrder
    OperatorsConverge
