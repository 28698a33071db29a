SPECIFICATION FairSpec
CONSTANTS
    Callers = {c1, c2}
    Ops = {"once"}
    MaxRetries = 1
    MaxTokens = 3
INVARIANTS
    TypeOK
    GrantKept
    FailureMeansUndone
    
PROPERTIES
    CallReturns
