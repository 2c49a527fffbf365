CONSTANTS
    Msgs = {m1}
    Consumers = {c1, c2}
    NoMsg = NoMsg
    NoOne = NoOne
    MaxId = 5
    Batch = 1
    Workers = 1
    MaxRetries = 2
    MaxLen = 2
    DeleteOnAck = TRUE
    HasDLQ = FALSE
    Recover = TRUE
    AsyncRetry = TRUE
    AsyncMaxRetries = 1
    MaxCrashes = 1
    MaxFaults = 1
    MaxSlow = 1
SPECIFICATION Spec
SYMMETRY Symmetry
INVARIANTS NoTaskLost
