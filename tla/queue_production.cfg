CONSTANTS
    Msgs = {m1, m2}
    Consumers = {c1, c2}
    NoMsg = NoMsg
    NoOne = NoOne
    MaxId = 4
    Batch = 2
    Workers = 2
    MaxRetries = 1
    MaxLen = 1
    DeleteOnAck = FALSE
    HasDLQ = TRUE
    Recover = FALSE
    AsyncRetry = FALSE
    AsyncMaxRetries = 0
    MaxCrashes = 1
    MaxFaults = 1
    MaxSlow = 0
SPECIFICATION RestartSpec
INVARIANTS TypeOK NoTaskLost SingleCopy ExclusiveHold DeadAfterAllRetries
PROPERTIES LifecycleSpec Settles InFlightReclaimed
