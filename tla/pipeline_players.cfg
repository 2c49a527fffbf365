CONSTANTS
    Matches = {m1}
    Invalid = {}
    Poison = {}
    Fetchers = {f1}
    Parsers = {p1}
    NoTask = NoTask
    MaxRetries = 1
    SeenTTL = TRUE
    MaxQueue = 1
    MaxFaults = 0
SPECIFICATION Spec
INVARIANTS FullyParsed
