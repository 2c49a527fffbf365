CONSTANTS
    Matches = {m1, m2}
    Invalid = {}
    Poison = {m2}
    Fetchers = {f1}
    Parsers = {p1}
    NoTask = NoTask
    MaxRetries = 1
    SeenTTL = TRUE
    MaxQueue = 1
    MaxFaults = 1
SPECIFICATION FairSpec
PROPERTIES SelfHealing EventuallyParsed
