CONSTANTS
    Matches = {m1}
    Invalid = {}
    Poison = {}
    Fetchers = {f1}
    Parsers = {p1, p2}
    NoTask = NoTask
    MaxRetries = 1
    SeenTTL = TRUE
    MaxQueue = 1
    MaxFaults = 2
SPECIFICATION Spec
SYMMETRY Symmetry
INVARIANTS TypeOK SeenOnlyAfterCommit
PROPERTIES NeverDowngraded
