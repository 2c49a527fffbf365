CONSTANTS
    None = None
    Proxies = {"p1", "p2", "p3"}
    Unsupported = {"p3"}
    Callers = {"c1", "c2"}
    Direct = "direct"
    MaxRetries = 1
    AllowDirect = TRUE
    MaxCache = 1
    Operators = {"o1", "o2"}
    DeadMatches = {"m1"}
    NoMatch = None
    Limit = 1
    MaxLetters = 2
    MaxOpFaults = 1
    Workers = {"w1", "w2", "w3"}
    Timers = {"t1", "t2"}
    NoTimer = None
    Threshold = 2
    Target = 3
    Migrators = {"ingestion", "analysis"}
    Versions = {1, 2, 3}
    Known <- KnownVersions
    LockID <- OneLock
    NoHolder = None
    MaxMigFaults = 2
    Txs = {"t1", "t2"}
    Stored = {"m1"}
    Docs <- FourDocs
    NewHeroes = {1, 2}
    Nobody = None
    MaxTries = 2
    MaxTxFaults = 1
    Cycles <- TwoCycles
    AtStart = {"matches", "leagues"}
    Repeated = {"matches", "leagues"}
    MaxEdition = 2
    MaxDiscFaults = 2
    Strings <- GoStrings
    Used = {"heroes", "abilities", "ability_ids", "hero_abilities"}
    MaxEnrichFaults = 1
    Nil = None
    ParseTask = 1
    Messages <- Payloads
    Views = {1, 2}
    Publications = {1, 2, 3}
    SpecOf <- Published
    Requesters = {"r1"}
    NoModel = None
    MaxServeFaults = 0
    Catalogs = {5, 24}
    TopKs = {0, 1}
    Scorings <- Ways
    ScoreOf <- ScoreIn
    MaxSimFaults = 1
    Results <- ThreeMatches
    Matches = {1, 2, 3}
    Limits = {0, 1}
    BackCatalog <- Heroes3
SPECIFICATION ServingRun
PROPERTY ValueReloaded
CHECK_DEADLOCK FALSE
