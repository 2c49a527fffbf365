CONSTANTS
    Seed = {p1}
    Remote = {p2}
    Workers = {w1}
    Keepers = {r1}
    None = None
    Hold = 1
    Cooldown = 1
    MaxFailures = 1
    ChunkSize = 1
    MinPublish = 1
    MaxLag = 0
    MaxLoads = 0
    MaxFaults = 0
SPECIFICATION FairSpec
PROPERTIES CooldownRestores
