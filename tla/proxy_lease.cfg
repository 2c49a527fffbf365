CONSTANTS
    Seed = {p1}
    Remote = {p2}
    Workers = {w1, w2}
    Keepers = {r1}
    None = None
    Hold = 1
    Cooldown = 1
    MaxFailures = 1
    ChunkSize = 1
    MinPublish = 1
    MaxLag = 1
    MaxLoads = 1
    MaxFaults = 1
SPECIFICATION Spec
SYMMETRY Symmetry
INVARIANTS TypeOK Exclusive
CONSTRAINT OneTrouble
