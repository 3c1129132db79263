SPECIFICATION Spec
CONSTANTS
    w1 = w1
    w2 = w2
    r1 = r1
    r2 = r2
    g1 = g1
    g2 = g2
    a = a
    b = b
    Backend = "postgres"
    Writers = {w1, w2}
    Readers = {r1}
    Groups = {g1, g2}
    Ids = {a, b}
    LockKey <- DistinctKeys
    ReaderGroup <- AllFollowG1
    Limits <- SomeLimits
    MAX_PAGE_SIZE = 2
    MaxCalls = 2
PROPERTY
    GlobalCommitOrder
