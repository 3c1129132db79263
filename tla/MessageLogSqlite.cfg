\* SQLite, three calls, a consumer for each group.
SPECIFICATION LiveSpec
CONSTANTS
    w1 = w1
    w2 = w2
    r1 = r1
    r2 = r2
    g1 = g1
    g2 = g2
    a = a
    b = b
    Backend = "sqlite"
    Writers = {w1, w2}
    Readers = {r1, r2}
    Groups = {g1, g2}
    Ids = {a, b}
    LockKey <- OneKey
    ReaderGroup <- EachFollowsOne
    Limits <- SomeLimits
    MAX_PAGE_SIZE = 2
    MaxCalls = 3
INVARIANT
    IndInv
PROPERTY
    CallsReturn
