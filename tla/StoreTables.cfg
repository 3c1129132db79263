\* Two callers, one key, pages of one row.
SPECIFICATION LiveSpec
CONSTANTS
    w1 = w1
    w2 = w2
    g1 = g1
    g2 = g2
    Callers = {w1, w2}
    Keys = {g1}
    Urls <- SomeUrls
    Failures <- SomeFailures
    Refusals <- SomeRefusals
    Lost <- SomeLost
    PoolSize = 2
    MAX_PAGE_SIZE = 1
    MaxCalls = 2
    MaxLog = 2
    MaxTime = 2
INVARIANTS
    TypeOK
    OnceEach
    ReadsSeeAllWrites
    ErrorsAreRedacted
    SinceIsNotAnotherView
PROPERTY
    CallsEnd
