\* One caller that records one event, and repeats it when told to.
SPECIFICATION Spec
CONSTANTS
    w1 = w1
    w2 = w2
    g1 = g1
    g2 = g2
    Callers = {w1}
    Keys = {g1}
    Urls <- SomeUrls
    Failures <- SomeFailures
    Refusals <- SomeRefusals
    Lost <- SomeLost
    PoolSize = 2
    MAX_PAGE_SIZE = 1
    MaxCalls = 1
    MaxLog = 2
    MaxTime = 1
INVARIANT
    EventsRecordedOnce
