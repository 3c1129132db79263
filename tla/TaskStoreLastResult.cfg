\* What the store's documentation says of a task row.
SPECIFICATION Spec
CONSTANTS
    s1 = s1
    s2 = s2
    Schedulers = {s1, s2}
    TaskIds = {1}
    Limits <- SomeLimits
    MAX_PAGE_SIZE = 1
    MaxTime = 1
PROPERTIES
    LastResultIsMostRecent
