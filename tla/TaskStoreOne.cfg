\* One scheduler that asks for pages larger than the store gives.
SPECIFICATION LiveSpec
CONSTANTS
    s1 = s1
    s2 = s2
    Schedulers = {s1}
    TaskIds = {1, 2}
    Limits <- RefusedZeroLarge
    MAX_PAGE_SIZE = 1
    MaxTime = 1
INVARIANTS
    IndInv
    RunsDueTaskOnce
PROPERTY
    DueTasksAreRun
