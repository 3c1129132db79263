\* Two processes that migrate and one that checks, both back ends.
SPECIFICATION LiveCheckSpec
CONSTANTS
    p1 = p1
    p2 = p2
    Migrators = {p1, p2}
    Preseeded <- SomePreseeded
    Drifts <- SomeDrifts
INVARIANTS
    RecordedIsComplete
    AllOrNothing
    AnswerIsTrue
    OkMeansShape
    DriftWasThereBefore
PROPERTY
    EachGetsThrough
