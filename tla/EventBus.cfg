\* Two observers, rings of one slot (also when none is asked for) and two.
SPECIFICATION LiveSpec
CONSTANTS
    o1 = o1
    o2 = o2
    x = x
    Subscribers = {o1, o2}
    Subjects = {x}
    Emitted <- SomeEvents
    Capacities = {0, 1, 2}
    RingSize <- PowerOfTwo
    MaxEvents = 3
INVARIANTS
    Accounted
    StaleMeansTold
PROPERTIES
    DroppedWhenFull
    CatchesUp
