SPECIFICATION Spec
CONSTANTS
    k1 = k1
    k2 = k2
    k3 = k3
    t1 = t1
    t2 = t2
    t3 = t3
    t4 = t4
    NoTicket = NoTicket
    Callers = {k1, k2, k3}
    Tickets = {t1, t2, t3, t4}
    Capacity = 2
    MaxHeld = 2
SYMMETRY Symmetry
INVARIANT
    HandlerDroppedMeansGone
