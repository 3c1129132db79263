SPECIFICATION LiveSpec
CONSTANTS
    k1 = k1
    k2 = k2
    k3 = k3
    t1 = t1
    t2 = t2
    t3 = t3
    t4 = t4
    NoTicket = NoTicket
    Callers = {k1, k2}
    Tickets = {t1, t2, t3}
    Capacity = 0
    MaxHeld = 2
INVARIANTS
    TypeOK
    AnswersMatch
    NobodyForgotten
PROPERTIES
    ImplementsService
    CallsReturn
    AcceptedIsReceived
