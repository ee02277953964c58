CONSTANTS
    a1 = a1
    a2 = a2
    Actions = {a1, a2}
    InBody = {a2}
    TETO = 2
    Life <- MCLife
    Nil = Nil
    OMaxClock = 1
    OMaxFaults = 1
SPECIFICATION OutboxSpec
INVARIANT RunsOnce
CHECK_DEADLOCK FALSE
