CONSTANTS
    r1 = r1
    r2 = r2
    c1 = c1
    k1 = k1
    k2 = k2
    NoEvent = NoEvent
    Keys = {k1, k2}
    Rules = {r1, r2}
    Chans = {c1}
    Matches <- MCMatches
    ChannelsOf <- MCChannelsOf
    BufSize = 2
    Window = 3
    BrkLimit = 2
    BrkOpen = 1
    HistoryCap = 2
    MaxTime = 3
    MaxEvents = 3
    MaxEdits = 1
    Workers = {w1}
    Clients = {h1}
    FollowUps = {FALSE}
    g1 = g1
    g2 = g2
    Guests = {g1, g2}
    Revokers = {v1}
    MaxInstant = 2
    MaxSecrets = 2
    MaxForeign = 1
    MaxMoves = 1
    MaxFailures = 1
SPECIFICATION NotifySpec
INVARIANTS
    OncePerWindow BreakerRests HistoryNewestFirst EventsAccounted
    NoWaitCycle NoOrphanToken ScreenIsHonest
PROPERTIES EventsTaken 
CHECK_DEADLOCK FALSE
