CONSTANTS
    Sids = {s1, s2, s3, s4}
    Sources = {f1}
    Size = 3
    TTL = 1
    Hole = Hole
    None = None
    MaxClock = 1
    MaxFaults = 1
    MaxCalls = 4
    MaxPicks = 2
    a1 = a1
    a2 = a2
    Actions = {a1, a2}
    InBody = {a2}
    TETO = 2
    Life <- MCLife
    Nil = Nil
    OMaxClock = 1
    OMaxFaults = 1
SPECIFICATION MobileSpec
INVARIANTS ReceivedIsCoverage ResumePointIsSaved  
PROPERTIES  UploadIsAtomic  
CHECK_DEADLOCK FALSE
