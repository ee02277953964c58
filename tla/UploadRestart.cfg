CONSTANTS
    Sids = {s1, s2, s3, s4}
    Sources = {f1}
    Size = 2
    TTL = 1
    Hole = Hole
    None = None
    MaxClock = 1
    MaxFaults = 1
    MaxCalls = 4
    MaxPicks = 1
SPECIFICATION UploadSpec
PROPERTY LostSessionRestarts
CHECK_DEADLOCK FALSE
