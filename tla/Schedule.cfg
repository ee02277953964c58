CONSTANTS
    s1 = s1
    s2 = s2
    backup = backup
    notice = notice
    None = None
    Sids = {s1, s2}
    Kinds = {backup, notice}
    ThenKind <- MCThenKind
    ThenOn <- MCThenOn
    NextAfter <- MCNextAfter
    Clients = {c1}
    MaxClock = 2
    MaxQueue = 3
    MaxOps = 3
    MaxBoots = 2
SPECIFICATION FairSpec
INVARIANTS  SavedSchedules 
  
CHECK_DEADLOCK FALSE
