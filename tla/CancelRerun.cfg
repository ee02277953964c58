CONSTANTS
    shell = shell
    backup = backup
    analysis = analysis
    a = a
    b = b
    None = None
    Ids = {a}
    Kinds = {shell}
    KindOf <- RerunKindOf
    SafeKinds = {}
    DetachKinds = {}
    Workers = {w1, w2}
    Clients = {c1, c2}
    Requests <- DetachedRequests
    PendingCap = 1
    MaxKeep = 1
    MaxJobs = 1
    MaxRequests = 2
    MaxBoots = 1
SPECIFICATION Spec
INVARIANT WorkersKeepJobs
CHECK_DEADLOCK FALSE
