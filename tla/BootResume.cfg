CONSTANTS
    shell = shell
    backup = backup
    analysis = analysis
    a = a
    b = b
    None = None
    Ids = {a}
    Kinds = {analysis}
    KindOf <- DetachedKindOf
    SafeKinds = {}
    DetachKinds = {analysis}
    Workers = {w1}
    Clients = {c1}
    Requests <- NoRequests
    PendingCap = 1
    MaxKeep = 1
    MaxJobs = 1
    MaxRequests = 1
    MaxBoots = 2
SPECIFICATION Spec
INVARIANT AtMostOnce
CHECK_DEADLOCK FALSE
