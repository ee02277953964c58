CONSTANTS
    shell = shell
    backup = backup
    analysis = analysis
    a = a
    b = b
    None = None
    Ids = {a, b}
    Kinds = {analysis, shell}
    KindOf <- EitherKindOf
    SafeKinds = {}
    DetachKinds = {analysis}
    Workers = {w1}
    Clients = {c1, c2}
    Requests <- EitherRequests
    PendingCap = 1
    MaxKeep = 1
    MaxJobs = 1
    MaxRequests = 2
    MaxBoots = 2
SPECIFICATION FairSpec
INVARIANT TypeOK
PROPERTIES NoSilentEnd QueuedIsServed DetachedEnds
CHECK_DEADLOCK FALSE
