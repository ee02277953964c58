CONSTANTS
    shell = shell
    backup = backup
    analysis = analysis
    a = a
    b = b
    None = None
    Ids = {a, b}
    Kinds = {shell, backup}
    KindOf <- PoolKindOf
    SafeKinds = {backup}
    DetachKinds = {}
    Workers = {w1, w2}
    Clients = {c1, c2}
    Requests <- PoolRequests
    PendingCap = 1
    MaxKeep = 1
    MaxJobs = 2
    MaxRequests = 2
    MaxBoots = 2
    n1 = n1
    n2 = n2
    Names = {n1, n2}
    Def <- MCDef
    Readings = {0, 1, 2}
    Missing = Missing
    Editors = {h1}
    MaxTicks = 4
    MaxRuleEdits = 1
    MaxRestarts = 1
    d1 = d1
    d2 = d2
    t1 = t1
    t2 = t2
    t3 = t3
    Devices = {d1, d2}
    Threads = {t1, t2, t3}
    DeviceOf <- MCDeviceOf
    MaxPairs = 4
    MaxTrouble = 1
    MaxLapses = 1
    MaxApiCalls = 2
    Tabs = {p1, p2}
    NoTab = NoTab
    Sockets = {s1, s2}
    maxPerRm = 2
    Grace = 2
    Touch = 1
    MaxSeconds = 3
    MaxJoins = 3
    MaxDeploys = 1
SPECIFICATION PanelSpec
INVARIANTS
    DiskMatchesMemory NoLostJob AtMostOnce WorkersKeepJobs OrderMatchesJobs
    EpisodesAlternate SavedAtRest NeverSwallowed
    StillRenewable OccupiedHasCall
PROPERTIES NoSilentEnd EndIsFinal SessionEndsForAReason RingsAreNew
SYMMETRY TabSymmetry
CHECK_DEADLOCK FALSE
