CONSTANTS
    d1 = d1
    d2 = d2
    t1 = t1
    t2 = t2
    t3 = t3
    Devices = {d1, d2}
    Threads = {t1, t2, t3}
    DeviceOf <- MCDeviceOf
    MaxPairs = 4
    MaxTrouble = 0
    MaxLapses = 1
    MaxApiCalls = 2
SPECIFICATION SessionSpec
INVARIANT SignOutSticks
CHECK_DEADLOCK FALSE
