SPECIFICATION FairSpec
CONSTANTS
    r1 = r1
    r2 = r2
    f = f
    v = v
    Callers = {r1, r2, v}
    Kind <- Mixed
    NoCaller = NoCaller
    MaxAttempts = 2
    MaxContention = 2
    MaxFaults = 1
    MaxLapses = 1
    MaxCrashes = 1
PROPERTY ContentChargedOnce
PROPERTY FreshLeaseKept
PROPERTY EveryCallReturns
CHECK_DEADLOCK FALSE
