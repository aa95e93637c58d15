SPECIFICATION RetentionFairSpec
CONSTANTS
    Tasks = {t1}
    Evictors = {e1, e2}
    MaxNesting = 2
    Jobs = {j1, j2}
    v1 = v1
    v2 = v2
    a = a
    Versions = {v1, v2}
    NoVersion = NoVersion
    Artifact <- MCArtifact
    Limits <- MCLimits
    MaxPasses = 2
    MaxRequests = 2
    MaxReconciles = 2
    MaxFaults = 1
    MaxRestarts = 1
INVARIANT Exclusive
INVARIANT NestedNeverBlocked
INVARIANT DocumentsSurvive
INVARIANT InFlightKept
CHECK_DEADLOCK FALSE
PROPERTY BeginReturns
