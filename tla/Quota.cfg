SPECIFICATION Spec
CONSTANTS
    Workers = {w1, w2}
    Keys = {k1, k2}
    Costs = {1}
    TopUps = {t1}
    PackCredits = 1
    Grace = 1
    TrialCredits = 2
    MaxSessions = 1
    MaxPhantom = 0
    MaxOperations = 3
    Grant <- MCGrant
    Updates <- RenewalAndUpgrade
    AdminOverrides <- LowerOrOff
    InitRows <- SpentOrTrial
    RowWriters <- AllWriters
SYMMETRY Symmetry
INVARIANT OverageWithinGrace
 
CHECK_DEADLOCK FALSE
