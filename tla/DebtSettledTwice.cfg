SPECIFICATION Spec
CONSTANTS
    Workers = {w1}
    Keys = {k1}
    Costs = {1}
    TopUps = {}
    PackCredits = 1
    Grace = 1
    TrialCredits = 0
    MaxSessions = 1
    MaxPhantom = 0
    MaxOperations = 3
    Grant <- MCGrant
    Updates <- OneRenewal
    AdminOverrides <- NoAdmin
    InitRows <- OneSpentRow
    RowWriters <- SettleAndUpdate
INVARIANT DebtIsGenuine
CHECK_DEADLOCK FALSE
