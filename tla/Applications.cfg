SPECIFICATION Spec
CONSTANTS
    u1 = u1
    u2 = u2
    Urls <- TwoUrls
    Scenarios <- PassScenarios
    MaxAttempts = 2
SYMMETRY SymUrls
INVARIANT ClickIsKnown
INVARIANT AttemptsSettle
PROPERTY SecondClickIsStale
PROPERTY NothingForgotten
CHECK_DEADLOCK FALSE
