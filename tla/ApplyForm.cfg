SPECIFICATION Spec
CONSTANTS
    Scenarios <- AllScenarios
    MaxSteps = 40
    PrepareSteps = 12
    SeekSteps = 10
    MaxUnfillable = 6
    MaxBlind = 8
    MaxMissing = 5
    StuckAt <- Stuck
INVARIANT PreparingNeverSubmits
INVARIANT FailureIsUnsent
INVARIANT DocumentsAsChosen
INVARIANT TailoredOnce
INVARIANT FineFormGoesOut
PROPERTY Ends
CHECK_DEADLOCK FALSE
