SPECIFICATION FairSpec
CONSTANTS
    s = s
    Subs <- OneSub
    Meters <- RunsAndSubs
    MaxRuns = 2
    MaxCommands = 2
    MaxBuckets <- RunsTickOnce
    Platform = "seek"
INVARIANT RunHeld
INVARIANT WorkIsMetered
INVARIANT EveryIncrementBilled
PROPERTY NoJobAfterStop
PROPERTY StopEndsRun
CHECK_DEADLOCK FALSE
