SPECIFICATION FairSpec
CONSTANTS
    a = a
    b = b
    w1 = w1
    w2 = w2
    Histories <- MCHistories
    InitRow <- PaidRow
    PackCredits = 2
    Grant <- Grants2
INVARIANT AckedMeansEffected
INVARIANT ConvergesToStripe
PROPERTY CheckoutsCreditedOnce
PROPERTY EveryEventAcked
CHECK_DEADLOCK FALSE
