SPECIFICATION FairSpec
CONSTANTS
    w1 = w1
    w2 = w2
    home = home
    work = work
    other = other
    Workers = {w1, w2}
    Addresses = {home, work, other}
    Scenarios <- MCScenarios
    MaxUsers = 2
    MaxLinks = 6
INVARIANT AddressIsProven
PROPERTY LinksKeepTheirPromise
PROPERTY WhoAsksGetsIn
CHECK_DEADLOCK FALSE
