SPECIFICATION FairMatcherSpec
CONSTANTS
    alice = alice
    bot = bot
    m1 = m1
    m2 = m2
    c1 = c1
    c2 = c2
    Users = {alice}
    Robots = {}
    White = {}
    Prices = {1}
    Quantities = {1}
    Unit = 1
    BuyRate = 0
    SellRate = 0
    RateScale = 1
    Deposit <- MCThinDeposit
    MaxOrders = 2
    MaxRecords = 2
    Matchers = {m1, m2}
    Cancellers = {c1}
    Locking = TRUE
    ErrorLimit = 0
    MaxFailures = 2
    MaxCancels = 1
    MaxCrashes = 1
INVARIANTS
    MatcherTypeOK
    ThreadsHold
PROPERTIES
    ImplementsSpotTrade
    CancelEnds
    CrossedIsResolved
CHECK_DEADLOCK FALSE
